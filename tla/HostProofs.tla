----------------------------- MODULE HostProofs -----------------------------
(***************************************************************************)
(* Order execution and the event loop, for every size of the pending table,*)
(* every number of connections, orders and polls, every limit and every    *)
(* set of prices: until the resolver first closes a connection late an     *)
(* answer meets the slot of its order, every fill that is reported         *)
(* happened and every order is accounted for; after it, no order vanishes  *)
(* and query_in_flight is honest (OrderExec); the exposure is bounded, the *)
(* P&L is the equity, and a halt is justified and winds down (HostApp).    *)
(***************************************************************************)
EXTENDS HostApp, FiniteSetTheorems, SequenceTheorems, WellFoundedInduction, NaturalsInduction, TLAPS

-----------------------------------------------------------------------------
(* The table, the connections and the broker's list as typed data *)

\* Connections and taken slots are about orders the broker has been sent, and
\* a slot remembers the side of its order.
ConnOrders == \A n \in Conns : conns[n].kind # "free" => conns[n].order \in 1 .. Len(broker)
SlotOrders == \A i \in Slots : slots[i].active =>
                  /\ slots[i].order \in 1 .. Len(broker)
                  /\ slots[i].side = broker[slots[i].order].side

ExecData == ExecTypeOK /\ ConnOrders /\ SlotOrders

\* A non-empty set of naturals has a least element.
LEMMA LeastOf ==
    ASSUME NEW S, S \subseteq Nat, S # {}
    PROVE  \E x \in S : \A y \in S : x <= y
<1>1. PICK x \in S : \A y \in S : ~(<<y, x>> \in OpToRel(<, Nat))
  BY NatLessThanWellFounded, WFMin
<1>2. ASSUME NEW y \in S PROVE x <= y
  <2>1. x \in Nat /\ y \in Nat /\ ~(y < x)
    BY <1>1 DEF OpToRel
  <2> QED BY <2>1
<1> QED BY <1>2

\* slot_alloc and mg_connect pick a slot and a connection nobody uses.
LEMMA PickedFree ==
    /\ Unused # {} => NextConn \in Conns /\ conns[NextConn].kind = "free"
    /\ Active # Slots => \E i \in Slots \ Active : \A j \in Slots \ Active : i <= j
<1>1. ASSUME Unused # {} PROVE NextConn \in Conns /\ conns[NextConn].kind = "free"
  <2>1. Unused \subseteq Nat
    BY ExecAssumption DEF Unused, OfKind, Conns
  <2>2. \E n \in Unused : \A m \in Unused : n <= m
    BY <1>1, <2>1, LeastOf
  <2>3. NextConn \in Unused
    BY <2>2 DEF NextConn
  <2> QED BY <2>3 DEF Unused, OfKind
<1>2. ASSUME Active # Slots
      PROVE  \E i \in Slots \ Active : \A j \in Slots \ Active : i <= j
  <2>1. Slots \ Active # {} /\ Slots \ Active \subseteq Nat
    BY <1>2, ExecAssumption DEF Active, Slots
  <2> QED BY <2>1, LeastOf
<1> QED BY <1>1, <1>2

\* Records of the table and of the connections.
LEMMA Records ==
    ASSUME ExecTypeOK
    PROVE  /\ FreeSlot \in SlotRec /\ NoConn \in ConnRec
           /\ slots \in [Slots -> SlotRec] /\ conns \in [Conns -> ConnRec]
           /\ broker \in Seq(OrderRec) /\ Len(broker) \in Nat /\ Len(broker) <= MaxOrders
           /\ DOMAIN broker = 1 .. Len(broker)
           /\ told \in Seq(FillRec) /\ Len(told) \in Nat /\ DOMAIN told = 1 .. Len(told)
           /\ stats \in StatsRec /\ credentials \in BOOLEAN /\ late \in BOOLEAN
<1>1. FreeSlot \in SlotRec
  BY ExecAssumption DEF FreeSlot, SlotRec, BUY
<1>2. NoConn \in ConnRec
  BY ExecAssumption DEF NoConn, ConnRec, Slots
<1>3. slots \in [Slots -> SlotRec] /\ conns \in [Conns -> ConnRec]
  BY DEF ExecTypeOK
<1>4. broker \in Seq(OrderRec) /\ Len(broker) <= MaxOrders /\ told \in Seq(FillRec)
  BY DEF ExecTypeOK
<1> QED BY <1>1, <1>2, <1>3, <1>4, LenProperties DEF ExecTypeOK

\* One counter is counted up.
LEMMA StatsCount ==
    ASSUME stats \in StatsRec, NEW f \in {"sent", "filled", "rejected", "errors"},
           stats' = [stats EXCEPT ![f] = stats[f] + 1]
    PROVE  stats' \in StatsRec
  BY DEF StatsRec

\* A step leaves the credentials alone, and a late close is remembered.
LEMMA StepAside ==
    ASSUME ExecTypeOK, [ExecNext]_execVars
    PROVE  /\ credentials' = credentials /\ (late' = late \/ late' = TRUE)
           /\ credentials' \in BOOLEAN /\ late' \in BOOLEAN
<1> DEFINE Aside == credentials' = credentials /\ (late' = late \/ late' = TRUE)
<1>1. ASSUME NEW n \in Conns, Callback(n) PROVE Aside
  <2>1. CASE PostAnswer(n)
    BY <2>1 DEF PostAnswer
  <2>2. CASE QueryAnswer(n)
    BY <2>2 DEF QueryAnswer
  <2>3. CASE PostError(n) \/ QueryError(n)
    BY <2>3 DEF PostError, QueryError, Closing
  <2>4. CASE PostClose(n) \/ QueryClose(n)
    BY <2>4 DEF PostClose, QueryClose
  <2> QED BY <1>1, <2>1, <2>2, <2>3, <2>4 DEF Callback
<1>2. ASSUME NEW i \in Slots, Poll(i) PROVE Aside
  BY <1>2 DEF Poll, GiveUp, Query
<1>3. ASSUME Broker PROVE Aside
  <2>1. PICK o \in Orders : BrokerReceives(o) \/ BrokerDecides(o)
    BY <1>3 DEF Broker
  <2>2. credentials' = credentials /\ late' = late
    BY <2>1, Zenon DEF BrokerReceives, BrokerDecides
  <2> QED BY <2>2, Zenon
<1>4. ASSUME NEW side \in {BUY, SELL}, Send(side) PROVE Aside
  BY <1>4 DEF Send
<1>5. ASSUME TurnAway \/ UNCHANGED execVars PROVE Aside
  <2>1. credentials' = credentials /\ late' = late
    BY <1>5, Zenon DEF TurnAway, execVars
  <2> QED BY <2>1, Zenon
<1>6. Aside
  BY <1>1, <1>2, <1>3, <1>4, <1>5, Zenon DEF ExecNext
<1> QED BY <1>6, Records

\* The slot slot_alloc hands out, filled in by fmma_exec_send.
NewSlot(side, o) == [FreeSlot EXCEPT !.active = TRUE, !.side = side, !.order = o]

\* A slot just claimed is active, has no id yet and is not being asked about.
LEMMA NewSlotFields ==
    ASSUME NEW side \in {BUY, SELL}, NEW o \in 1 .. MaxOrders
    PROVE  /\ NewSlot(side, o) \in SlotRec
           /\ NewSlot(side, o).active = TRUE /\ NewSlot(side, o).id = ""
           /\ NewSlot(side, o).side = side /\ NewSlot(side, o).order = o
           /\ NewSlot(side, o).asking = FALSE
<1>1. /\ FreeSlot \in SlotRec /\ FreeSlot.id = "" /\ FreeSlot.asking = FALSE
  BY ExecAssumption DEF FreeSlot, SlotRec, BUY, SELL
<1>2. o \in 0 .. MaxOrders
  BY ExecAssumption
<1> QED BY <1>1, <1>2 DEF NewSlot, SlotRec

\* What fmma_exec_send does, with the slot and the connection it found.
LEMMA SendEffect ==
    ASSUME ExecTypeOK, NEW side \in {BUY, SELL}, Send(side)
    PROVE  \E i \in Slots, c \in Conns :
              /\ ~slots[i].active /\ conns[c].kind = "free"
              /\ slots' = [slots EXCEPT ![i] = NewSlot(side, Len(broker) + 1)]
              /\ conns' = [conns EXCEPT ![c] =
                    [kind |-> "post", slot |-> i, order |-> Len(broker) + 1]]
              /\ broker' = Append(broker, [side |-> side, state |-> "posted"])
              /\ Len(broker) + 1 \in 1 .. MaxOrders
              /\ stats' = [stats EXCEPT !.sent = stats.sent + 1]
              /\ told' = told
<1> DEFINE i == CHOOSE i \in Slots \ Active : \A j \in Slots \ Active : i <= j
<1>1. i \in Slots \ Active
  BY PickedFree DEF Send
<1>2. NextConn \in Conns /\ conns[NextConn].kind = "free"
  BY PickedFree DEF Send
<1>3. Len(broker) + 1 \in 1 .. MaxOrders
  BY Records, ExecAssumption DEF Send
<1>4. ~slots[i].active /\ i \in Slots
  BY <1>1 DEF Active
<1>5. /\ slots' = [slots EXCEPT ![i] = NewSlot(side, Len(broker) + 1)]
      /\ conns' = [conns EXCEPT ![NextConn] =
                    [kind |-> "post", slot |-> i, order |-> Len(broker) + 1]]
      /\ broker' = Append(broker, [side |-> side, state |-> "posted"])
      /\ stats' = [stats EXCEPT !.sent = stats.sent + 1]
      /\ told' = told
  BY DEF Send, NewSlot
<1> HIDE DEF i
<1> QED BY <1>2, <1>3, <1>4, <1>5

-----------------------------------------------------------------------------
(* Type correctness *)

\* The broker's list: an order is added at the end, or changes its state.
LEMMA BrokerData ==
    ASSUME ExecTypeOK
    PROVE  /\ \A r \in OrderRec :
                 /\ Append(broker, r) \in Seq(OrderRec)
                 /\ Len(Append(broker, r)) = Len(broker) + 1
                 /\ Append(broker, r)[Len(broker) + 1] = r
                 /\ \A o \in 1 .. Len(broker) : Append(broker, r)[o] = broker[o]
           /\ \A o \in 1 .. Len(broker) :
                 \A st \in {"posted", "working", "refused"} \cup Terminal :
                    LET b == [broker EXCEPT ![o].state = st]
                    IN  /\ b \in Seq(OrderRec) /\ Len(b) = Len(broker)
                        /\ b[o].state = st /\ b[o].side = broker[o].side
                        /\ \A p \in 1 .. Len(broker) : p # o => b[p] = broker[p]
<1>1. ASSUME NEW r \in OrderRec
      PROVE  /\ Append(broker, r) \in Seq(OrderRec)
             /\ Len(Append(broker, r)) = Len(broker) + 1
             /\ Append(broker, r)[Len(broker) + 1] = r
             /\ \A o \in 1 .. Len(broker) : Append(broker, r)[o] = broker[o]
  BY Records, AppendProperties
<1>2. ASSUME NEW o \in 1 .. Len(broker),
             NEW st \in {"posted", "working", "refused"} \cup Terminal
      PROVE  LET b == [broker EXCEPT ![o].state = st]
             IN  /\ b \in Seq(OrderRec) /\ Len(b) = Len(broker)
                 /\ b[o].state = st /\ b[o].side = broker[o].side
                 /\ \A p \in 1 .. Len(broker) : p # o => b[p] = broker[p]
  <2> DEFINE e == [broker[o] EXCEPT !.state = st]
  <2>1. broker[o] \in OrderRec
    BY Records, ElementOfSeq
  <2>2. e \in OrderRec /\ e.state = st /\ e.side = broker[o].side
    BY <2>1 DEF OrderRec
  <2>3. [broker EXCEPT ![o].state = st] = [broker EXCEPT ![o] = e]
    OBVIOUS
  <2> HIDE DEF e
  <2>4. /\ [broker EXCEPT ![o] = e] \in Seq(OrderRec)
        /\ Len([broker EXCEPT ![o] = e]) = Len(broker)
        /\ \A p \in 1 .. Len(broker) :
              [broker EXCEPT ![o] = e][p] = IF p = o THEN e ELSE broker[p]
    BY <2>2, Records, ExceptSeq
  <2> DEFINE b == [broker EXCEPT ![o].state = st]
  <2>5. /\ b \in Seq(OrderRec) /\ Len(b) = Len(broker) /\ b[o] = e
        /\ \A p \in 1 .. Len(broker) : p # o => b[p] = broker[p]
    BY <2>3, <2>4
  <2> HIDE DEF b
  <2>6. b[o].state = st /\ b[o].side = broker[o].side
    BY <2>2, <2>5
  <2> QED BY <2>5, <2>6 DEF b
<1> QED BY <1>1, <1>2

(***************************************************************************)
(* What a callback does, whichever event it serves.  The connection is     *)
(* gone or, after the resolver's error, waits to be closed; the slot is    *)
(* either released, and the counters and reports say how the order ended,  *)
(* or kept with at most its id and query_in_flight changed.                *)
(***************************************************************************)
Counted(f) == stats' = [stats EXCEPT ![f] = stats[f] + 1]

\* A query fails, or an order is turned away: a counter moves and no slot does.
Noted(f, g) == stats' = [stats EXCEPT ![f] = stats[f] + 1, ![g] = stats[g] + 1]
Unheard == Noted("errors", "unheard")

\* Two counters are counted up.
LEMMA StatsNote ==
    ASSUME stats \in StatsRec, NEW f \in {"rejected", "errors"},
           NEW g \in {"turned", "unheard"}, Noted(f, g)
    PROVE  stats' \in StatsRec
<1>1. f # g /\ stats[f] + 1 \in Nat /\ stats[g] + 1 \in Nat
  BY DEF StatsRec
<1> QED BY <1>1 DEF StatsRec, Noted

Ended(i, o) ==
    \/ Counted("rejected") /\ told' = told
    \/ Counted("errors") /\ told' = told
    \/ /\ Counted("filled") /\ slots[i].active /\ broker[o].state = "filled"
       /\ told' = Append(told, [order |-> o, side |-> slots[i].side])
    \/ ~slots[i].active /\ UNCHANGED <<stats, told>>

\* p is slot i with at most its id and its query_in_flight changed.
Touched(i, p) ==
    /\ p \in SlotRec
    /\ p.active = slots[i].active /\ p.side = slots[i].side /\ p.order = slots[i].order

CallbackDoes(n) ==
    LET i == conns[n].slot
        o == conns[n].order
    IN  /\ conns[n].kind # "free" /\ broker' = broker
        /\ \E c \in ConnRec :
              /\ conns' = [conns EXCEPT ![n] = c]
              /\ (c.kind = "free" /\ late' = late) \/ (c.order = o /\ late' = TRUE)
        /\ \/ slots' = [slots EXCEPT ![i] = FreeSlot] /\ Ended(i, o)
           \/ /\ \E p : /\ Touched(i, p) /\ slots' = [slots EXCEPT ![i] = p]
                        /\ conns[n].kind = "post" => p.asking = slots[i].asking
                        /\ conns[n].kind \in {"query", "lost"} =>
                              p.asking = FALSE /\ p.id = slots[i].id
                        /\ p.asking => slots[i].asking
              /\ stats' = stats \/ Unheard
              /\ told' = told

\* Both ways to close a connection.
LEMMA ClosingEffect ==
    ASSUME ExecTypeOK, NEW n \in Conns, conns[n].kind # "free",
           Closing(n) \/ (Hangup(n) /\ late' = late)
    PROVE  \E c \in ConnRec :
              /\ conns' = [conns EXCEPT ![n] = c]
              /\ \/ c.kind = "free" /\ late' = late
                 \/ c.order = conns[n].order /\ late' = TRUE
<1>1. NoConn \in ConnRec /\ NoConn.kind = "free" /\ conns[n] \in ConnRec
  BY Records DEF NoConn
<1>2. CASE Hangup(n) /\ late' = late
  <2>1. conns' = [conns EXCEPT ![n] = NoConn]
    BY <1>2 DEF Hangup
  <2> QED BY <1>1, <1>2, <2>1
<1>3. CASE /\ conns' = [conns EXCEPT ![n].kind =
                        IF @ = "post" THEN "post_closing" ELSE "query_closing"]
           /\ late' = TRUE
  <2> DEFINE c == [conns[n] EXCEPT !.kind =
                     IF conns[n].kind = "post" THEN "post_closing" ELSE "query_closing"]
  <2>1. c \in ConnRec /\ c.order = conns[n].order
    BY <1>1 DEF ConnRec
  <2>2. conns' = [conns EXCEPT ![n] = c]
    BY <1>3
  <2> HIDE DEF c
  <2> QED BY <1>3, <2>1, <2>2
<1> QED BY <1>2, <1>3 DEF Closing

\* Settling tells of the order of the connection, with the side of the slot.
LEMMA SettleEffect ==
    ASSUME ExecTypeOK, NEW i \in Slots, NEW o, NEW st, Settle(i, o, st),
           st = "filled" => broker[o].state = "filled"
    PROVE  Ended(i, o)
  BY Records DEF Settle, Ended, Counted

\* The two edits of a slot that is kept.
LEMMA TouchedRecords ==
    ASSUME ExecTypeOK, NEW i \in Slots
    PROVE  /\ slots[i] \in SlotRec
           /\ \A id \in {"known", "noid"} : Touched(i, [slots[i] EXCEPT !.id = id])
           /\ Touched(i, [slots[i] EXCEPT !.asking = FALSE])
           /\ Touched(i, slots[i]) /\ slots = [slots EXCEPT ![i] = slots[i]]
  BY Records DEF Touched, SlotRec

\* The answer to a POST closes its connection and touches at most its slot.
LEMMA PostAnswerDoes ==
    ASSUME ExecData, NEW n \in Conns, PostAnswer(n)
    PROVE  CallbackDoes(n)
<1> DEFINE i == conns[n].slot
           o == conns[n].order
<1>1. conns[n] \in ConnRec /\ i \in Slots /\ conns[n].kind = "post"
  BY Records DEF ExecData, ConnRec, PostAnswer
<1>2. /\ broker' = broker
      /\ \E c \in ConnRec :
              /\ conns' = [conns EXCEPT ![n] = c]
              /\ (c.kind = "free" /\ late' = late) \/ (c.order = o /\ late' = TRUE)
  BY <1>1, ClosingEffect DEF PostAnswer, ExecData
<1>3. PICK st \in Shown(o), id \in {"known", "noid"} :
              IF st = "refused"
              THEN /\ stats' = [stats EXCEPT !.rejected = @ + 1]
                   /\ Release(i)
                   /\ UNCHANGED told
              ELSE IF st \in Terminal
              THEN Settle(i, o, st) /\ Release(i)
              ELSE /\ slots' = [slots EXCEPT ![i].id = id]
                   /\ UNCHANGED <<stats, told>>
  BY DEF PostAnswer
<1>4. CASE st = "refused"
  BY <1>1, <1>2, <1>3, <1>4 DEF CallbackDoes, Ended, Counted, Release
<1>5. CASE st # "refused" /\ st \in Terminal
  <2>1. st = "filled" => broker[o].state = "filled"
    BY <1>3 DEF Shown
  <2>2. Ended(i, o) /\ slots' = [slots EXCEPT ![i] = FreeSlot]
    BY <1>1, <1>3, <1>5, <2>1, SettleEffect DEF Release, ExecData
  <2> QED BY <1>1, <1>2, <2>2 DEF CallbackDoes
<1>6. CASE st # "refused" /\ st \notin Terminal
  <2> DEFINE p == [slots[i] EXCEPT !.id = id]
  <2>1. Touched(i, p) /\ slots' = [slots EXCEPT ![i] = p] /\ UNCHANGED <<stats, told>>
    BY <1>1, <1>3, <1>6, TouchedRecords DEF ExecData
  <2>2. p.asking = slots[i].asking
    BY <1>1, TouchedRecords DEF SlotRec, ExecData
  <2> HIDE DEF p
  <2> QED BY <1>1, <1>2, <2>1, <2>2 DEF CallbackDoes
<1> QED BY <1>4, <1>5, <1>6

\* So does the answer to a status query.
LEMMA QueryAnswerDoes ==
    ASSUME ExecData, NEW n \in Conns, QueryAnswer(n)
    PROVE  CallbackDoes(n)
<1> DEFINE i == conns[n].slot
           o == conns[n].order
<1>1. conns[n] \in ConnRec /\ i \in Slots /\ conns[n].kind \in {"query", "lost"}
  BY Records DEF ExecData, ConnRec, QueryAnswer
<1>2. /\ broker' = broker
      /\ \E c \in ConnRec :
              /\ conns' = [conns EXCEPT ![n] = c]
              /\ (c.kind = "free" /\ late' = late) \/ (c.order = o /\ late' = TRUE)
  BY <1>1, ClosingEffect DEF QueryAnswer, ExecData
<1>3. PICK st \in IF conns[n].kind = "lost" THEN {"working"} ELSE Shown(o) :
              IF st \notin Terminal
              THEN /\ slots' = [slots EXCEPT ![i].asking = FALSE]
                   /\ UNCHANGED <<stats, told>>
              ELSE /\ Release(i)
                   /\ IF st = "canceled"
                      THEN /\ stats' = [stats EXCEPT !.rejected = @ + 1]
                           /\ UNCHANGED told
                      ELSE Settle(i, o, st)
  BY DEF QueryAnswer
<1>4. CASE st \notin Terminal
  <2> DEFINE p == [slots[i] EXCEPT !.asking = FALSE]
  <2>1. Touched(i, p) /\ slots' = [slots EXCEPT ![i] = p] /\ UNCHANGED <<stats, told>>
    BY <1>1, <1>3, <1>4, TouchedRecords DEF ExecData
  <2>2. p.asking = FALSE /\ p.id = slots[i].id
    BY <1>1, TouchedRecords DEF SlotRec, ExecData
  <2> HIDE DEF p
  <2> QED BY <1>1, <1>2, <2>1, <2>2 DEF CallbackDoes
<1>5. CASE st \in Terminal /\ st = "canceled"
  BY <1>1, <1>2, <1>3, <1>5 DEF CallbackDoes, Ended, Counted, Release
<1>6. CASE st \in Terminal /\ st # "canceled"
  <2>1. st = "filled" => broker[o].state = "filled"
    BY <1>3 DEF Shown
  <2>2. Ended(i, o) /\ slots' = [slots EXCEPT ![i] = FreeSlot]
    BY <1>1, <1>3, <1>6, <2>1, SettleEffect DEF Release, ExecData
  <2> QED BY <1>1, <1>2, <2>2 DEF CallbackDoes
<1> QED BY <1>4, <1>5, <1>6

\* So does every event of a connection, errors and closes included.
LEMMA CallbackEffect ==
    ASSUME ExecData, NEW n \in Conns, Callback(n)
    PROVE  CallbackDoes(n)
<1> DEFINE i == conns[n].slot
           p == [slots[i] EXCEPT !.asking = FALSE]
<1>1. conns[n] \in ConnRec /\ i \in Slots
  BY Records DEF ExecData, ConnRec
<1>2. Touched(i, p) /\ p.asking = FALSE /\ p.id = slots[i].id
  BY <1>1, TouchedRecords DEF SlotRec, ExecData
<1>3. CASE PostError(n)
  BY <1>1, <1>3, ClosingEffect
    DEF PostError, CallbackDoes, Ended, Counted, Release, ExecData
<1>4. CASE QueryError(n)
  <2>1. slots' = [slots EXCEPT ![i] = p]
    BY <1>4 DEF QueryError
  <2> HIDE DEF p
  <2>2. stats' = [stats EXCEPT !.errors = stats.errors + 1, !.unheard = stats.unheard + 1]
    BY <1>4 DEF QueryError
  <2>3. Unheard
    BY <2>2 DEF Unheard, Noted
  <2> QED
    BY <1>1, <1>2, <1>4, <2>1, <2>3, ClosingEffect DEF QueryError, CallbackDoes, ExecData
<1>5. CASE PostClose(n)
  BY <1>1, <1>5, ClosingEffect, TouchedRecords DEF PostClose, CallbackDoes, ExecData
<1>6. CASE QueryClose(n)
  <2>1. slots' = [slots EXCEPT ![i] = p]
    BY <1>6 DEF QueryClose
  <2> HIDE DEF p
  <2> QED BY <1>1, <1>2, <1>6, <2>1, ClosingEffect DEF QueryClose, CallbackDoes, ExecData
<1> QED BY <1>3, <1>4, <1>5, <1>6, PostAnswerDoes, QueryAnswerDoes DEF Callback

\* What fmma_exec_poll does to a slot: releases it or asks about its order.
Asked(i, c, k, p) ==
    /\ conns[c].kind = "free" /\ conns' = [conns EXCEPT ![c] = k]
    /\ Touched(i, p) /\ slots' = [slots EXCEPT ![i] = p]
    /\ p.asking = TRUE /\ p.id = slots[i].id
    /\ k.kind \in {"query", "lost"} /\ k.slot = i /\ k.order = slots[i].order
    /\ stats' = stats

GivenUp(i) ==
    slots' = [slots EXCEPT ![i] = FreeSlot] /\ Counted("rejected") /\ conns' = conns

\* Polling a slot gives it up or asks about it on a connection of its own.
LEMMA PollEffect ==
    ASSUME ExecData, NEW i \in Slots, Poll(i)
    PROVE  /\ Pollable(i) /\ UNCHANGED <<broker, told>>
           /\ \/ GivenUp(i)
              \/ \E c \in Conns, k \in ConnRec, p \in SlotRec : Asked(i, c, k, p)
<1>1. CASE GiveUp(i)
  BY <1>1 DEF GiveUp, GivenUp, Release, Counted
<1>2. CASE Query(i)
  <2> DEFINE p == [slots[i] EXCEPT !.asking = TRUE, !.polls = slots[i].polls + 1]
             k == [kind |-> IF slots[i].id = "known" THEN "query" ELSE "lost",
                   slot |-> i, order |-> slots[i].order]
  <2>1. slots[i] \in SlotRec
    BY TouchedRecords DEF ExecData
  <2>2. slots[i].polls + 1 \in 0 .. GiveUpPolls
    <3>1. slots[i].polls \in 0 .. GiveUpPolls /\ slots[i].polls < GiveUpPolls
      BY <1>2, <2>1 DEF Query, SlotRec
    <3> QED BY <3>1, ExecAssumption
  <2>3. Touched(i, p) /\ p.asking = TRUE /\ p.id = slots[i].id
    BY <2>1, <2>2 DEF Touched, SlotRec
  <2>4. k \in ConnRec /\ k.kind \in {"query", "lost"} /\ k.slot = i /\ k.order = slots[i].order
    BY <2>1 DEF ConnRec, SlotRec
  <2>5. slots' = [slots EXCEPT ![i] = p]
    BY <1>2, Records DEF Query, ExecData
  <2>6. NextConn \in Conns /\ conns[NextConn].kind = "free"
    BY <1>2, PickedFree DEF Query
  <2>7. conns' = [conns EXCEPT ![NextConn] = k] /\ Pollable(i) /\ UNCHANGED <<broker, told, stats>>
    BY <1>2 DEF Query
  <2> HIDE DEF p, k
  <2> QED BY <2>3, <2>4, <2>5, <2>6, <2>7 DEF Touched, Asked
<1> QED BY <1>1, <1>2 DEF Poll

\* The broker only moves an order that is not over on to its next state.
LEMMA BrokerEffect ==
    ASSUME ExecData, Broker
    PROVE  /\ UNCHANGED <<slots, conns, stats, told>>
           /\ broker' \in Seq(OrderRec) /\ Len(broker') = Len(broker)
           /\ \A o \in 1 .. Len(broker) :
                 /\ broker'[o].side = broker[o].side
                 /\ broker[o].state = "filled" => broker'[o].state = "filled"
<1>1. PICK o \in 1 .. Len(broker) : BrokerReceives(o) \/ BrokerDecides(o)
  BY Records DEF Broker, Orders, ExecData
<1>2. PICK st \in {"posted", "working", "refused"} \cup Terminal :
         broker' = [broker EXCEPT ![o].state = st]
  BY <1>1, ExecAssumption DEF BrokerReceives, BrokerDecides, Terminal
<1>3. broker[o].state # "filled"
  BY <1>1 DEF BrokerReceives, BrokerDecides
<1>4. /\ broker' \in Seq(OrderRec) /\ Len(broker') = Len(broker)
      /\ broker'[o].side = broker[o].side
      /\ \A p \in 1 .. Len(broker) : p # o => broker'[p] = broker[p]
  <2> DEFINE b == [broker EXCEPT ![o].state = st]
  <2>1. /\ b \in Seq(OrderRec) /\ Len(b) = Len(broker)
        /\ b[o].state = st /\ b[o].side = broker[o].side
        /\ \A p \in 1 .. Len(broker) : p # o => b[p] = broker[p]
    BY BrokerData, ZenonT(30) DEF ExecData
  <2>2. broker' = b
    BY <1>2
  <2> HIDE DEF b
  <2> QED BY <2>1, <2>2
<1>5. UNCHANGED <<slots, conns, stats, told>>
  BY <1>1 DEF BrokerReceives, BrokerDecides
<1> QED BY <1>3, <1>4, <1>5

\* An order that is turned away moves a counter and nothing else.
LEMMA TurnAwayEffect ==
    ASSUME ExecTypeOK, TurnAway
    PROVE  /\ UNCHANGED <<slots, conns, broker, told, credentials, late>>
           /\ stats' \in StatsRec
           /\ Noted("rejected", "turned") \/ Noted("errors", "turned")
<1>1. \/ stats' = [stats EXCEPT !.rejected = stats.rejected + 1,
                               !.turned = stats.turned + 1]
      \/ stats' = [stats EXCEPT !.errors = stats.errors + 1,
                               !.turned = stats.turned + 1]
  BY DEF TurnAway
<1>2. Noted("rejected", "turned") \/ Noted("errors", "turned")
  BY <1>1 DEF Noted
<1>3. stats \in StatsRec
  BY Records
<1>4. ASSUME NEW f \in {"rejected", "errors"}, Noted(f, "turned") PROVE stats' \in StatsRec
  BY <1>3, <1>4, StatsNote
<1> QED BY <1>2, <1>4 DEF TurnAway

-----------------------------------------------------------------------------
(* The invariants of the table *)

\* A new order is typed and known to the broker.
LEMMA SendData ==
    ASSUME ExecData, NEW side \in {BUY, SELL}, Send(side)
    PROVE  ExecData'
<1>1. PICK i \in Slots, c \in Conns :
              /\ ~slots[i].active /\ conns[c].kind = "free"
              /\ slots' = [slots EXCEPT ![i] = NewSlot(side, Len(broker) + 1)]
              /\ conns' = [conns EXCEPT ![c] =
                    [kind |-> "post", slot |-> i, order |-> Len(broker) + 1]]
              /\ broker' = Append(broker, [side |-> side, state |-> "posted"])
              /\ Len(broker) + 1 \in 1 .. MaxOrders
              /\ stats' = [stats EXCEPT !.sent = stats.sent + 1]
              /\ told' = told
  BY SendEffect DEF ExecData
<1> DEFINE o == Len(broker) + 1
           r == [side |-> side, state |-> "posted"]
           k == [kind |-> "post", slot |-> i, order |-> o]
           p == NewSlot(side, o)
<1>2. /\ slots \in [Slots -> SlotRec] /\ conns \in [Conns -> ConnRec]
      /\ Len(broker) \in Nat /\ o \in 1 .. MaxOrders
  BY <1>1, Records DEF ExecData
<1>3. p \in SlotRec /\ p.active /\ p.side = side /\ p.order = o
  BY <1>2, NewSlotFields
<1>4. k \in ConnRec /\ k.order = o /\ k.kind # "free"
  BY <1>2, ExecAssumption DEF ConnRec
<1>5. r \in OrderRec /\ r.side = side
  BY DEF OrderRec
<1>6. slots' = [slots EXCEPT ![i] = p] /\ conns' = [conns EXCEPT ![c] = k]
  BY <1>1
<1>7. /\ broker' \in Seq(OrderRec) /\ Len(broker') = o /\ broker'[o] = r
      /\ \A q \in 1 .. Len(broker) : broker'[q] = broker[q]
  BY <1>1, <1>5, BrokerData DEF ExecData
<1>8. stats' \in StatsRec /\ told' \in Seq(FillRec)
  BY <1>1, Records, StatsCount DEF ExecData
<1> HIDE DEF o, r, k, p
<1>9. slots' \in [Slots -> SlotRec] /\ conns' \in [Conns -> ConnRec]
  BY <1>2, <1>3, <1>4, <1>6
<1>9b. credentials' \in BOOLEAN /\ late' \in BOOLEAN
  BY StepAside DEF ExecNext, ExecData
<1>10. ExecTypeOK'
  BY <1>2, <1>7, <1>8, <1>9, <1>9b DEF ExecTypeOK
<1>11. ConnOrders'
  BY <1>2, <1>4, <1>6, <1>7 DEF ConnOrders, ExecData, o
<1>12. SlotOrders'
  BY <1>2, <1>3, <1>5, <1>6, <1>7 DEF SlotOrders, ExecData, o
<1> QED BY <1>10, <1>11, <1>12 DEF ExecData

\* A callback keeps the data typed: the orders it reports are the broker's.
LEMMA CallbackData ==
    ASSUME ExecData, NEW n \in Conns, Callback(n)
    PROVE  ExecData'
<1> DEFINE i == conns[n].slot
           o == conns[n].order
<1>1. /\ slots \in [Slots -> SlotRec] /\ conns \in [Conns -> ConnRec]
      /\ Len(broker) \in Nat /\ Len(broker) <= MaxOrders
      /\ FreeSlot \in SlotRec /\ FreeSlot.active = FALSE
      /\ stats \in StatsRec /\ told \in Seq(FillRec)
  BY Records DEF ExecData, FreeSlot
<1>2. /\ CallbackDoes(n) /\ conns[n].kind # "free" /\ broker' = broker
      /\ i \in Slots /\ o \in 1 .. Len(broker) /\ o \in 1 .. MaxOrders
  <2>1. CallbackDoes(n) /\ conns[n].kind # "free" /\ broker' = broker
    BY CallbackEffect DEF CallbackDoes
  <2>2. i \in Slots /\ o \in 1 .. Len(broker)
    BY <1>1, <2>1 DEF ConnRec, ConnOrders, ExecData
  <2> QED BY <1>1, <2>1, <2>2, ExecAssumption
<1> HIDE DEF i, o
<1>3. PICK c \in ConnRec : /\ conns' = [conns EXCEPT ![n] = c]
                           /\ c.kind = "free" \/ c.order = o
  BY <1>2 DEF CallbackDoes, o
<1>4. PICK p \in SlotRec :
         /\ slots' = [slots EXCEPT ![i] = p]
         /\ p.active => slots[i].active /\ p.side = slots[i].side /\ p.order = slots[i].order
  BY <1>1, <1>2 DEF CallbackDoes, Touched, i
<1>5. stats' \in StatsRec /\ told' \in Seq(FillRec)
  <2>1. CASE UNCHANGED <<stats, told>>
    BY <1>1, <2>1
  <2>1b. CASE Unheard /\ told' = told
    BY <1>1, <2>1b, StatsNote DEF Unheard
  <2>2. CASE Ended(i, o)
    <3>1. slots[i].side \in {BUY, SELL}
      BY <1>1, <1>2 DEF SlotRec
    <3>2. [order |-> o, side |-> slots[i].side] \in FillRec
      BY <1>2, <3>1 DEF FillRec
    <3>3. Append(told, [order |-> o, side |-> slots[i].side]) \in Seq(FillRec)
      BY <1>1, <3>2, AppendProperties
    <3> QED BY <1>1, <2>2, <3>3, StatsCount DEF Ended, Counted
  <2> QED BY <1>2, <2>1, <2>1b, <2>2 DEF CallbackDoes, i, o
<1>6b. credentials' \in BOOLEAN /\ late' \in BOOLEAN
  BY StepAside DEF ExecNext, ExecData
<1>6. slots' \in [Slots -> SlotRec] /\ conns' \in [Conns -> ConnRec]
  BY <1>1, <1>3, <1>4
<1>7. ExecTypeOK'
  BY <1>2, <1>5, <1>6, <1>6b DEF ExecTypeOK, ExecData
<1>8. ConnOrders'
  BY <1>1, <1>2, <1>3 DEF ConnOrders, ExecData
<1>9. SlotOrders'
  BY <1>1, <1>2, <1>4 DEF SlotOrders, ExecData
<1> QED BY <1>7, <1>8, <1>9 DEF ExecData

\* So does a poll.
LEMMA PollData ==
    ASSUME ExecData, NEW i \in Slots, Poll(i)
    PROVE  ExecData'
<1>1. /\ slots \in [Slots -> SlotRec] /\ conns \in [Conns -> ConnRec]
      /\ FreeSlot \in SlotRec /\ FreeSlot.active = FALSE /\ stats \in StatsRec
  BY Records DEF ExecData, FreeSlot
<1>2. /\ slots[i].active /\ UNCHANGED <<broker, told>>
      /\ slots[i].order \in 1 .. Len(broker)
  BY PollEffect DEF Pollable, ExecData, SlotOrders
<1>3. PICK p \in SlotRec :
         /\ slots' = [slots EXCEPT ![i] = p]
         /\ p.active => p.side = slots[i].side /\ p.order = slots[i].order
  <2>1. CASE GivenUp(i)
    BY <1>1, <2>1 DEF GivenUp
  <2>2. ASSUME NEW c \in Conns, NEW k \in ConnRec, NEW p \in SlotRec, Asked(i, c, k, p)
        PROVE  /\ slots' = [slots EXCEPT ![i] = p]
               /\ p.side = slots[i].side /\ p.order = slots[i].order
    BY <2>2 DEF Asked, Touched
  <2> QED BY <2>1, <2>2, PollEffect
<1>4. \/ conns' = conns
      \/ \E c \in Conns, k \in ConnRec :
            conns' = [conns EXCEPT ![c] = k] /\ k.order = slots[i].order
  <2>1. ASSUME NEW c \in Conns, NEW k \in ConnRec, NEW r \in SlotRec, Asked(i, c, k, r)
        PROVE  conns' = [conns EXCEPT ![c] = k] /\ k.order = slots[i].order
    BY <2>1 DEF Asked
  <2> QED BY <2>1, PollEffect DEF GivenUp
<1>5. stats' \in StatsRec
  BY <1>1, PollEffect, StatsCount DEF Counted, GivenUp, Asked
<1>6. slots' \in [Slots -> SlotRec] /\ conns' \in [Conns -> ConnRec]
  BY <1>1, <1>3, <1>4
<1>6b. credentials' \in BOOLEAN /\ late' \in BOOLEAN
  BY StepAside DEF ExecNext, ExecData
<1>7. ExecTypeOK'
  BY <1>2, <1>5, <1>6, <1>6b DEF ExecTypeOK, ExecData
<1>8. ConnOrders'
  BY <1>1, <1>2, <1>4 DEF ConnOrders, ExecData
<1>9. SlotOrders'
  BY <1>1, <1>2, <1>3 DEF SlotOrders, ExecData
<1> QED BY <1>7, <1>8, <1>9 DEF ExecData

\* Every step of execution keeps its data typed.
LEMMA ExecDataStep == ExecData /\ [ExecNext]_execVars => ExecData'
<1> SUFFICES ASSUME ExecData, [ExecNext]_execVars PROVE ExecData'
  OBVIOUS
<1>1. CASE Broker
  <2>1. /\ UNCHANGED <<slots, conns, stats, told>>
        /\ broker' \in Seq(OrderRec) /\ Len(broker') = Len(broker)
        /\ \A o \in 1 .. Len(broker) : broker'[o].side = broker[o].side
    BY <1>1, BrokerEffect
  <2>1b. credentials' \in BOOLEAN /\ late' \in BOOLEAN
    BY StepAside DEF ExecData
  <2>2. ExecTypeOK'
    BY <2>1, <2>1b DEF ExecTypeOK, ExecData
  <2> QED BY <2>1, <2>2 DEF ExecData, ConnOrders, SlotOrders
<1>2. CASE UNCHANGED execVars
  BY <1>2 DEF execVars, ExecData, ExecTypeOK, ConnOrders, SlotOrders
<1>3. CASE TurnAway
  <2>1. UNCHANGED <<slots, conns, broker, told, credentials, late>> /\ stats' \in StatsRec
    BY <1>3, TurnAwayEffect, Records DEF ExecData
  <2> QED BY <2>1 DEF ExecData, ExecTypeOK, ConnOrders, SlotOrders
<1> QED BY <1>1, <1>2, <1>3, SendData, CallbackData, PollData DEF ExecNext

\* Nothing is typed wrongly at the start.
LEMMA ExecDataInit == ExecInit => ExecData
<1> SUFFICES ASSUME ExecInit PROVE ExecData
  OBVIOUS
<1>1. /\ FreeSlot \in SlotRec /\ FreeSlot.active = FALSE
      /\ NoConn \in ConnRec /\ NoConn.kind = "free"
  BY ExecAssumption DEF FreeSlot, SlotRec, NoConn, ConnRec, Slots, BUY
<1>2. broker \in Seq(OrderRec) /\ Len(broker) <= MaxOrders /\ told \in Seq(FillRec)
  BY EmptySeq, ExecAssumption DEF ExecInit
<1>3. stats \in StatsRec
  BY DEF ExecInit, StatsRec
<1>4. slots \in [Slots -> SlotRec] /\ conns \in [Conns -> ConnRec]
  BY <1>1 DEF ExecInit
<1>5. \A i \in Slots : ~slots[i].active
  BY <1>1 DEF ExecInit
<1>6. \A n \in Conns : conns[n].kind = "free"
  BY <1>1 DEF ExecInit
<1>7. credentials \in BOOLEAN /\ late \in BOOLEAN
  BY DEF ExecInit
<1> QED
  BY <1>2, <1>3, <1>4, <1>5, <1>6, <1>7 DEF ExecData, ExecTypeOK, ConnOrders, SlotOrders

\* The pending table, the connections and the counters of fmma_exec.c stay
\* within their types and sizes, whatever the broker and the network do.
THEOREM ExecTyped == ExecSpec => []ExecTypeOK
<1>1. ExecData => ExecTypeOK
  BY DEF ExecData
<1> QED BY <1>1, ExecDataInit, ExecDataStep, PTL DEF ExecSpec

-----------------------------------------------------------------------------
(***************************************************************************)
(* Answers meet their order, until the resolver first closes a connection  *)
(* late and the slot is free or taken again before its connection is gone. *)
(* The inductive part that is missing in AnswersMeetTheirOrder: a slot     *)
(* whose POST is not answered has no id, so the poll leaves it alone, and  *)
(* no connection waits to be closed.                                       *)
(***************************************************************************)
PostsUnanswered ==
    \A n \in Conns : /\ conns[n].kind \in {"free", "post", "query", "lost"}
                     /\ conns[n].kind = "post" => slots[conns[n].slot].id = ""

\* The conjuncts of AnswersMeetTheirOrder.
SlotIsTheirs ==
    \A n \in Conns : conns[n].kind # "free" =>
       /\ slots[conns[n].slot].active /\ slots[conns[n].slot].order = conns[n].order
       /\ conns[n].kind \in {"query", "lost"} => slots[conns[n].slot].asking = TRUE
       /\ conns[n].kind \notin {"query", "lost"} => slots[conns[n].slot].asking = FALSE
OneQuestion ==
    \A m, n \in Conns : conns[m].kind # "free" /\ conns[n].kind # "free"
                           /\ conns[m].slot = conns[n].slot => m = n

Meeting == SlotIsTheirs /\ OneQuestion /\ PostsUnanswered

\* A slot that exec_poll looks at has no connection.
LEMMA PolledSlotIsAlone ==
    ASSUME ExecData, Meeting, NEW i \in Slots, Pollable(i),
           NEW n \in Conns, conns[n].kind # "free"
    PROVE  conns[n].slot # i
  BY DEF Meeting, SlotIsTheirs, PostsUnanswered, Pollable

\* A new order takes a free slot, which no live connection names.
LEMMA SendMeets ==
    ASSUME ExecData, Meeting, NEW side \in {BUY, SELL}, Send(side)
    PROVE  Meeting'
<1>1. PICK i \in Slots, c \in Conns :
              /\ ~slots[i].active /\ conns[c].kind = "free"
              /\ slots' = [slots EXCEPT ![i] = NewSlot(side, Len(broker) + 1)]
              /\ conns' = [conns EXCEPT ![c] =
                    [kind |-> "post", slot |-> i, order |-> Len(broker) + 1]]
              /\ Len(broker) + 1 \in 1 .. MaxOrders
  BY SendEffect DEF ExecData
<1> DEFINE k == [kind |-> "post", slot |-> i, order |-> Len(broker) + 1]
           p == NewSlot(side, Len(broker) + 1)
<1>2. /\ p.active = TRUE /\ p.order = Len(broker) + 1 /\ p.asking = FALSE /\ p.id = ""
  BY <1>1, NewSlotFields, ZenonT(30)
<1>3. k.kind = "post" /\ k.slot = i /\ k.order = Len(broker) + 1
  OBVIOUS
<1>4. slots' = [slots EXCEPT ![i] = p] /\ conns' = [conns EXCEPT ![c] = k]
  BY <1>1
<1>5. \A n \in Conns : conns[n].kind # "free" => conns[n].slot # i /\ conns[n].slot \in Slots
  BY <1>1, Records DEF Meeting, SlotIsTheirs, ExecData, ConnRec
<1>6. slots \in [Slots -> SlotRec] /\ conns \in [Conns -> ConnRec]
  BY Records DEF ExecData
<1> HIDE DEF k, p
<1>7. SlotIsTheirs'
  BY <1>2, <1>3, <1>4, <1>5, <1>6 DEF Meeting, SlotIsTheirs
<1>7b. OneQuestion'
  BY <1>2, <1>3, <1>4, <1>5, <1>6 DEF Meeting, OneQuestion
<1>8. PostsUnanswered'
  BY <1>2, <1>3, <1>4, <1>5, <1>6 DEF Meeting, PostsUnanswered
<1> QED BY <1>7, <1>7b, <1>8 DEF Meeting

\* An event removes its connection before the slot it names is freed.
LEMMA CallbackMeets ==
    ASSUME ExecData, Meeting, ~late', NEW n \in Conns, Callback(n)
    PROVE  Meeting'
<1> DEFINE i == conns[n].slot
<1>1. slots \in [Slots -> SlotRec] /\ conns \in [Conns -> ConnRec]
  BY Records DEF ExecData
<1>2. PICK c \in ConnRec : conns' = [conns EXCEPT ![n] = c] /\ c.kind = "free"
  BY CallbackEffect DEF CallbackDoes
<1>3. \A m \in Conns : m # n /\ conns[m].kind # "free" => conns[m].slot # i
  BY CallbackEffect DEF CallbackDoes, Meeting, OneQuestion
<1>4. \E p \in SlotRec : slots' = [slots EXCEPT ![i] = p]
  BY Records, CallbackEffect, ZenonT(30) DEF CallbackDoes, Touched, ExecData
<1>5. \A m \in Conns : m # n => conns'[m] = conns[m]
  BY <1>1, <1>2
<1>6. conns'[n].kind = "free"
  BY <1>1, <1>2
<1>7. \A m \in Conns : m # n /\ conns[m].kind # "free" =>
          slots'[conns[m].slot] = slots[conns[m].slot]
  BY <1>1, <1>3, <1>4 DEF ConnRec
<1>8. SlotIsTheirs'
  BY <1>5, <1>6, <1>7 DEF Meeting, SlotIsTheirs
<1>8b. OneQuestion'
  BY <1>5, <1>6, <1>7 DEF Meeting, OneQuestion
<1>9. PostsUnanswered'
  BY <1>5, <1>6, <1>7 DEF Meeting, PostsUnanswered
<1> QED BY <1>8, <1>8b, <1>9 DEF Meeting

\* A slot is polled only when no answer about it is outstanding.
LEMMA PollMeets ==
    ASSUME ExecData, Meeting, NEW i \in Slots, Poll(i)
    PROVE  Meeting'
<1>1. slots \in [Slots -> SlotRec] /\ conns \in [Conns -> ConnRec]
  BY Records DEF ExecData
<1>2. \A n \in Conns : conns[n].kind # "free" => conns[n].slot \in Slots /\ conns[n].slot # i
  BY <1>1, PollEffect, PolledSlotIsAlone DEF ConnRec
<1>3. \A p \in SlotRec : slots' = [slots EXCEPT ![i] = p] =>
         \A n \in Conns : conns[n].kind # "free" =>
             slots'[conns[n].slot] = slots[conns[n].slot]
  BY <1>1, <1>2
<1>4. CASE GivenUp(i)
  <2>1. \A n \in Conns : conns[n].kind # "free" => slots'[conns[n].slot] = slots[conns[n].slot]
    BY <1>3, <1>4, Records DEF GivenUp, ExecData
  <2>2. conns' = conns
    BY <1>4 DEF GivenUp
  <2>3. SlotIsTheirs' /\ OneQuestion'
    BY <2>1, <2>2 DEF Meeting, SlotIsTheirs, OneQuestion
  <2>4. PostsUnanswered'
    BY <2>1, <2>2 DEF Meeting, PostsUnanswered
  <2> QED BY <2>3, <2>4 DEF Meeting
<1>5. ASSUME NEW c \in Conns, NEW k \in ConnRec, NEW p \in SlotRec, Asked(i, c, k, p)
      PROVE  Meeting'
  <2>1. \A n \in Conns : conns[n].kind # "free" => slots'[conns[n].slot] = slots[conns[n].slot]
    BY <1>3, <1>5 DEF Asked
  <2>2. /\ \A n \in Conns : n # c => conns'[n] = conns[n]
        /\ conns'[c] = k /\ slots'[i] = p
    BY <1>1, <1>5 DEF Asked
  <2>3. /\ k.kind \in {"query", "lost"} /\ k.slot = i /\ k.order = p.order
        /\ p.active /\ p.asking = TRUE /\ conns[c].kind = "free"
    BY <1>5, PollEffect DEF Asked, Touched, Pollable
  <2>4. SlotIsTheirs'
    BY <1>2, <2>1, <2>2, <2>3 DEF Meeting, SlotIsTheirs
  <2>4b. OneQuestion'
    BY <1>2, <2>1, <2>2, <2>3 DEF Meeting, OneQuestion
  <2>5. ASSUME NEW n \in Conns
        PROVE  /\ conns'[n].kind \in {"free", "post", "query", "lost"}
               /\ conns'[n].kind = "post" => slots'[conns'[n].slot].id = ""
    <3>1. CASE n = c
      BY <2>2, <2>3, <3>1
    <3>2. CASE n # c
      BY <2>1, <2>2, <3>2 DEF Meeting, PostsUnanswered
    <3> QED BY <3>1, <3>2
  <2> QED BY <2>4, <2>4b, <2>5 DEF Meeting, PostsUnanswered
<1> QED BY <1>4, <1>5, PollEffect

\* Every step keeps connections and slots matched.
LEMMA MeetingStep ==
    ASSUME ExecData, Meeting, ~late', [ExecNext]_execVars
    PROVE  Meeting'
<1>1. CASE UNCHANGED <<slots, conns>>
  BY <1>1 DEF Meeting, SlotIsTheirs, OneQuestion, PostsUnanswered
<1> QED
  BY <1>1, BrokerEffect, TurnAwayEffect, SendMeets, CallbackMeets, PollMeets
     DEF ExecNext, execVars, ExecData

\* At the start there is no connection.
LEMMA MeetingInit == ExecInit => Meeting
<1> SUFFICES ASSUME ExecInit PROVE Meeting
  OBVIOUS
<1>1. NoConn.kind = "free"
  BY DEF NoConn
<1>2. \A n \in Conns : conns[n].kind = "free"
  BY <1>1 DEF ExecInit
<1> QED BY <1>2 DEF Meeting, SlotIsTheirs, OneQuestion, PostsUnanswered

\* What holds as long as no connection has been closed late.
MeetingUnlessLate == late \/ Meeting

\* It is inductive: a late close is never forgotten.
LEMMA MeetingUnlessLateStep ==
    ExecData /\ MeetingUnlessLate /\ [ExecNext]_execVars => MeetingUnlessLate'
<1> SUFFICES ASSUME ExecData, MeetingUnlessLate, [ExecNext]_execVars, ~late' PROVE Meeting'
  BY DEF MeetingUnlessLate
<1>1. ~late
  BY StepAside DEF ExecData
<1> QED BY <1>1, MeetingStep DEF MeetingUnlessLate

\* order_cb and query_cb apply an answer to the slot of the very order it is
\* about, although they only keep a pointer into the table and slots are
\* reused: for any number of slots, connections, orders and polls, and with
\* every failure of a connection, until the resolver first closes one late.
THEOREM AnswersMeet == ExecSpec => []AnswersMeetTheirOrder
<1>1. ASSUME ExecData, MeetingUnlessLate PROVE AnswersMeetTheirOrder
  <2>1. ASSUME NEW n \in Conns
        PROVE  slots[conns[n].slot].asking \in BOOLEAN
    <3>1. conns[n].slot \in Slots
      BY <1>1, Records DEF ExecData, ConnRec
    <3>2. slots[conns[n].slot] \in SlotRec
      BY <1>1, <3>1, Records DEF ExecData
    <3> QED BY <3>2 DEF SlotRec
  <2> QED BY <1>1, <2>1
    DEF MeetingUnlessLate, Meeting, SlotIsTheirs, OneQuestion, AnswersMeetTheirOrder
<1>2. ExecInit => MeetingUnlessLate
  BY MeetingInit DEF MeetingUnlessLate
<1> QED
  BY <1>1, <1>2, ExecDataInit, ExecDataStep, MeetingUnlessLateStep, PTL DEF ExecSpec

-----------------------------------------------------------------------------
(***************************************************************************)
(* Reports are real.  The report is made from what the slot and the        *)
(* connection remember; that they speak of one order is Meeting.  What     *)
(* makes the invariant inductive: no two taken slots have the same order,  *)
(* and an order that has been reported has no slot any more.               *)
(***************************************************************************)
FilledAsTold ==
    \A k \in 1 .. Len(told) :
       /\ told[k].order \in 1 .. Len(broker)
       /\ broker[told[k].order].state = "filled"
       /\ told[k].side = broker[told[k].order].side
ToldOnce == \A j, k \in 1 .. Len(told) : told[j].order = told[k].order => j = k
OneSlotEach ==
    \A i, j \in Slots : slots[i].active /\ slots[j].active
                          /\ slots[i].order = slots[j].order => i = j
Untold == \A i \in Slots : slots[i].active =>
             \A k \in 1 .. Len(told) : told[k].order # slots[i].order

Truthful == FilledAsTold /\ ToldOnce /\ OneSlotEach /\ Untold

\* The list of reports grows at its end.
LEMMA ToldData ==
    ASSUME ExecTypeOK, NEW r \in FillRec
    PROVE  /\ Len(Append(told, r)) = Len(told) + 1
           /\ Append(told, r)[Len(told) + 1] = r
           /\ \A k \in 1 .. Len(told) : Append(told, r)[k] = told[k]
  BY Records, AppendProperties

\* A new order is one the broker has not filled and nobody was told of.
LEMMA SendTruthful ==
    ASSUME ExecData, Truthful, NEW side \in {BUY, SELL}, Send(side)
    PROVE  Truthful'
<1> DEFINE o == Len(broker) + 1
           r == [side |-> side, state |-> "posted"]
           p == NewSlot(side, o)
<1>1. PICK i \in Slots :
              /\ ~slots[i].active /\ slots' = [slots EXCEPT ![i] = p]
              /\ broker' = Append(broker, r)
              /\ o \in 1 .. MaxOrders /\ told' = told
  BY SendEffect DEF ExecData
<1>2. r \in OrderRec
  BY DEF OrderRec
<1>3. Len(broker') = o /\ \A q \in 1 .. Len(broker) : broker'[q] = broker[q]
  BY <1>1, <1>2, BrokerData DEF ExecData
<1>4. p.active = TRUE /\ p.order = o
  BY <1>1, NewSlotFields
<1>5. /\ \A j \in Slots : slots'[j] = IF j = i THEN p ELSE slots[j]
      /\ Len(broker) \in Nat /\ Len(told) \in Nat /\ o = Len(broker) + 1
  BY <1>1, Records DEF ExecData
<1> HIDE DEF o, r, p
<1>6. FilledAsTold'
  BY <1>1, <1>3, <1>5 DEF Truthful, FilledAsTold
<1>7. ToldOnce'
  BY <1>1 DEF Truthful, ToldOnce
<1>8. OneSlotEach'
  BY <1>4, <1>5 DEF Truthful, OneSlotEach, ExecData, SlotOrders
<1>9. Untold'
  BY <1>1, <1>4, <1>5 DEF Truthful, Untold, FilledAsTold
<1> QED BY <1>6, <1>7, <1>8, <1>9 DEF Truthful

\* Slots are released or keep their order, and nothing is reported.
LEMMA QuietTruthful ==
    ASSUME Truthful, NEW i \in Slots, UNCHANGED told, ExecTypeOK,
           NEW p \in SlotRec, slots' = [slots EXCEPT ![i] = p],
           p.active => slots[i].active /\ p.order = slots[i].order,
           Len(broker') = Len(broker),
           \A o \in 1 .. Len(broker) :
                 /\ broker'[o].side = broker[o].side
                 /\ broker[o].state = "filled" => broker'[o].state = "filled"
    PROVE  Truthful'
<1>1. \A j \in Slots : slots'[j] = IF j = i THEN p ELSE slots[j]
  BY Records
<1>2. FilledAsTold' /\ ToldOnce'
  BY DEF Truthful, FilledAsTold, ToldOnce
<1>3. OneSlotEach'
  BY <1>1 DEF Truthful, OneSlotEach
<1>4. Untold'
  BY <1>1 DEF Truthful, Untold
<1> QED BY <1>2, <1>3, <1>4 DEF Truthful

\* A fill is reported when the broker says so, and frees the slot.
LEMMA CallbackTruthful ==
    ASSUME ExecData, Meeting, Truthful, NEW n \in Conns, Callback(n)
    PROVE  Truthful'
<1> DEFINE i == conns[n].slot
           o == conns[n].order
<1>1. /\ CallbackDoes(n) /\ broker' = broker /\ i \in Slots
      /\ o \in 1 .. Len(broker) /\ slots[i].order = o /\ slots[i].active
      /\ o \in 1 .. MaxOrders
  <2>1. CallbackDoes(n) /\ conns[n].kind # "free" /\ broker' = broker
    BY CallbackEffect DEF CallbackDoes
  <2>2. i \in Slots /\ o \in 1 .. Len(broker) /\ slots[i].order = o /\ slots[i].active
    BY <2>1, Records DEF ConnRec, ConnOrders, ExecData, Meeting, SlotIsTheirs
  <2> QED BY <2>1, <2>2, Records, ExecAssumption DEF ExecData
<1>2. /\ FreeSlot \in SlotRec /\ FreeSlot.active = FALSE /\ slots \in [Slots -> SlotRec]
      /\ Len(told) \in Nat
  BY Records DEF ExecData, FreeSlot
<1> HIDE DEF i, o
<1>3. CASE UNCHANGED told
  <2>1. PICK p \in SlotRec :
           /\ slots' = [slots EXCEPT ![i] = p]
           /\ p.active => slots[i].active /\ p.order = slots[i].order
    BY <1>1, <1>2 DEF CallbackDoes, Touched, i
  <2> QED BY <1>1, <1>3, <2>1, QuietTruthful DEF ExecData
<1>4. CASE /\ slots' = [slots EXCEPT ![i] = FreeSlot]
           /\ broker[o].state = "filled"
           /\ told' = Append(told, [order |-> o, side |-> slots[i].side])
  <2> DEFINE r == [order |-> o, side |-> slots[i].side]
  <2>1. r.order = o /\ r.side = broker[o].side
    BY <1>1 DEF ExecData, SlotOrders
  <2>2. slots[i].side \in {BUY, SELL}
    BY <1>1, <1>2 DEF SlotRec
  <2>3. r \in FillRec
    BY <1>1, <2>2 DEF FillRec
  <2>4. told' = Append(told, r)
    BY <1>4
  <2> HIDE DEF r
  <2>5. Len(told') = Len(told) + 1 /\ told'[Len(told) + 1] = r
        /\ \A k \in 1 .. Len(told) : told'[k] = told[k]
    BY <2>3, <2>4, ToldData DEF ExecData
  <2>6. \A k \in 1 .. Len(told') : k \in 1 .. Len(told) \/ k = Len(told) + 1
    BY <1>2, <2>5
  <2>7. \A j \in Slots : slots'[j].active => slots[j].active /\ j # i /\ slots'[j] = slots[j]
    BY <1>2, <1>4
  <2>8. FilledAsTold'
    BY <1>1, <1>4, <2>1, <2>5, <2>6 DEF Truthful, FilledAsTold
  <2>9. ToldOnce'
    BY <1>1, <2>1, <2>5, <2>6 DEF Truthful, ToldOnce, Untold
  <2>10. OneSlotEach'
    BY <2>7 DEF Truthful, OneSlotEach
  <2>11. Untold'
    BY <1>1, <2>1, <2>5, <2>6, <2>7 DEF Truthful, Untold, OneSlotEach
  <2> QED BY <2>8, <2>9, <2>10, <2>11 DEF Truthful
<1> QED BY <1>1, <1>3, <1>4 DEF CallbackDoes, Ended, i, o

\* Every step keeps the reports true.
LEMMA TruthfulStep ==
    ExecData /\ Meeting /\ Truthful /\ [ExecNext]_execVars => Truthful'
<1> SUFFICES ASSUME ExecData, Meeting, Truthful, [ExecNext]_execVars PROVE Truthful'
  OBVIOUS
<1>1. ASSUME NEW i \in Slots, Poll(i) PROVE Truthful'
  <2>1. FreeSlot \in SlotRec /\ FreeSlot.active = FALSE
    BY Records DEF ExecData, FreeSlot
  <2>2. \E p \in SlotRec :
           /\ slots' = [slots EXCEPT ![i] = p]
           /\ p.active => slots[i].active /\ p.order = slots[i].order
    <3>1. CASE GivenUp(i)
      BY <2>1, <3>1 DEF GivenUp
    <3>2. ASSUME NEW c \in Conns, NEW k \in ConnRec, NEW p \in SlotRec, Asked(i, c, k, p)
          PROVE  /\ slots' = [slots EXCEPT ![i] = p]
                 /\ p.active => slots[i].active /\ p.order = slots[i].order
      BY <3>2 DEF Asked, Touched
    <3> QED BY <1>1, <3>1, <3>2, PollEffect
  <2> QED BY <1>1, <2>2, PollEffect, QuietTruthful DEF ExecData
<1>2. CASE Broker
  <2>1. /\ UNCHANGED <<slots, told>> /\ Len(broker') = Len(broker)
        /\ \A o \in 1 .. Len(broker) :
                 /\ broker'[o].side = broker[o].side
                 /\ broker[o].state = "filled" => broker'[o].state = "filled"
    BY <1>2, BrokerEffect
  <2>2. FilledAsTold'
    BY <2>1 DEF Truthful, FilledAsTold
  <2> QED BY <2>1, <2>2 DEF Truthful, ToldOnce, OneSlotEach, Untold
<1>3. CASE UNCHANGED <<slots, broker, told>>
  BY <1>3 DEF Truthful, FilledAsTold, ToldOnce, OneSlotEach, Untold
<1> QED
  BY <1>1, <1>2, <1>3, SendTruthful, CallbackTruthful, TurnAwayEffect
     DEF ExecNext, execVars, ExecData

\* At the start there is nothing to report.
LEMMA TruthfulInit == ExecInit => Truthful
<1> SUFFICES ASSUME ExecInit PROVE Truthful
  OBVIOUS
<1>1. FreeSlot.active = FALSE /\ Len(<< >>) = 0
  BY EmptySeq DEF FreeSlot
<1>2. 1 .. Len(told) = {} /\ \A i \in Slots : ~slots[i].active
  BY <1>1 DEF ExecInit
<1> QED BY <1>2 DEF Truthful, FilledAsTold, ToldOnce, OneSlotEach, Untold

TruthfulUnlessLate == late \/ (Meeting /\ Truthful)

\* It is inductive.
LEMMA TruthfulUnlessLateStep ==
    ExecData /\ TruthfulUnlessLate /\ [ExecNext]_execVars => TruthfulUnlessLate'
<1> SUFFICES ASSUME ExecData, TruthfulUnlessLate, [ExecNext]_execVars, ~late'
             PROVE  Meeting' /\ Truthful'
  BY DEF TruthfulUnlessLate
<1>1. ~late
  BY StepAside DEF ExecData
<1> QED BY <1>1, MeetingStep, TruthfulStep DEF TruthfulUnlessLate

\* "A fill report means a fill actually happened" (fmma_exec.h): every on_fill
\* call is about an order the broker filled, has its side, and is the only one
\* about it, for any number of slots, connections, orders and polls, until the
\* resolver first closes a connection late.
THEOREM ReportsReal == ExecSpec => []ReportsAreReal
<1>1. ASSUME ExecData, TruthfulUnlessLate PROVE ReportsAreReal
  <2>1. DOMAIN told = 1 .. Len(told)
    BY <1>1, Records DEF ExecData
  <2> QED BY <1>1, <2>1
    DEF TruthfulUnlessLate, Truthful, FilledAsTold, ToldOnce, ReportsAreReal
<1>2. ExecInit => TruthfulUnlessLate
  BY MeetingInit, TruthfulInit DEF TruthfulUnlessLate
<1> QED
  BY <1>1, <1>2, ExecDataInit, ExecDataStep, TruthfulUnlessLateStep, PTL DEF ExecSpec

-----------------------------------------------------------------------------
(* Orders are accounted for: the taken slots counted *)

\* How a step that changes one slot changes the number of those that are taken.
LEMMA CountActive ==
    ASSUME ExecTypeOK, NEW i \in Slots, NEW p \in SlotRec,
           slots' = [slots EXCEPT ![i] = p]
    PROVE  /\ Cardinality(Active) \in Nat
           /\ p.active = slots[i].active => Cardinality(Active') = Cardinality(Active)
           /\ p.active /\ ~slots[i].active => Cardinality(Active') = Cardinality(Active) + 1
           /\ ~p.active /\ slots[i].active => Cardinality(Active') = Cardinality(Active) - 1
<1>1. IsFiniteSet(Slots)
  BY FS_Interval, ExecAssumption DEF Slots
<1>2. Active \subseteq Slots
  BY DEF Active
<1>3. IsFiniteSet(Active) /\ Cardinality(Active) \in Nat
  BY <1>1, <1>2, FS_Subset, FS_CardinalityType
<1>4. \A j \in Slots : slots'[j] = IF j = i THEN p ELSE slots[j]
  BY Records
<1>5. ASSUME p.active = slots[i].active PROVE Active' = Active
  BY <1>4, <1>5 DEF Active
<1>6. ASSUME p.active, ~slots[i].active
      PROVE  Cardinality(Active') = Cardinality(Active) + 1
  <2>1. Active' = Active \cup {i} /\ i \notin Active
    BY <1>4, <1>6 DEF Active
  <2> QED BY <1>3, <2>1, FS_AddElement
<1>7. ASSUME ~p.active, slots[i].active
      PROVE  Cardinality(Active') = Cardinality(Active) - 1
  <2>1. Active' = Active \ {i} /\ i \in Active
    BY <1>4, <1>7 DEF Active
  <2> QED BY <1>3, <2>1, FS_RemoveElement
<1> QED BY <1>3, <1>5, <1>6, <1>7

\* Both sides of the account, without the table.
Ends == stats.filled + stats.rejected + stats.errors

\* Sending adds to what must be accounted for, an end adds to what is, and
\* what is noted about no order that was sent adds to both.
LEMMA StatsSums ==
    ASSUME stats \in StatsRec
    PROVE  /\ ToAccount \in Nat /\ Ends \in Nat
           /\ Counted("sent") => ToAccount' = ToAccount + 1 /\ Ends' = Ends
           /\ \A f \in {"filled", "rejected", "errors"} : Counted(f) =>
                 ToAccount' = ToAccount /\ Ends' = Ends + 1
           /\ \A f \in {"rejected", "errors"}, g \in {"turned", "unheard"} :
                 Noted(f, g) => ToAccount' = ToAccount + 1 /\ Ends' = Ends + 1
           /\ stats' = stats => ToAccount' = ToAccount /\ Ends' = Ends
<1>1. /\ stats.sent \in Nat /\ stats.filled \in Nat /\ stats.rejected \in Nat
      /\ stats.errors \in Nat /\ stats.turned \in Nat /\ stats.unheard \in Nat
  BY DEF StatsRec
<1>2. Counted("sent") => ToAccount' = ToAccount + 1 /\ Ends' = Ends
  BY <1>1 DEF StatsRec, Counted, ToAccount, Ends
<1>3. ASSUME NEW f \in {"filled", "rejected", "errors"}, Counted(f)
      PROVE  ToAccount' = ToAccount /\ Ends' = Ends + 1
  BY <1>1, <1>3 DEF StatsRec, Counted, ToAccount, Ends
<1>4. ASSUME NEW f \in {"rejected", "errors"}, NEW g \in {"turned", "unheard"}, Noted(f, g)
      PROVE  ToAccount' = ToAccount + 1 /\ Ends' = Ends + 1
  BY <1>1, <1>4 DEF StatsRec, Noted, ToAccount, Ends
<1>5. ToAccount \in Nat /\ Ends \in Nat
  BY <1>1 DEF ToAccount, Ends
<1>6. stats' = stats => ToAccount' = ToAccount /\ Ends' = Ends
  BY DEF ToAccount, Ends
<1> QED BY <1>2, <1>3, <1>4, <1>5, <1>6

(***************************************************************************)
(* A step that moves the account: an order is sent, an order that has its  *)
(* slot ends, something is noted, or only a free slot is touched.          *)
(***************************************************************************)
Opens == ToAccount' = ToAccount + 1 /\ Ends' = Ends
Closes == ToAccount' = ToAccount /\ Ends' = Ends + 1
Notes == ToAccount' = ToAccount + 1 /\ Ends' = Ends + 1
Rests == ToAccount' = ToAccount /\ Ends' = Ends
Taken(d) == Cardinality(Active) \in Nat /\ Cardinality(Active') = Cardinality(Active) + d

\* What every step does to the two sides of the account.  In the last case an
\* answer meets a slot that is free already, which takes a late close.
LEMMA AccountMoves ==
    ASSUME ExecData, [ExecNext]_execVars
    PROVE  \/ Opens /\ Taken(1)
           \/ Closes /\ Taken(-1)
           \/ Notes /\ Taken(0)
           \/ Rests /\ Taken(0)
           \/ /\ Closes /\ Taken(0)
              /\ \E n \in Conns : conns[n].kind # "free" /\ ~slots[conns[n].slot].active
<1>1. stats \in StatsRec /\ FreeSlot \in SlotRec /\ FreeSlot.active = FALSE /\ ExecTypeOK
  BY Records DEF ExecData, FreeSlot
<1>2. ASSUME NEW side \in {BUY, SELL}, Send(side) PROVE Opens /\ Taken(1)
  <2> DEFINE p == NewSlot(side, Len(broker) + 1)
  <2>1. PICK i \in Slots : /\ ~slots[i].active /\ slots' = [slots EXCEPT ![i] = p]
                           /\ Len(broker) + 1 \in 1 .. MaxOrders /\ Counted("sent")
    BY <1>1, <1>2, SendEffect DEF Counted
  <2>2. p \in SlotRec /\ p.active = TRUE
    BY <2>1, NewSlotFields
  <2> HIDE DEF p
  <2>3. Taken(1)
    BY <1>1, <2>1, <2>2, CountActive DEF Taken
  <2> QED BY <1>1, <2>1, <2>3, StatsSums DEF Opens
<1>3. ASSUME NEW i \in Slots, slots' = [slots EXCEPT ![i] = FreeSlot]
      PROVE  /\ slots[i].active => Taken(-1)
             /\ ~slots[i].active => Taken(0)
  <2>1. CASE slots[i].active
    <3>1. Cardinality(Active) \in Nat /\ Cardinality(Active') = Cardinality(Active) - 1
      BY <1>1, <1>3, <2>1, CountActive
    <3> QED BY <2>1, <3>1 DEF Taken
  <2>2. CASE ~slots[i].active
    <3>1. FreeSlot.active = slots[i].active
      BY <1>1, <2>2, Records DEF SlotRec
    <3>2. Cardinality(Active) \in Nat /\ Cardinality(Active') = Cardinality(Active)
      BY <1>1, <1>3, <3>1, CountActive
    <3> QED BY <2>2, <3>2 DEF Taken
  <2> QED BY <2>1, <2>2
<1>4. ASSUME NEW i \in Slots, NEW p \in SlotRec, Touched(i, p),
             slots' = [slots EXCEPT ![i] = p]
      PROVE  Taken(0)
  <2>1. Cardinality(Active) \in Nat /\ Cardinality(Active') = Cardinality(Active)
    BY <1>1, <1>4, CountActive DEF Touched
  <2> QED BY <2>1 DEF Taken
<1>5. ASSUME NEW n \in Conns, Callback(n)
      PROVE  \/ Closes /\ Taken(-1)
             \/ Notes /\ Taken(0)
             \/ Rests /\ Taken(0)
             \/ /\ Closes /\ Taken(0)
                /\ conns[n].kind # "free" /\ ~slots[conns[n].slot].active
  <2> DEFINE i == conns[n].slot
  <2>1. CallbackDoes(n) /\ i \in Slots /\ conns[n].kind # "free"
    <3>1. CallbackDoes(n) /\ conns[n].kind # "free"
      BY <1>5, CallbackEffect DEF CallbackDoes
    <3> QED BY <3>1, Records DEF ConnRec, ExecData
  <2> HIDE DEF i
  <2>2. CASE slots' = [slots EXCEPT ![i] = FreeSlot] /\ Ended(i, conns[n].order)
    <3>1. (slots[i].active => Taken(-1)) /\ (~slots[i].active => Taken(0))
      BY <1>3, <2>1, <2>2
    <3>2. Closes \/ (~slots[i].active /\ Rests)
      BY <1>1, <2>2, StatsSums DEF Ended, Closes, Rests
    <3> QED BY <2>1, <3>1, <3>2 DEF i
  <2>3. CASE /\ \E p : Touched(i, p) /\ slots' = [slots EXCEPT ![i] = p]
             /\ stats' = stats \/ Unheard
    <3>1. Taken(0)
      BY <1>4, <2>1, <2>3 DEF Touched
    <3>2. Rests \/ Notes
      BY <1>1, <2>3, StatsSums DEF Unheard, Rests, Notes
    <3> QED BY <3>1, <3>2
  <2> QED BY <2>1, <2>2, <2>3 DEF CallbackDoes, i
<1>6. ASSUME NEW i \in Slots, Poll(i)
      PROVE  (Closes /\ Taken(-1)) \/ (Rests /\ Taken(0))
  <2>1. slots[i].active
    BY <1>6, PollEffect DEF Pollable
  <2>2. CASE GivenUp(i)
    BY <1>1, <1>3, <2>1, <2>2, StatsSums DEF GivenUp, Closes
  <2>3. ASSUME NEW c \in Conns, NEW k \in ConnRec, NEW p \in SlotRec, Asked(i, c, k, p)
        PROVE  Rests /\ Taken(0)
    BY <1>1, <1>4, <2>3, StatsSums DEF Asked, Rests
  <2> QED BY <1>6, <2>2, <2>3, PollEffect
<1>7. ASSUME UNCHANGED slots PROVE Taken(0)
  <2>1. IsFiniteSet(Slots) /\ Active \subseteq Slots
    BY FS_Interval, ExecAssumption DEF Slots, Active
  <2>2. Cardinality(Active) \in Nat /\ Active' = Active
    BY <1>7, <2>1, FS_Subset, FS_CardinalityType DEF Active
  <2> QED BY <2>2 DEF Taken
<1>8. CASE TurnAway
  BY <1>1, <1>7, <1>8, TurnAwayEffect, StatsSums DEF Notes
<1>9. CASE UNCHANGED <<slots, stats>>
  BY <1>1, <1>7, <1>9, StatsSums DEF Rests
<1> QED BY <1>2, <1>5, <1>6, <1>8, <1>9, BrokerEffect DEF ExecNext, execVars

BalancedUnlessLate == late \/ (Meeting /\ Accounted = ToAccount)

\* Every step moves what it takes from one side of the account to the other.
LEMMA BalancedStep ==
    ExecData /\ BalancedUnlessLate /\ [ExecNext]_execVars => BalancedUnlessLate'
<1> SUFFICES ASSUME ExecData, BalancedUnlessLate, [ExecNext]_execVars, ~late'
             PROVE  Meeting' /\ Accounted' = ToAccount'
  BY DEF BalancedUnlessLate
<1>1. ~late
  BY StepAside DEF ExecData
<1>2. Meeting /\ Accounted = ToAccount /\ Meeting'
  BY <1>1, MeetingStep DEF BalancedUnlessLate
<1>3. ToAccount \in Nat /\ Ends \in Nat
  BY StatsSums, Records DEF ExecData
<1>4. Accounted = Ends + Cardinality(Active) /\ Accounted' = Ends' + Cardinality(Active')
  BY DEF Accounted, Ends
<1>5. \A n \in Conns : conns[n].kind # "free" => slots[conns[n].slot].active
  BY <1>2 DEF Meeting, SlotIsTheirs
<1> QED BY <1>2, <1>3, <1>4, <1>5, AccountMoves DEF Opens, Closes, Notes, Rests, Taken

\* Nothing is counted and nothing works at the start.
LEMMA AccountInit == ExecInit => Accounted = 0 /\ ToAccount = 0
<1> SUFFICES ASSUME ExecInit PROVE Accounted = 0 /\ ToAccount = 0
  OBVIOUS
<1>1. FreeSlot.active = FALSE
  BY DEF FreeSlot
<1>2. Active = {}
  BY <1>1 DEF ExecInit, Active
<1>3. Cardinality({}) = 0
  BY FS_EmptySet
<1> QED BY <1>2, <1>3 DEF ExecInit, Accounted, ToAccount

\* The counters of struct fmma_stats and the table agree: every order that was
\* sent or turned away and every query that failed is working or counted once
\* as filled, rejected or in error, until the first late close.
THEOREM OrdersAccounted == ExecSpec => []OrdersAccountedFor
<1>1. BalancedUnlessLate => OrdersAccountedFor
  BY DEF BalancedUnlessLate, OrdersAccountedFor
<1>2. ExecInit => BalancedUnlessLate
  BY MeetingInit, AccountInit DEF BalancedUnlessLate
<1> QED BY <1>1, <1>2, ExecDataInit, ExecDataStep, BalancedStep, PTL DEF ExecSpec

-----------------------------------------------------------------------------
(***************************************************************************)
(* After a late close.  Meeting is gone: an answer may find its slot free, *)
(* or taken by a newer order.  What the callbacks do to a slot in whatever *)
(* state (CallbackEffect) is enough for the weaker pair.                   *)
(***************************************************************************)

\* No step takes an order out of the table without counting it.  The slot that
\* an answer releases may be free or another order's; then the count is too
\* high, never too low.
LEMMA NoOrderVanishesStep ==
    ExecData /\ NoOrderVanishes /\ [ExecNext]_execVars => NoOrderVanishes'
<1> SUFFICES ASSUME ExecData, NoOrderVanishes, [ExecNext]_execVars PROVE NoOrderVanishes'
  OBVIOUS
<1>1. ToAccount \in Nat /\ Ends \in Nat
  BY StatsSums, Records DEF ExecData
<1>2. Accounted = Ends + Cardinality(Active) /\ Accounted' = Ends' + Cardinality(Active')
  BY DEF Accounted, Ends
<1> QED
  BY <1>1, <1>2, AccountMoves DEF NoOrderVanishes, Opens, Closes, Notes, Rests, Taken

\* Whatever the connections do, late closes included: an order that was sent
\* is in the table or has been counted.
THEOREM NothingVanishes == ExecSpec => []NoOrderVanishes
<1>1. ExecInit => NoOrderVanishes
  BY AccountInit DEF NoOrderVanishes
<1> QED BY <1>1, ExecDataInit, ExecDataStep, NoOrderVanishesStep, PTL DEF ExecSpec

\* Every event that ends a query clears the flag of its slot, a slot that is
\* taken again starts with the flag clear, and a poll sets it with the query.
LEMMA FlagStep ==
    ExecData /\ FlagIsHonest /\ [ExecNext]_execVars => FlagIsHonest'
<1> SUFFICES ASSUME ExecData, FlagIsHonest, [ExecNext]_execVars,
                    NEW j \in Slots, slots'[j].asking
             PROVE  QueryOut(j)'
  BY DEF FlagIsHonest
<1>1. /\ slots \in [Slots -> SlotRec] /\ conns \in [Conns -> ConnRec]
      /\ FreeSlot.asking = FALSE /\ ExecTypeOK
  BY Records DEF ExecData, FreeSlot
<1> DEFINE Asks(n) == /\ conns[n].kind \in {"query", "lost"}
                      /\ conns[n].slot = j /\ conns[n].order = slots[j].order
<1>2. ASSUME slots[j].asking, slots'[j].order = slots[j].order,
             \A n \in Conns : Asks(n) => conns'[n] = conns[n]
      PROVE  QueryOut(j)'
  BY <1>2 DEF FlagIsHonest, QueryOut
<1>3. ASSUME NEW side \in {BUY, SELL}, Send(side) PROVE QueryOut(j)'
  <2> DEFINE p == NewSlot(side, Len(broker) + 1)
  <2>1. PICK i \in Slots, c \in Conns :
              /\ conns[c].kind = "free" /\ slots' = [slots EXCEPT ![i] = p]
              /\ conns' = [conns EXCEPT ![c] =
                    [kind |-> "post", slot |-> i, order |-> Len(broker) + 1]]
              /\ Len(broker) + 1 \in 1 .. MaxOrders
    BY <1>1, <1>3, SendEffect
  <2>2. p.asking = FALSE
    BY <2>1, NewSlotFields
  <2> HIDE DEF p
  <2>3. j # i /\ slots'[j] = slots[j]
    BY <1>1, <2>1, <2>2
  <2>4. \A n \in Conns : n # c => conns'[n] = conns[n]
    BY <1>1, <2>1
  <2> QED BY <1>2, <2>1, <2>3, <2>4
<1>4. ASSUME NEW n \in Conns, Callback(n) PROVE QueryOut(j)'
  <2> DEFINE i == conns[n].slot
  <2>1. CallbackDoes(n) /\ i \in Slots
    BY <1>1, <1>4, CallbackEffect DEF ConnRec
  <2> HIDE DEF i
  <2>2. \A m \in Conns : m # n => conns'[m] = conns[m]
    BY <1>1, <2>1 DEF CallbackDoes
  <2>3. CASE j # i
    <3>1. slots'[j] = slots[j]
      BY <1>1, <2>1, <2>3 DEF CallbackDoes, i
    <3> QED BY <1>2, <2>2, <2>3, <3>1 DEF i
  <2>4. CASE j = i
    <3>1. PICK p : /\ Touched(i, p) /\ slots' = [slots EXCEPT ![i] = p]
                   /\ conns[n].kind \in {"query", "lost"} => p.asking = FALSE
                   /\ p.asking => slots[i].asking
      <4>1. slots' # [slots EXCEPT ![i] = FreeSlot]
        BY <1>1, <2>1, <2>4
      <4> QED BY <2>1, <4>1 DEF CallbackDoes, i
    <3>2. slots'[j] = p
      BY <1>1, <2>1, <2>4, <3>1
    <3> QED BY <1>2, <2>2, <2>4, <3>1, <3>2 DEF Touched
  <2> QED BY <2>3, <2>4
<1>5. ASSUME NEW i \in Slots, Poll(i) PROVE QueryOut(j)'
  <2>1. CASE GivenUp(i)
    BY <1>1, <1>2, <2>1 DEF GivenUp
  <2>2. ASSUME NEW c \in Conns, NEW k \in ConnRec, NEW p \in SlotRec, Asked(i, c, k, p)
        PROVE  QueryOut(j)'
    <3>1. /\ \A n \in Conns : n # c => conns'[n] = conns[n]
          /\ conns'[c] = k /\ slots'[i] = p /\ conns[c].kind = "free"
          /\ i # j => slots'[j] = slots[j]
      BY <1>1, <2>2 DEF Asked
    <3>2. CASE i = j
      BY <2>2, <3>1, <3>2 DEF Asked, Touched, QueryOut
    <3>3. CASE i # j
      BY <1>2, <3>1, <3>3
    <3> QED BY <3>2, <3>3
  <2> QED BY <1>5, <2>1, <2>2, PollEffect
<1>6. CASE UNCHANGED <<slots, conns>>
  BY <1>2, <1>6
<1> QED
  BY <1>1, <1>3, <1>4, <1>5, <1>6, BrokerEffect, TurnAwayEffect DEF ExecNext, execVars

\* fmma_exec_poll passes over a slot for its query_in_flight only while a query
\* about the order in the slot is out, for any number of slots, connections,
\* orders and polls and after late closes too.
THEOREM FlagHonest == ExecSpec => []FlagIsHonest
<1>1. ASSUME ExecInit PROVE FlagIsHonest
  <2>1. FreeSlot.asking = FALSE
    BY DEF FreeSlot
  <2> QED BY <1>1, <2>1 DEF ExecInit, FlagIsHonest
<1> QED BY <1>1, ExecDataInit, ExecDataStep, FlagStep, PTL DEF ExecSpec

-----------------------------------------------------------------------------
(* The event loop uses execution as OrderExec describes it *)

RiskRec == [position : Int, avg : Int, realised : Int, unrealised : Int, halted : BOOLEAN]

\* Types of the event loop's state; only the fabric has decisions under way.
AppData ==
    /\ risk \in RiskRec
    /\ fabric \in BOOLEAN /\ armed \in BOOLEAN /\ marked \in BOOLEAN
    /\ mid \in Nat /\ cash \in Int /\ drift \in Nat
    /\ making \in {BUY, SELL, NONE} /\ decision \in {BUY, SELL, NONE}
    /\ ~fabric => making = NONE /\ decision = NONE

\* A pass of the event loop is one step of the execution module, or none.
LEMMA AppStepIsExecStep == AppData /\ [Next]_appVars => [ExecNext]_execVars
<1> SUFFICES ASSUME AppData, [Next]_appVars PROVE [ExecNext]_execVars
  OBVIOUS
<1>1. ASSUME NEW side \in {BUY, SELL}, NEW r, NEW stale, ActOn(side, r, stale)
      PROVE  [ExecNext]_execVars
  BY <1>1 DEF ActOn, ExecNext
<1>2. CASE DrainFpga
  BY <1>1, <1>2 DEF DrainFpga, AppData
<1>3. ASSUME NEW m \in Prices, OnQuote(m) PROVE [ExecNext]_execVars
  BY <1>1, <1>3 DEF OnQuote
<1>4. CASE ExecStep
  BY <1>4 DEF ExecStep, ExecNext
<1> QED
  BY <1>2, <1>3, <1>4 DEF Next, appVars, execVars, Decide, Announce, FeedSilent

\* fmma_risk_mark and fmma_risk_check change one field each.
LEMMA RiskFields ==
    ASSUME NEW r \in RiskRec
    PROVE  /\ \A m \in Nat :
                 /\ Marked(r, m) \in RiskRec /\ Marked(r, m).position = r.position
                 /\ Marked(r, m).avg = r.avg /\ Marked(r, m).realised = r.realised
                 /\ Marked(r, m).halted = r.halted
                 /\ Marked(r, m).unrealised = IF r.position = 0 \/ r.avg = 0 THEN 0
                                              ELSE (m - r.avg) * r.position
           /\ \A stale :
                 /\ RiskChecked(r, stale) \in RiskRec
                 /\ RiskChecked(r, stale).position = r.position
                 /\ RiskChecked(r, stale).avg = r.avg
                 /\ RiskChecked(r, stale).realised = r.realised
                 /\ RiskChecked(r, stale).unrealised = r.unrealised
                 /\ r.halted => RiskChecked(r, stale).halted
                 /\ RiskChecked(r, stale).halted =>
                       r.halted \/ Verdict(r, stale) = "loss_limit"
<1>1. ASSUME NEW m \in Nat
      PROVE  /\ Marked(r, m) \in RiskRec /\ Marked(r, m).position = r.position
             /\ Marked(r, m).avg = r.avg /\ Marked(r, m).realised = r.realised
             /\ Marked(r, m).halted = r.halted
             /\ Marked(r, m).unrealised = IF r.position = 0 \/ r.avg = 0 THEN 0
                                          ELSE (m - r.avg) * r.position
  <2> DEFINE u == IF r.position = 0 \/ r.avg = 0 THEN 0 ELSE (m - r.avg) * r.position
  <2>1. r.position \in Int /\ r.avg \in Int
    BY DEF RiskRec
  <2>2. u \in Int
    BY <2>1
  <2>3. Marked(r, m) = [r EXCEPT !.unrealised = u]
    BY DEF Marked
  <2> HIDE DEF u
  <2>4. /\ Marked(r, m) \in RiskRec /\ Marked(r, m).position = r.position
        /\ Marked(r, m).avg = r.avg /\ Marked(r, m).realised = r.realised
        /\ Marked(r, m).halted = r.halted /\ Marked(r, m).unrealised = u
    BY <2>2, <2>3 DEF RiskRec
  <2> QED BY <2>4 DEF u
<1>2. ASSUME NEW stale
      PROVE  /\ RiskChecked(r, stale) \in RiskRec
             /\ RiskChecked(r, stale).position = r.position
             /\ RiskChecked(r, stale).avg = r.avg
             /\ RiskChecked(r, stale).realised = r.realised
             /\ RiskChecked(r, stale).unrealised = r.unrealised
             /\ r.halted => RiskChecked(r, stale).halted
             /\ RiskChecked(r, stale).halted =>
                   r.halted \/ Verdict(r, stale) = "loss_limit"
  <2> DEFINE h == r.halted \/ Verdict(r, stale) = "loss_limit"
  <2>1. h \in BOOLEAN
    OBVIOUS
  <2>2. RiskChecked(r, stale) = [r EXCEPT !.halted = h]
    BY DEF RiskChecked
  <2> HIDE DEF h
  <2>3. /\ RiskChecked(r, stale) \in RiskRec
        /\ RiskChecked(r, stale).position = r.position
        /\ RiskChecked(r, stale).avg = r.avg
        /\ RiskChecked(r, stale).realised = r.realised
        /\ RiskChecked(r, stale).unrealised = r.unrealised
        /\ RiskChecked(r, stale).halted = h
    BY <2>1, <2>2 DEF RiskRec
  <2> QED BY <2>3 DEF h
<1> QED BY <1>1, <1>2

\* act_on: an order is sent only when nothing is wrong, and the halt is set
\* only for a loss.
LEMMA ActOnEffect ==
    ASSUME AppData, NEW side, NEW r \in RiskRec, NEW stale, ActOn(side, r, stale)
    PROVE  /\ risk' \in RiskRec /\ armed' \in BOOLEAN
           /\ risk'.position = r.position /\ risk'.avg = r.avg
           /\ risk'.realised = r.realised /\ risk'.unrealised = r.unrealised
           /\ r.halted => risk'.halted /\ UNCHANGED execVars
           /\ ~r.halted /\ risk'.halted => MaxLoss > 0 /\ Pnl(r) <= -MaxLoss
           /\ Send(side) \/ TurnAway \/ UNCHANGED execVars
<1>1. risk' = RiskChecked(r, stale) /\ armed' \in BOOLEAN
  BY DEF ActOn
<1>2. r.halted => Verdict(r, stale) = "halted"
  BY DEF Verdict
<1>3. Verdict(r, stale) = "loss_limit" => LossLimitReached(r)
  BY DEF Verdict
<1> QED BY <1>1, <1>2, <1>3, RiskFields DEF ActOn, LossLimitReached

\* What a truncated average loses is less than a unit per lot.
LEMMA AverageLoss ==
    ASSUME NEW x \in Int, NEW n \in Nat
    PROVE  LET q == x \div (n + 1)
           IN  q \in Int /\ q * (n + 1) <= x /\ x <= q * (n + 1) + n
<1> DEFINE q == x \div (n + 1)
           m == x % (n + 1)
<1>1. n + 1 \in Nat /\ n + 1 > 0
  OBVIOUS
<1>2. q \in Int /\ m \in 0 .. n
  BY <1>1
<1>3. x = (n + 1) * q + m
  BY <1>1
<1> QED BY <1>2, <1>3

\* The books agree: cash plus the inventory at its average price is the
\* realised profit, up to what the averages have dropped.  Unlike PnlIsEquity
\* this does not depend on the last quote.
BooksAgree(realised, c, position, avg, d) ==
    realised - c - position * avg <= d /\ -d <= realised - c - position * avg

\* One lot bought or sold, in each of the three cases of fmma_risk_on_fill.
LEMMA BuyAdds ==
    ASSUME NEW n \in Nat, NEW avg \in Int, NEW price \in Int, NEW realised \in Int,
           NEW c \in Int, NEW d \in Nat, BooksAgree(realised, c, n, avg, d)
    PROVE  LET q == (avg * n + price) \div (n + 1)
           IN  q \in Int /\ BooksAgree(realised, c - price, n + 1, q, d + n)
<1> DEFINE q == (avg * n + price) \div (n + 1)
<1>0. avg * n + price \in Int
  OBVIOUS
<1>1. q \in Int /\ q * (n + 1) <= avg * n + price /\ avg * n + price <= q * (n + 1) + n
  BY <1>0, AverageLoss
<1> HIDE DEF q
<1>2. (n + 1) * q = q * (n + 1) /\ n * avg = avg * n
  BY <1>1
<1>3. n * avg \in Int /\ q * (n + 1) \in Int
  BY <1>1
<1>4. BooksAgree(realised, c - price, n + 1, q, d + n)
  BY <1>1, <1>2, <1>3 DEF BooksAgree
<1> QED BY <1>1, <1>4 DEF q

\* A sale that adds to a short re-averages with an error below the position.
LEMMA SellAdds ==
    ASSUME NEW n \in Nat, NEW avg \in Int, NEW price \in Int, NEW realised \in Int,
           NEW c \in Int, NEW d \in Nat, BooksAgree(realised, c, -n, avg, d)
    PROVE  LET q == (avg * n + price) \div (n + 1)
           IN  q \in Int /\ BooksAgree(realised, c + price, -n - 1, q, d + n)
<1> DEFINE q == (avg * n + price) \div (n + 1)
<1>0. avg * n + price \in Int
  OBVIOUS
<1>1. q \in Int /\ q * (n + 1) <= avg * n + price /\ avg * n + price <= q * (n + 1) + n
  BY <1>0, AverageLoss
<1> HIDE DEF q
<1>2. (-n - 1) * q = -(q * (n + 1)) /\ (-n) * avg = -(avg * n)
  BY <1>1
<1>3. avg * n \in Int /\ q * (n + 1) \in Int
  BY <1>1
<1>4. BooksAgree(realised, c + price, -n - 1, q, d + n)
  BY <1>1, <1>2, <1>3 DEF BooksAgree
<1> QED BY <1>1, <1>4 DEF q

\* A fill against the position realises the difference to the average.
LEMMA LotCloses ==
    ASSUME NEW old \in Int, NEW avg \in Int, NEW price \in Int, NEW realised \in Int,
           NEW c \in Int, NEW d \in Nat, BooksAgree(realised, c, old, avg, d)
    PROVE  /\ old > 0 =>
                 BooksAgree(realised + (price - avg), c + price, old - 1,
                            IF old - 1 = 0 THEN 0 ELSE avg, d)
           /\ old < 0 =>
                 BooksAgree(realised + (avg - price), c - price, old + 1,
                            IF old + 1 = 0 THEN 0 ELSE avg, d)
<1>1. (old - 1) * (IF old - 1 = 0 THEN 0 ELSE avg) = old * avg - avg
  <2>1. CASE old = 1
    BY <2>1
  <2>2. CASE old # 1
    BY <2>2
  <2> QED BY <2>1, <2>2
<1>2. (old + 1) * (IF old + 1 = 0 THEN 0 ELSE avg) = old * avg + avg
  <2>1. CASE old = -1
    BY <2>1
  <2>2. CASE old # -1
    BY <2>2
  <2> QED BY <2>1, <2>2
<1>3. old * avg \in Int
  OBVIOUS
<1> QED BY <1>1, <1>2, <1>3 DEF BooksAgree

Books == BooksAgree(risk.realised, cash, risk.position, risk.avg, drift)

\* A fill of one lot keeps the books and moves the position by it.
LEMMA FillEffect ==
    ASSUME AppData, Books, NEW signed \in {1, -1}, NEW price \in Prices,
           RiskOnFill(signed, price), cash' = cash - signed * price,
           drift' = IF Adds(risk.position, signed)
                    THEN drift + Abs(risk.position) ELSE drift
    PROVE  /\ risk' \in RiskRec /\ cash' \in Int /\ drift' \in Nat
           /\ risk'.position = risk.position + signed /\ risk'.halted = risk.halted
           /\ Books'
<1> DEFINE old == risk.position
           avg == risk.avg
<1>1. /\ old \in Int /\ avg \in Int /\ risk.realised \in Int /\ risk \in RiskRec
      /\ cash \in Int /\ drift \in Nat /\ price \in Int /\ price \in Nat
  BY AppAssumption DEF AppData, RiskRec
<1>2. Abs(signed) = 1
  BY DEF Abs
<1> HIDE DEF old, avg
<1>3. CASE Adds(old, signed)
  <2> DEFINE n == Abs(old)
             q == (avg * n + price) \div (n + 1)
  <2>1. n \in Nat
    BY <1>1 DEF Abs
  <2>2. AveragedIn(old, avg, Abs(signed), price) = q
    <3>1. price * 1 = price
      BY <1>1
    <3> QED BY <1>2, <3>1 DEF AveragedIn
  <2>3. risk' = [risk EXCEPT !.position = old + signed, !.avg = q]
    BY <1>3, <2>2 DEF RiskOnFill, old, avg
  <2>4. drift' = drift + n
    BY <1>3 DEF old
  <2>5. \/ signed = 1 /\ old = n
        \/ signed = -1 /\ old = -n
    BY <1>1, <1>3 DEF Adds, Abs
  <2> HIDE DEF n
  <2>6. /\ q \in Int
        /\ BooksAgree(risk.realised, cash - signed * price, old + signed, q, drift + n)
    <3>1. CASE signed = 1 /\ old = n
      <4>1. cash - signed * price = cash - price /\ old + signed = n + 1
        BY <1>1, <3>1
      <4>2. BooksAgree(risk.realised, cash, n, avg, drift)
        BY <3>1 DEF Books, old, avg
      <4>3. q \in Int /\ BooksAgree(risk.realised, cash - price, n + 1, q, drift + n)
        BY <1>1, <2>1, <4>2, BuyAdds
      <4> QED BY <4>1, <4>3
    <3>2. CASE signed = -1 /\ old = -n
      <4>1. cash - signed * price = cash + price /\ old + signed = -n - 1
        BY <1>1, <2>1, <3>2
      <4>2. BooksAgree(risk.realised, cash, -n, avg, drift)
        BY <3>2 DEF Books, old, avg
      <4>3. q \in Int /\ BooksAgree(risk.realised, cash + price, -n - 1, q, drift + n)
        BY <1>1, <2>1, <4>2, SellAdds
      <4> QED BY <4>1, <4>3
    <3> QED BY <2>5, <3>1, <3>2
  <2> HIDE DEF q
  <2>7. old + signed \in Int /\ cash - signed * price \in Int
    BY <1>1
  <2>8. /\ risk' \in RiskRec /\ risk'.position = old + signed /\ risk'.avg = q
        /\ risk'.realised = risk.realised /\ risk'.halted = risk.halted
    BY <1>1, <2>3, <2>6, <2>7 DEF RiskRec
  <2> QED BY <1>1, <2>1, <2>4, <2>6, <2>7, <2>8 DEF Books, old
<1>4. CASE ~Adds(old, signed)
  <2> DEFINE new == old + signed
             a == IF new = 0 THEN 0 ELSE avg
             g == risk.realised + (IF old > 0 THEN price - avg ELSE avg - price)
  <2>1. \/ signed = 1 /\ old < 0
        \/ signed = -1 /\ old > 0
    BY <1>1, <1>4 DEF Adds
  <2>2. AverageAfterClose(old, new, avg, price) = a
    <3>1. new # 0 => (old > 0) = (new > 0)
      BY <1>1, <2>1
    <3> QED BY <3>1 DEF AverageAfterClose
  <2>3. Lesser(Abs(signed), Abs(old)) = 1
    BY <1>1, <1>2, <2>1 DEF Lesser, Abs
  <2>4. PerLot(old, avg, price) \in Int
    BY <1>1 DEF PerLot
  <2>5. risk.realised + PerLot(old, avg, price) * 1 = g
    BY <1>1, <2>4 DEF PerLot
  <2>6. risk' = [risk EXCEPT !.position = new, !.realised = g, !.avg = a]
    BY <1>4, <2>2, <2>3, <2>5 DEF RiskOnFill, old, avg
  <2>7. new \in Int /\ a \in Int /\ g \in Int /\ cash - signed * price \in Int
    BY <1>1
  <2>8. BooksAgree(g, cash - signed * price, new, a, drift)
    <3>0. BooksAgree(risk.realised, cash, old, avg, drift)
      BY DEF Books, old, avg
    <3>1. CASE signed = 1 /\ old < 0
      <4>1. cash - signed * price = cash - price /\ ~(old > 0)
        BY <1>1, <3>1
      <4> QED BY <1>1, <3>0, <3>1, <4>1, LotCloses
    <3>2. CASE signed = -1 /\ old > 0
      <4>1. cash - signed * price = cash + price /\ old + signed = old - 1
        BY <1>1, <3>2
      <4> QED BY <1>1, <3>0, <3>2, <4>1, LotCloses
    <3> QED BY <2>1, <3>1, <3>2
  <2> HIDE DEF new, a, g
  <2>9. /\ risk' \in RiskRec /\ risk'.position = new /\ risk'.avg = a
        /\ risk'.realised = g /\ risk'.halted = risk.halted
    BY <1>1, <2>6, <2>7 DEF RiskRec
  <2>10. drift' = drift
    BY <1>4 DEF old
  <2> QED BY <1>1, <2>7, <2>8, <2>9, <2>10 DEF Books, new, old
<1> QED BY <1>3, <1>4

\* A step of execution in the event loop: on_fill is called when a working
\* order is reported, and for its side; or the slots are at most released.
Reporting(i) ==
    /\ slots[i].active /\ slots' = [slots EXCEPT ![i] = FreeSlot]
    /\ Len(told') = Len(told) + 1
    /\ risk' \in RiskRec /\ cash' \in Int /\ drift' \in Nat /\ marked' = FALSE
    /\ risk'.position = risk.position + (IF slots[i].side = BUY THEN 1 ELSE -1)
    /\ risk'.halted = risk.halted /\ Books'

Silent ==
    /\ UNCHANGED <<told, risk, cash, drift, marked>>
    /\ \/ slots' = slots
       \/ \E i \in Slots, p \in SlotRec :
             /\ slots' = [slots EXCEPT ![i] = p]
             /\ Touched(i, p) \/ ~p.active

\* Execution reports one fill in a step, or none.
LEMMA ExecStepEffect ==
    ASSUME ExecData, AppData, Books, ExecStep
    PROVE  Silent \/ \E i \in Slots : Reporting(i)
<1>1. /\ slots \in [Slots -> SlotRec] /\ conns \in [Conns -> ConnRec] /\ Len(told) \in Nat
      /\ FreeSlot \in SlotRec /\ FreeSlot.active = FALSE
  BY Records DEF ExecData, FreeSlot
<1>2. ASSUME UNCHANGED told PROVE UNCHANGED <<risk, cash, drift, marked>>
  BY <1>1, <1>2 DEF ExecStep, FillReported
<1>3. CASE \E i \in Slots : Poll(i)
  <2>1. PICK i \in Slots : Poll(i)
    BY <1>3
  <2>2. UNCHANGED told
    BY <2>1, PollEffect
  <2>3. CASE GivenUp(i)
    BY <1>1, <1>2, <2>2, <2>3 DEF GivenUp, Silent
  <2>4. ASSUME NEW c \in Conns, NEW k \in ConnRec, NEW p \in SlotRec, Asked(i, c, k, p)
        PROVE  Silent
    BY <1>2, <2>2, <2>4 DEF Asked, Silent
  <2> QED BY <2>1, <2>3, <2>4, PollEffect
<1>4. CASE Broker
  BY <1>2, <1>4, BrokerEffect DEF Silent
<1>5. CASE \E n \in Conns : Callback(n)
  <2>1. PICK n \in Conns : Callback(n)
    BY <1>5
  <2> DEFINE i == conns[n].slot
             o == conns[n].order
  <2>2. CallbackDoes(n) /\ i \in Slots /\ o \in 1 .. MaxOrders
    <3>1. CallbackDoes(n) /\ conns[n].kind # "free"
      BY <2>1, CallbackEffect DEF CallbackDoes
    <3>2. i \in Slots /\ o \in 1 .. Len(broker)
      BY <1>1, <3>1 DEF ConnRec, ConnOrders, ExecData
    <3> QED BY <3>1, <3>2, Records, ExecAssumption DEF ExecData
  <2> HIDE DEF i, o
  <2>3. CASE UNCHANGED told
    <3>1. \E p \in SlotRec : slots' = [slots EXCEPT ![i] = p] /\ (Touched(i, p) \/ ~p.active)
      BY <1>1, <2>2 DEF CallbackDoes, Touched, i
    <3> QED BY <1>2, <2>2, <2>3, <3>1 DEF Silent
  <2>4. CASE /\ slots[i].active /\ slots' = [slots EXCEPT ![i] = FreeSlot]
             /\ told' = Append(told, [order |-> o, side |-> slots[i].side])
    <3> DEFINE r == [order |-> o, side |-> slots[i].side]
               signed == IF slots[i].side = BUY THEN 1 ELSE -1
    <3>1. slots[i].side \in {BUY, SELL}
      BY <1>1, <2>2 DEF SlotRec
    <3>2. r \in FillRec /\ r.side = slots[i].side
      BY <2>2, <3>1 DEF FillRec
    <3>3. told' = Append(told, r)
      BY <2>4
    <3> HIDE DEF r
    <3>4. Len(told') = Len(told) + 1 /\ told'[Len(told) + 1] = r
      BY <3>2, <3>3, ToldData DEF ExecData
    <3>5. Last(told').side = slots[i].side
      BY <3>2, <3>4 DEF Last
    <3>6. PICK price \in Prices : OnFill(price)
      BY <1>1, <3>4 DEF ExecStep, FillReported
    <3>7. /\ RiskOnFill(signed, price) /\ cash' = cash - signed * price
          /\ drift' = IF Adds(risk.position, signed)
                      THEN drift + Abs(risk.position) ELSE drift
          /\ marked' = FALSE
      BY <3>5, <3>6 DEF OnFill
    <3>8. signed \in {1, -1}
      OBVIOUS
    <3> HIDE DEF signed
    <3>9. /\ risk' \in RiskRec /\ cash' \in Int /\ drift' \in Nat
          /\ risk'.position = risk.position + signed /\ risk'.halted = risk.halted
          /\ Books'
      BY <3>7, <3>8, FillEffect
    <3> QED BY <2>2, <2>4, <3>4, <3>7, <3>9 DEF Reporting, signed
  <2> QED BY <2>2, <2>3, <2>4 DEF CallbackDoes, Ended, i, o
<1> QED BY <1>3, <1>4, <1>5 DEF ExecStep

\* The loop's own steps leave position, average, realised profit and cash.
LEMMA BooksStep ==
    ExecData /\ AppData /\ Books /\ [Next]_appVars => AppData' /\ Books'
<1> SUFFICES ASSUME ExecData, AppData, Books, [Next]_appVars PROVE AppData' /\ Books'
  OBVIOUS
<1>1. ASSUME NEW side \in {BUY, SELL}, Decide(side) PROVE AppData' /\ Books'
  BY <1>1 DEF Decide, AppData, Books
<1>2. CASE Announce
  BY <1>2 DEF Announce, AppData, Books
<1>3. ASSUME NEW m \in Prices, OnQuote(m) PROVE AppData' /\ Books'
  <2>1. m \in Nat /\ risk \in RiskRec
    BY AppAssumption DEF AppData
  <2>2. /\ risk' \in RiskRec /\ armed' \in BOOLEAN
        /\ risk'.position = risk.position /\ risk'.avg = risk.avg
        /\ risk'.realised = risk.realised
    <3>1. CASE risk' = Marked(risk, m) /\ UNCHANGED armed
      BY <2>1, <3>1, RiskFields DEF AppData
    <3>2. ASSUME NEW side, ActOn(side, Marked(risk, m), FALSE)
          PROVE  /\ risk' \in RiskRec /\ armed' \in BOOLEAN
                 /\ risk'.position = risk.position /\ risk'.avg = risk.avg
                 /\ risk'.realised = risk.realised
      <4> DEFINE r == Marked(risk, m)
      <4>1. /\ r \in RiskRec /\ r.position = risk.position /\ r.avg = risk.avg
            /\ r.realised = risk.realised
        BY <2>1, RiskFields
      <4>2. ActOn(side, r, FALSE)
        BY <3>2
      <4> HIDE DEF r
      <4> QED BY <4>1, <4>2, ActOnEffect
    <3> QED BY <1>3, <3>1, <3>2 DEF OnQuote
  <2> QED BY <1>3, <2>1, <2>2 DEF OnQuote, AppData, Books
<1>4. CASE FeedSilent
  BY <1>4 DEF FeedSilent, AppData, Books
<1>5. CASE DrainFpga
  <2>1. /\ risk' \in RiskRec /\ armed' \in BOOLEAN
        /\ risk'.position = risk.position /\ risk'.avg = risk.avg
        /\ risk'.realised = risk.realised
    BY <1>5, ActOnEffect DEF DrainFpga, AppData
  <2> QED BY <1>5, <2>1 DEF DrainFpga, AppData, Books
<1>6. CASE ExecStep
  <2>1. UNCHANGED <<fabric, mid, feedStale, armed, making, decision>>
    BY <1>6 DEF ExecStep
  <2>2. CASE Silent
    BY <2>1, <2>2 DEF Silent, AppData, Books
  <2>3. ASSUME NEW i \in Slots, Reporting(i) PROVE AppData' /\ Books'
    BY <2>1, <2>3 DEF Reporting, AppData
  <2> QED BY <1>6, <2>2, <2>3, ExecStepEffect
<1>7. CASE UNCHANGED appVars
  BY <1>7 DEF appVars, AppData, Books
<1> QED BY <1>1, <1>2, <1>3, <1>4, <1>5, <1>6, <1>7 DEF Next

\* The books agree at the start.
LEMMA AppInit == Init => ExecData /\ AppData /\ Books
<1> SUFFICES ASSUME Init PROVE AppData /\ Books
  BY ExecDataInit DEF Init
<1>0. /\ risk \in [position : StartPositions, avg : {0}, realised : {0},
                      unrealised : {0}, halted : {FALSE}]
      /\ StartPositions \subseteq Int
  BY RiskAssumption DEF Init, RiskInit
<1>1. /\ risk \in RiskRec /\ risk.avg = 0 /\ risk.realised = 0 /\ risk.position \in Int
  <2>1. [position : StartPositions, avg : {0}, realised : {0}, unrealised : {0},
         halted : {FALSE}] \subseteq RiskRec
    <3>1. 0 \in Int /\ FALSE \in BOOLEAN
      OBVIOUS
    <3> QED BY <1>0, <3>1, Zenon DEF RiskRec
  <2>2. risk.avg = 0 /\ risk.realised = 0 /\ risk.position \in Int
    BY <1>0
  <2> QED BY <1>0, <2>1, <2>2
<1>2. risk.position * risk.avg = 0
  BY <1>1
<1> QED BY <1>1, <1>2 DEF Init, AppData, Books, BooksAgree

-----------------------------------------------------------------------------
(* Profit and loss *)

\* What the last quote made of the book.
MarkedAtMid ==
    marked => risk.unrealised = IF risk.position = 0 \/ risk.avg = 0 THEN 0
                                ELSE (mid - risk.avg) * risk.position

\* Cash plus inventory at a mid, and the profit shown, for a book of which the
\* unrealised part is marked at that mid.
LEMMA ProfitIsEquity ==
    ASSUME NEW realised \in Int, NEW c \in Int, NEW position \in Int, NEW avg \in Int,
           NEW d \in Nat, NEW m \in Nat, BooksAgree(realised, c, position, avg, d)
    PROVE  LET pnl == realised + IF position = 0 \/ avg = 0 THEN 0
                                 ELSE (m - avg) * position
               equity == c + IF avg = 0 THEN 0 ELSE position * m
           IN  pnl - equity <= d /\ equity - pnl <= d
<1>1. CASE avg = 0
  <2>1. position * avg = 0
    BY <1>1
  <2> QED BY <1>1, <2>1 DEF BooksAgree
<1>2. CASE avg # 0 /\ position = 0
  <2>1. position * avg = 0 /\ position * m = 0
    BY <1>2
  <2> QED BY <1>2, <2>1 DEF BooksAgree
<1>3. CASE avg # 0 /\ position # 0
  <2>1. (m - avg) * position = position * m - position * avg
    OBVIOUS
  <2>2. position * m \in Int /\ position * avg \in Int
    OBVIOUS
  <2> QED BY <1>3, <2>1, <2>2 DEF BooksAgree
<1> QED BY <1>1, <1>2, <1>3

\* Every step leaves the profit marked at the mid it was computed from.
LEMMA MarkedStep ==
    ExecData /\ AppData /\ Books /\ MarkedAtMid /\ [Next]_appVars => MarkedAtMid'
<1> SUFFICES ASSUME ExecData, AppData, Books, MarkedAtMid, [Next]_appVars
             PROVE  MarkedAtMid'
  OBVIOUS
<1>1. ASSUME NEW m \in Prices, OnQuote(m) PROVE MarkedAtMid'
  <2> DEFINE r == Marked(risk, m)
  <2>1. /\ r \in RiskRec /\ r.position = risk.position /\ r.avg = risk.avg
        /\ r.unrealised = IF r.position = 0 \/ r.avg = 0 THEN 0
                          ELSE (m - r.avg) * r.position
    BY RiskFields, AppAssumption DEF AppData
  <2>2. risk' = r \/ \E side : ActOn(side, r, FALSE)
    BY <1>1 DEF OnQuote
  <2> HIDE DEF r
  <2>3. risk'.position = r.position /\ risk'.avg = r.avg /\ risk'.unrealised = r.unrealised
    BY <2>1, <2>2, ActOnEffect
  <2>4. mid' = m
    BY <1>1 DEF OnQuote
  <2> QED BY <2>1, <2>3, <2>4 DEF MarkedAtMid
<1>2. CASE DrainFpga
  <2>1. /\ risk'.position = risk.position /\ risk'.avg = risk.avg
        /\ risk'.unrealised = risk.unrealised
    BY <1>2, ActOnEffect DEF DrainFpga, AppData
  <2> QED BY <1>2, <2>1 DEF DrainFpga, MarkedAtMid
<1>3. CASE ExecStep
  <2>1. UNCHANGED mid
    BY <1>3 DEF ExecStep
  <2>2. CASE Silent
    BY <2>1, <2>2 DEF Silent, MarkedAtMid
  <2>3. ASSUME NEW i \in Slots, Reporting(i) PROVE MarkedAtMid'
    BY <2>3 DEF Reporting, MarkedAtMid
  <2> QED BY <1>3, <2>2, <2>3, ExecStepEffect
<1>4. CASE UNCHANGED <<risk, mid, marked>>
  BY <1>4 DEF MarkedAtMid
<1> QED
  BY <1>1, <1>2, <1>3, <1>4 DEF Next, Decide, Announce, FeedSilent, appVars

AppInv == ExecData /\ AppData /\ Books /\ MarkedAtMid

\* The invariant of the event loop holds throughout.
LEMMA AppInvariant == Spec => []AppInv
<1>1. Init => AppInv
  <2> SUFFICES ASSUME Init PROVE MarkedAtMid
    BY AppInit DEF AppInv
  <2>1. risk.avg = 0 /\ risk.unrealised = 0
    BY DEF Init, RiskInit
  <2> QED BY <2>1 DEF MarkedAtMid
<1>2. AppInv /\ [Next]_appVars => AppInv'
  BY AppStepIsExecStep, ExecDataStep, BooksStep, MarkedStep DEF AppInv
<1> QED BY <1>1, <1>2, PTL DEF Spec

\* fmma_risk.c: once a quote has marked the book, what it shows as profit is
\* cash plus inventory at the mid, but for the units the truncated averages
\* have dropped, for every start inventory, every set of prices and whatever
\* the broker and the network do.
THEOREM ProfitShownIsEquity == Spec => []PnlIsEquity
<1>1. ASSUME AppInv PROVE PnlIsEquity
  <2>1. /\ risk.realised \in Int /\ risk.position \in Int /\ risk.avg \in Int
        /\ cash \in Int /\ drift \in Nat /\ mid \in Nat
    BY <1>1 DEF AppInv, AppData, RiskRec
  <2>2. marked => Pnl(risk) - Equity <= drift /\ Equity - Pnl(risk) <= drift
    BY <1>1, <2>1, ProfitIsEquity DEF AppInv, Books, MarkedAtMid, Pnl, Equity
  <2> QED BY <2>2 DEF PnlIsEquity
<1> QED BY <1>1, AppInvariant, PTL

\* fmma_risk_check: the sticky halt is set only for a loss that is really
\* there, when the book has been marked since the last fill.
THEOREM HaltJustified == Spec => HaltIsJustified
<1> DEFINE Justified == ~risk.halted /\ risk.halted' /\ (marked \/ ~fabric)
                          => Equity' <= -MaxLoss + drift'
<1>1. ASSUME AppInv, [Next]_appVars PROVE [Justified]_appVars
  <2> SUFFICES ASSUME Next, ~risk.halted, risk.halted', marked \/ ~fabric
               PROVE  Equity' <= -MaxLoss + drift'
    BY <1>1
  <2>1. /\ ExecData /\ AppData /\ Books /\ risk \in RiskRec
    BY <1>1 DEF AppInv, AppData
  <2>2. /\ risk.realised \in Int /\ risk.position \in Int /\ risk.avg \in Int
        /\ cash \in Int /\ drift \in Nat /\ mid \in Nat /\ MaxLoss \in Nat
    BY <2>1, RiskAssumption DEF AppData, RiskRec
  <2>3. ASSUME NEW r \in RiskRec, NEW m \in Nat, NEW side, NEW stale,
               ActOn(side, r, stale), ~r.halted,
               r.realised = risk.realised, r.position = risk.position, r.avg = risk.avg,
               r.unrealised = IF r.position = 0 \/ r.avg = 0 THEN 0
                              ELSE (m - r.avg) * r.position,
               mid' = m, UNCHANGED <<cash, drift>>
        PROVE  Equity' <= -MaxLoss + drift'
    <3>1. Pnl(r) <= -MaxLoss /\ risk'.position = r.position /\ risk'.avg = r.avg
      BY <2>1, <2>3, ActOnEffect
    <3> DEFINE e == cash + IF risk.avg = 0 THEN 0 ELSE risk.position * m
    <3>2. Pnl(r) - e <= drift /\ e - Pnl(r) <= drift
      <4> DEFINE u == IF risk.position = 0 \/ risk.avg = 0 THEN 0
                      ELSE (m - risk.avg) * risk.position
      <4>1. BooksAgree(risk.realised, cash, risk.position, risk.avg, drift)
        BY <2>1 DEF Books
      <4>2. (risk.realised + u) - e <= drift /\ e - (risk.realised + u) <= drift
        BY <2>2, <4>1, ProfitIsEquity
      <4>3. r.unrealised = u
        BY <2>3
      <4> HIDE DEF u, e
      <4>4. Pnl(r) = risk.realised + u
        BY <2>3, <4>3 DEF Pnl
      <4> QED BY <4>2, <4>4
    <3>3. Equity' = e
      BY <2>3, <3>1 DEF Equity
    <3>4. e \in Int /\ Pnl(r) \in Int
      BY <2>2, <2>3 DEF Pnl, RiskRec
    <3> HIDE DEF e
    <3> QED BY <2>2, <2>3, <3>1, <3>2, <3>3, <3>4
  <2>4. CASE DrainFpga
    <3>1. marked
      BY <2>1, <2>4 DEF DrainFpga, AppData
    <3>2. risk.unrealised = IF risk.position = 0 \/ risk.avg = 0 THEN 0
                            ELSE (mid - risk.avg) * risk.position
      BY <1>1, <3>1 DEF AppInv, MarkedAtMid
    <3>3. ActOn(decision, risk, feedStale) /\ mid' = mid /\ UNCHANGED <<cash, drift>>
      BY <2>4 DEF DrainFpga
    <3> QED BY <2>1, <2>2, <2>3, <3>2, <3>3
  <2>5. ASSUME NEW m \in Prices, OnQuote(m) PROVE Equity' <= -MaxLoss + drift'
    <3> DEFINE r == Marked(risk, m)
    <3>1. /\ r \in RiskRec /\ m \in Nat /\ r.halted = risk.halted
          /\ r.realised = risk.realised /\ r.position = risk.position /\ r.avg = risk.avg
          /\ r.unrealised = IF r.position = 0 \/ r.avg = 0 THEN 0
                            ELSE (m - r.avg) * r.position
      BY <2>1, RiskFields, AppAssumption
    <3>2. risk' # r
      BY <3>1
    <3>3. \E side : ActOn(side, r, FALSE)
      BY <2>5, <3>2 DEF OnQuote
    <3>4. mid' = m /\ UNCHANGED <<cash, drift>>
      BY <2>5 DEF OnQuote
    <3> HIDE DEF r
    <3> QED BY <2>3, <3>1, <3>3, <3>4
  <2>6. CASE ExecStep
    <3>1. CASE Silent
      BY <3>1 DEF Silent
    <3>2. ASSUME NEW i \in Slots, Reporting(i) PROVE FALSE
      BY <3>2 DEF Reporting
    <3> QED BY <2>1, <2>6, <3>1, <3>2, ExecStepEffect
  <2> QED
    BY <2>4, <2>5, <2>6 DEF Next, Decide, Announce, FeedSilent
<1>2. [][Justified]_appVars => HaltIsJustified
  BY PTL DEF HaltIsJustified
<1> QED BY <1>1, <1>2, AppInvariant, PTL DEF Spec

-----------------------------------------------------------------------------
(* Exposure *)

\* The working orders of a side, counted like the taken slots.
LEMMA CountSide ==
    ASSUME ExecTypeOK, NEW s
    PROVE  /\ WorkingSide(s) \in 0 .. MaxPending
           /\ slots' = slots => WorkingSide(s)' = WorkingSide(s)
           /\ \A i \in Slots, p \in SlotRec : slots' = [slots EXCEPT ![i] = p] =>
                 /\ WorkingSide(s)' \in 0 .. MaxPending
                 /\ Touched(i, p) => WorkingSide(s)' = WorkingSide(s)
                 /\ ~p.active => WorkingSide(s)' =
                       WorkingSide(s) - (IF slots[i].active /\ slots[i].side = s
                                         THEN 1 ELSE 0)
                 /\ p.active /\ ~slots[i].active => WorkingSide(s)' =
                       WorkingSide(s) + (IF p.side = s THEN 1 ELSE 0)
<1> DEFINE On == {i \in Active : slots[i].side = s}
<1>1. IsFiniteSet(Slots) /\ Cardinality(Slots) = MaxPending
  BY FS_Interval, ExecAssumption DEF Slots
<1>2. On \subseteq Slots /\ On' \subseteq Slots
  BY DEF Active
<1>3. /\ IsFiniteSet(On) /\ Cardinality(On) \in Nat /\ Cardinality(On) <= MaxPending
      /\ IsFiniteSet(On') /\ Cardinality(On') \in Nat /\ Cardinality(On') <= MaxPending
  BY <1>1, <1>2, FS_Subset, FS_CardinalityType
<1>4. ASSUME NEW i \in Slots, NEW p \in SlotRec, slots' = [slots EXCEPT ![i] = p]
      PROVE  /\ Touched(i, p) => Cardinality(On') = Cardinality(On)
             /\ ~p.active => Cardinality(On') =
                   Cardinality(On) - (IF slots[i].active /\ slots[i].side = s THEN 1 ELSE 0)
             /\ p.active /\ ~slots[i].active => Cardinality(On') =
                   Cardinality(On) + (IF p.side = s THEN 1 ELSE 0)
  <2>1. \A j \in Slots : slots'[j] = IF j = i THEN p ELSE slots[j]
    BY <1>4, Records
  <2>2. ASSUME Touched(i, p) PROVE On' = On
    BY <2>1, <2>2 DEF Touched, Active
  <2>3. ASSUME ~p.active PROVE On' = On \ {i}
    BY <2>1, <2>3 DEF Active
  <2>4. i \in On <=> slots[i].active /\ slots[i].side = s
    BY DEF Active
  <2>5. ASSUME p.active, ~slots[i].active
        PROVE  On' = (IF p.side = s THEN On \cup {i} ELSE On) /\ i \notin On
    BY <2>1, <2>5 DEF Active
  <2> HIDE DEF On
  <2>6. ~p.active => Cardinality(On') =
                   Cardinality(On) - (IF slots[i].active /\ slots[i].side = s THEN 1 ELSE 0)
    <3>1. Cardinality(On \ {i}) = IF i \in On THEN Cardinality(On) - 1 ELSE Cardinality(On)
      BY <1>3, FS_RemoveElement
    <3> QED BY <1>3, <2>3, <2>4, <3>1
  <2>7. p.active /\ ~slots[i].active => Cardinality(On') =
                   Cardinality(On) + (IF p.side = s THEN 1 ELSE 0)
    <3>1. i \notin On => Cardinality(On \cup {i}) = Cardinality(On) + 1
      BY <1>3, FS_AddElement
    <3>2. CASE p.side = s
      BY <1>3, <2>5, <3>1, <3>2
    <3>3. CASE p.side # s
      BY <1>3, <2>5, <3>3
    <3> QED BY <3>2, <3>3
  <2> QED BY <2>2, <2>6, <2>7
<1>5. WorkingSide(s) = Cardinality(On) /\ WorkingSide(s)' = Cardinality(On')
  BY DEF WorkingSide
<1>6. slots' = slots => On' = On
  BY DEF Active
<1> HIDE DEF On
<1>7. MaxPending \in Nat
  BY ExecAssumption
<1> QED BY <1>3, <1>4, <1>5, <1>6, <1>7

\* The decisions under way for a side.
Pending(s) == (IF making = s THEN 1 ELSE 0) + (IF decision = s THEN 1 ELSE 0)

\* ExposureIsBounded with the decisions under way counted in.
Exposed ==
    /\ risk.position + WorkingSide(BUY) + Pending(BUY) <= Limit - 1 + MaxPending + UnderWay
    /\ -risk.position + WorkingSide(SELL) + Pending(SELL) <= Limit - 1 + MaxPending + UnderWay

\* The quantities the exposure is made of.
LEMMA ExposureTypes ==
    ASSUME ExecData, AppData
    PROVE  /\ WorkingSide(BUY) \in 0 .. MaxPending /\ WorkingSide(SELL) \in 0 .. MaxPending
           /\ risk.position \in Int /\ Limit \in Nat /\ MaxPending \in Nat
           /\ UnderWay \in {0, 2} /\ BUY # SELL /\ BUY # NONE /\ SELL # NONE
  BY CountSide, AppAssumption, ExecAssumption
     DEF ExecData, AppData, RiskRec, UnderWay, BUY, SELL, NONE

\* What act_on does to the working orders: at most one more, of its side.
LEMMA SendExposes ==
    ASSUME ExecData, NEW side \in {BUY, SELL}, NEW s,
           Send(side) \/ TurnAway \/ UNCHANGED execVars
    PROVE  /\ WorkingSide(s)' \in 0 .. MaxPending
           /\ WorkingSide(s)' <= WorkingSide(s) + (IF side = s THEN 1 ELSE 0)
<1>1. WorkingSide(s) \in 0 .. MaxPending /\ MaxPending \in Nat
  BY CountSide, ExecAssumption DEF ExecData
<1>2. CASE TurnAway \/ UNCHANGED execVars
  <2>1. UNCHANGED slots
    BY <1>2 DEF TurnAway, execVars
  <2> QED BY <1>1, <2>1, CountSide DEF ExecData
<1>3. CASE Send(side)
  <2> DEFINE p == NewSlot(side, Len(broker) + 1)
  <2>1. PICK i \in Slots : /\ ~slots[i].active /\ slots' = [slots EXCEPT ![i] = p]
                           /\ Len(broker) + 1 \in 1 .. MaxOrders
    BY <1>3, SendEffect DEF ExecData
  <2>2. p \in SlotRec /\ p.active = TRUE /\ p.side = side
    BY <2>1, NewSlotFields
  <2> HIDE DEF p
  <2>3. /\ WorkingSide(s)' \in 0 .. MaxPending
        /\ WorkingSide(s)' = WorkingSide(s) + (IF p.side = s THEN 1 ELSE 0)
    BY <2>1, <2>2, CountSide DEF ExecData
  <2> QED BY <1>1, <2>2, <2>3
<1> QED BY <1>2, <1>3

\* Every step keeps the exposure, decisions under way included, in bounds.
LEMMA ExposedStep ==
    ExecData /\ AppData /\ Books /\ Exposed /\ [Next]_appVars => Exposed'
<1> SUFFICES ASSUME ExecData, AppData, Books, Exposed, [Next]_appVars PROVE Exposed'
  OBVIOUS
<1>1. /\ WorkingSide(BUY) \in 0 .. MaxPending /\ WorkingSide(SELL) \in 0 .. MaxPending
      /\ risk.position \in Int /\ Limit \in Nat /\ MaxPending \in Nat
      /\ UnderWay \in {0, 2} /\ BUY # SELL /\ BUY # NONE /\ SELL # NONE
  BY ExposureTypes
<1>2. fabric' = fabric /\ UnderWay' = UnderWay
  <2>1. ASSUME NEW side \in {BUY, SELL}, Decide(side) PROVE fabric' = fabric
    BY <2>1 DEF Decide
  <2>2. ASSUME NEW m \in Prices, OnQuote(m) PROVE fabric' = fabric
    BY <2>2 DEF OnQuote
  <2>3. ASSUME Announce \/ FeedSilent PROVE fabric' = fabric
    BY <2>3 DEF Announce, FeedSilent
  <2>4. ASSUME DrainFpga PROVE fabric' = fabric
    BY <2>4 DEF DrainFpga
  <2>5. ASSUME ExecStep PROVE fabric' = fabric
    BY <2>5 DEF ExecStep
  <2>6. fabric' = fabric
    BY <2>1, <2>2, <2>3, <2>4, <2>5 DEF Next, appVars
  <2> QED BY <2>6 DEF UnderWay
<1>3. UNCHANGED slots => WorkingSide(BUY)' = WorkingSide(BUY)
                           /\ WorkingSide(SELL)' = WorkingSide(SELL)
  BY CountSide DEF ExecData
<1>4. ASSUME NEW side \in {BUY, SELL}, Decide(side) PROVE Exposed'
  <2>1. /\ fabric /\ making = NONE /\ WithinLimit(side) /\ making' = side
        /\ UNCHANGED <<slots, risk, decision>>
    BY <1>4 DEF Decide, execVars
  <2>2. UnderWay = 2
    BY <2>1 DEF UnderWay
  <2> QED
    BY <1>1, <1>2, <1>3, <2>1, <2>2 DEF Exposed, Pending, WithinLimit
<1>5. CASE Announce
  <2>1. making # NONE /\ decision' = making /\ making' = NONE /\ UNCHANGED <<slots, risk>>
    BY <1>5 DEF Announce, execVars
  <2> QED BY <1>1, <1>2, <1>3, <2>1 DEF Exposed, Pending
<1>6. CASE DrainFpga
  <2>1. /\ decision \in {BUY, SELL} /\ ActOn(decision, risk, feedStale)
        /\ decision' = NONE /\ UNCHANGED making /\ risk \in RiskRec
    BY <1>6 DEF DrainFpga, AppData
  <2>2. risk'.position = risk.position /\ (Send(decision) \/ TurnAway \/ UNCHANGED execVars)
    BY <2>1, ActOnEffect
  <2>3. /\ WorkingSide(BUY)' \in 0 .. MaxPending /\ WorkingSide(SELL)' \in 0 .. MaxPending
        /\ WorkingSide(BUY)' <= WorkingSide(BUY) + (IF decision = BUY THEN 1 ELSE 0)
        /\ WorkingSide(SELL)' <= WorkingSide(SELL) + (IF decision = SELL THEN 1 ELSE 0)
    BY <2>1, <2>2, SendExposes
  <2> QED BY <1>1, <1>2, <2>1, <2>2, <2>3 DEF Exposed, Pending
<1>7. ASSUME NEW m \in Prices, OnQuote(m) PROVE Exposed'
  <2>1. UNCHANGED <<making, decision>>
    BY <1>7 DEF OnQuote
  <2>2. m \in Nat /\ risk \in RiskRec
    BY AppAssumption DEF AppData
  <2>3. CASE risk' = Marked(risk, m) /\ UNCHANGED execVars
    <3>1. risk'.position = risk.position /\ UNCHANGED slots
      BY <2>2, <2>3, RiskFields DEF execVars
    <3> QED BY <1>1, <1>2, <1>3, <2>1, <3>1 DEF Exposed, Pending
  <2>4. ASSUME NEW side \in {BUY, SELL}, WithinLimit(side),
               ActOn(side, Marked(risk, m), FALSE), ~fabric
        PROVE  Exposed'
    <3>1. Marked(risk, m) \in RiskRec /\ Marked(risk, m).position = risk.position
      BY <2>2, RiskFields
    <3>2. risk'.position = risk.position /\ (Send(side) \/ TurnAway \/ UNCHANGED execVars)
      BY <2>4, <3>1, ActOnEffect
    <3>3. /\ WorkingSide(BUY)' \in 0 .. MaxPending /\ WorkingSide(SELL)' \in 0 .. MaxPending
          /\ WorkingSide(BUY)' <= WorkingSide(BUY) + (IF side = BUY THEN 1 ELSE 0)
          /\ WorkingSide(SELL)' <= WorkingSide(SELL) + (IF side = SELL THEN 1 ELSE 0)
      BY <3>2, SendExposes
    <3>4. making = NONE /\ decision = NONE
      BY <2>4 DEF AppData
    <3> QED BY <1>1, <1>2, <2>1, <2>4, <3>2, <3>3, <3>4 DEF Exposed, Pending, WithinLimit
  <2> QED BY <1>7, <2>3, <2>4 DEF OnQuote
<1>8. CASE ExecStep
  <2>1. UNCHANGED <<making, decision>>
    BY <1>8 DEF ExecStep
  <2>2. CASE Silent
    <3>1. WorkingSide(BUY)' <= WorkingSide(BUY) /\ WorkingSide(SELL)' <= WorkingSide(SELL)
      <4>1. CASE slots' = slots
        BY <1>1, <1>3, <4>1
      <4>2. ASSUME NEW i \in Slots, NEW p \in SlotRec, slots' = [slots EXCEPT ![i] = p],
                   Touched(i, p) \/ ~p.active, NEW s \in {BUY, SELL}
            PROVE  WorkingSide(s)' <= WorkingSide(s)
        <5>1. WorkingSide(s) \in Int
          BY <1>1, <4>2
        <5>2. CASE Touched(i, p)
          <6>1. WorkingSide(s)' = WorkingSide(s)
            BY <4>2, <5>2, CountSide DEF ExecData
          <6> QED BY <5>1, <6>1
        <5>3. CASE ~p.active
          <6>1. WorkingSide(s)' = WorkingSide(s) - (IF slots[i].active /\ slots[i].side = s
                                                    THEN 1 ELSE 0)
            BY <4>2, <5>3, CountSide DEF ExecData
          <6> QED BY <5>1, <6>1
        <5> QED BY <4>2, <5>2, <5>3
      <4> QED BY <2>2, <4>1, <4>2 DEF Silent
    <3>2. WorkingSide(BUY)' \in Int /\ WorkingSide(SELL)' \in Int
      BY <1>1, <2>2, CountSide DEF Silent, ExecData
    <3> QED BY <1>1, <1>2, <2>1, <2>2, <3>1, <3>2 DEF Exposed, Pending, Silent
  <2>3. ASSUME NEW i \in Slots, Reporting(i) PROVE Exposed'
    <3>1. FreeSlot \in SlotRec /\ FreeSlot.active = FALSE /\ slots[i].side \in {BUY, SELL}
      BY Records DEF ExecData, FreeSlot, SlotRec
    <3>2. ASSUME NEW s
          PROVE  WorkingSide(s)' = WorkingSide(s) - (IF slots[i].side = s THEN 1 ELSE 0)
      BY <2>3, <3>1, CountSide DEF Reporting, ExecData
    <3>3. risk'.position = risk.position + (IF slots[i].side = BUY THEN 1 ELSE -1)
      BY <2>3 DEF Reporting
    <3>4. /\ WorkingSide(BUY)' = WorkingSide(BUY) - (IF slots[i].side = BUY THEN 1 ELSE 0)
          /\ WorkingSide(SELL)' = WorkingSide(SELL) - (IF slots[i].side = SELL THEN 1 ELSE 0)
      BY <3>2
    <3> QED BY <1>1, <1>2, <2>1, <3>1, <3>3, <3>4 DEF Exposed, Pending
  <2> QED BY <1>8, <2>2, <2>3, ExecStepEffect
<1>9. CASE UNCHANGED <<slots, risk, making, decision>>
  BY <1>1, <1>2, <1>3, <1>9 DEF Exposed, Pending
<1> QED
  BY <1>4, <1>5, <1>6, <1>7, <1>8, <1>9 DEF Next, FeedSilent, appVars, execVars

\* CFG_MAX_POS bounds the exposure, inventory plus working orders of a side,
\* up to the pending table and, with the fabric, the decisions under way:
\* trading.asm and fmma_strategy.c test the inventory alone.  For every limit
\* and table; --position must not start out of the bound.
THEOREM ExposureBounded ==
    ASSUME \A p \in StartPositions : Abs(p) <= Limit - 1 + MaxPending
    PROVE  Spec => []ExposureIsBounded
<1>1. Init => Exposed
  <2> SUFFICES ASSUME Init PROVE Exposed
    OBVIOUS
  <2>1. ExecData /\ AppData
    BY AppInit
  <2>2. Abs(risk.position) <= Limit - 1 + MaxPending
    BY DEF Init, RiskInit
  <2>3. FreeSlot.active = FALSE
    BY DEF FreeSlot
  <2>4. Active = {}
    BY <2>3 DEF Init, ExecInit, Active
  <2>5. WorkingSide(BUY) = 0 /\ WorkingSide(SELL) = 0
    BY <2>4, FS_EmptySet DEF WorkingSide
  <2>6. making = NONE /\ decision = NONE
    BY DEF Init
  <2> QED BY <2>1, <2>2, <2>5, <2>6, ExposureTypes DEF Exposed, Pending, Abs
<1>2. ASSUME AppInv, Exposed PROVE ExposureIsBounded
  <2>1. Pending(BUY) \in Nat /\ Pending(SELL) \in Nat
    BY DEF Pending
  <2> QED
    BY <1>2, <2>1, ExposureTypes DEF AppInv, Exposed, ExposureIsBounded
<1>3. AppInv /\ Exposed /\ [Next]_appVars => Exposed'
  BY ExposedStep DEF AppInv
<1> QED BY <1>1, <1>2, <1>3, AppInvariant, PTL DEF Spec

-----------------------------------------------------------------------------
(* The halt winds down *)

\* After fmma_risk_halt nothing new is sent: reports and working orders
\* together never grow, with every mishap of a connection.
THEOREM HaltWinds == Spec => HaltWindsDown
<1> DEFINE Down == risk.halted => Len(told') + Cardinality(Active')
                                    <= Len(told) + Cardinality(Active)
<1>1. ASSUME AppInv, [Next]_appVars PROVE [Down]_appVars
  <2> SUFFICES ASSUME Next, risk.halted
               PROVE  Len(told') + Cardinality(Active') <= Len(told) + Cardinality(Active)
    BY <1>1
  <2>1. ExecData /\ ExecTypeOK /\ AppData /\ Books /\ risk \in RiskRec /\ Len(told) \in Nat
    BY <1>1, Records DEF AppInv, AppData, ExecData
  <2>2. Cardinality(Active) \in Nat
    <3>1. IsFiniteSet(Slots) /\ Active \subseteq Slots
      BY FS_Interval, ExecAssumption DEF Slots, Active
    <3> QED BY <3>1, FS_Subset, FS_CardinalityType
  <2>3. CASE UNCHANGED <<slots, told>>
    <3>1. Active' = Active
      BY <2>3 DEF Active
    <3> QED BY <2>1, <2>2, <2>3, <3>1
  <2>4. CASE DrainFpga
    BY <2>1, <2>3, <2>4, ActOnEffect DEF DrainFpga, execVars
  <2>5. ASSUME NEW m \in Prices, OnQuote(m) PROVE UNCHANGED <<slots, told>>
    <3>1. Marked(risk, m) \in RiskRec /\ Marked(risk, m).halted = risk.halted
      BY <2>1, RiskFields, AppAssumption
    <3>2. ASSUME NEW side, ActOn(side, Marked(risk, m), FALSE) PROVE UNCHANGED execVars
      BY <2>1, <3>1, <3>2, ActOnEffect
    <3> QED BY <2>5, <3>2 DEF OnQuote, execVars
  <2>6. CASE ExecStep
    <3>1. ASSUME NEW i \in Slots, Reporting(i)
          PROVE  Len(told') + Cardinality(Active') <= Len(told) + Cardinality(Active)
      <4>1. FreeSlot \in SlotRec /\ FreeSlot.active = FALSE
        BY <2>1, Records DEF FreeSlot
      <4>2. Cardinality(Active') = Cardinality(Active) - 1
        BY <2>1, <3>1, <4>1, CountActive DEF Reporting
      <4> QED BY <2>1, <2>2, <3>1, <4>2 DEF Reporting
    <3>2. ASSUME UNCHANGED told, NEW i \in Slots, NEW p \in SlotRec,
                 slots' = [slots EXCEPT ![i] = p], Touched(i, p) \/ ~p.active
          PROVE  Len(told') + Cardinality(Active') <= Len(told) + Cardinality(Active)
      <4>1. Cardinality(Active') \in {Cardinality(Active), Cardinality(Active) - 1}
        <5>1. slots[i].active \in BOOLEAN /\ p.active \in BOOLEAN
          BY <2>1, Records DEF SlotRec
        <5>2. p.active = slots[i].active \/ (~p.active /\ slots[i].active)
          BY <3>2, <5>1 DEF Touched
        <5> QED BY <2>1, <3>2, <5>2, CountActive
      <4> QED BY <2>1, <2>2, <3>2, <4>1
    <3> QED BY <2>1, <2>3, <2>6, <3>1, <3>2, ExecStepEffect DEF Silent
  <2> QED
    BY <2>3, <2>4, <2>5, <2>6 DEF Next, Decide, Announce, FeedSilent, execVars
<1>2. [][Down]_appVars => HaltWindsDown
  BY PTL DEF HaltWindsDown
<1> QED BY <1>1, <1>2, AppInvariant, PTL DEF Spec

-----------------------------------------------------------------------------
\* The event loop implements OrderExec: it sends, polls and serves callbacks
\* only as fmma_exec.c allows, so that what is proved of OrderExec also holds
\* of every run of fmma_app.c.
THEOREM LoopImplementsExec == Spec => ExecSpec
<1>1. Init => ExecInit
  BY DEF Init
<1>2. AppInv /\ [Next]_appVars => [ExecNext]_execVars
  BY AppStepIsExecStep DEF AppInv
<1> QED BY <1>1, <1>2, AppInvariant, PTL DEF Spec, ExecSpec
=============================================================================
