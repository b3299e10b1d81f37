------------------------------ MODULE OrderExec ------------------------------
(***************************************************************************)
(* Order execution: Software/src/fmma_exec.c with the broker and the HTTP  *)
(* connections behind it.  The host is one thread, so a callback or a call *)
(* from the event loop is one action; the broker and the network move      *)
(* between any two of them.                                                *)
(*                                                                         *)
(* An order is its number.  Times are left out: a poll is due whenever it  *)
(* happens, and the 60 seconds may be over at any poll, at the latest at   *)
(* the GiveUpPolls-th.  Dry run, the cooldown and a full table drop an     *)
(* order before anything kept here changes; the other refusals of          *)
(* fmma_exec_send move a counter and are TurnAway.                         *)
(***************************************************************************)
EXTENDS Integers, Sequences, FiniteSets

CONSTANTS
    MaxPending,    \* slots of the pending table (8 in the code)
    MaxOrders,     \* orders that are sent in a behaviour
    MaxConns,      \* connections open at a time
    MaxTurned,     \* orders that fmma_exec_send turns away in a behaviour
    GiveUpPolls,   \* polls after which the 60 seconds are over for sure
    Outcomes,      \* what the broker may make of an order, see Terminal
    Mishaps        \* what may go wrong with a connection: "error", "close",
                   \* "gap", "noid", see below

Terminal == {"filled", "canceled", "partial"}

ASSUME ExecAssumption ==
    /\ MaxPending \in Nat \ {0} /\ MaxOrders \in Nat /\ MaxConns \in Nat
    /\ MaxTurned \in Nat /\ GiveUpPolls \in Nat
    /\ Outcomes \subseteq Terminal \cup {"refused"}
    /\ Mishaps \subseteq {"error", "close", "gap", "noid"}

VARIABLES
    slots,    \* struct pending, with the order the slot was taken for
    conns,    \* the open connections by number; "free" ones do not exist
    broker,   \* the orders sent so far, as the broker has them
    stats,    \* the counters of struct fmma_stats that fmma_exec.c moves; and,
              \* observers, how many orders were turned away and how many
              \* queries failed, which these counters do not tell apart
    told,     \* the on_fill calls so far: the side reported, and the order
              \* the answer was about
    credentials,  \* both keys were in the environment at fmma_exec_create
    late      \* observer: a connection has stayed open after its error

execVars == <<slots, conns, broker, stats, told, credentials, late>>

Slots == 1 .. MaxPending
Conns == 1 .. MaxConns
Orders == DOMAIN broker

BUY  == "buy"
SELL == "sell"

\* A slot nobody has taken; slot_alloc's memset starts from the same.
FreeSlot == [active |-> FALSE, id |-> "", side |-> BUY, order |-> 0,
             asking |-> FALSE, polls |-> 0]
NoConn == [kind |-> "free", slot |-> 1, order |-> 0]

ExecInit ==
    /\ slots = [i \in Slots |-> FreeSlot]
    /\ conns = [n \in Conns |-> NoConn]
    /\ broker = << >>
    /\ stats = [sent |-> 0, filled |-> 0, rejected |-> 0, errors |-> 0,
                 turned |-> 0, unheard |-> 0]
    /\ told = << >>
    /\ credentials \in BOOLEAN
    /\ late = FALSE

Active == {i \in Slots : slots[i].active}

\* The connections of a kind, or of any kind.
OfKind(k) == {n \in Conns : conns[n].kind = k}
Unused == OfKind("free")
NextConn == CHOOSE n \in Unused : \A m \in Unused : n <= m

\* p->active = 0.  What is left in the slot is never read: slot_alloc erases
\* it, and until then settle and exec_poll stop at the flag.
Release(i) == slots' = [slots EXCEPT ![i] = FreeSlot]

-----------------------------------------------------------------------------
(* The broker and its answers (external) *)

\* The POST arrives.  Some market orders are filled on the spot.
BrokerReceives(o) ==
    /\ broker[o].state = "posted"
    /\ \E st \in {"working"} \cup (Outcomes \cap {"refused", "filled"}) :
          broker' = [broker EXCEPT ![o].state = st]
    /\ UNCHANGED <<slots, conns, stats, told, credentials, late>>

BrokerDecides(o) ==
    /\ broker[o].state = "working"
    /\ \E st \in Outcomes \cap Terminal :
          broker' = [broker EXCEPT ![o].state = st]
    /\ UNCHANGED <<slots, conns, stats, told, credentials, late>>

\* An answer shows the order as it is, or as it was when the answer left.
Shown(o) == IF broker[o].state \in Terminal
            THEN {"working", broker[o].state} ELSE {broker[o].state}

-----------------------------------------------------------------------------
(* fmma_exec_send *)

\* Without credentials the order counts as rejected.  With them and a free
\* slot, mg_http_connect may fail: an error, and the slot is released again.
TurnAway ==
    /\ stats.turned < MaxTurned
    /\ \/ /\ ~credentials
          /\ stats' = [stats EXCEPT !.rejected = @ + 1, !.turned = @ + 1]
       \/ /\ credentials /\ Active # Slots
          /\ stats' = [stats EXCEPT !.errors = @ + 1, !.turned = @ + 1]
    /\ UNCHANGED <<slots, conns, broker, told, credentials, late>>

\* slot_alloc finds the first free slot; with none the order is dropped.
Send(side) ==
    /\ Len(broker) < MaxOrders /\ Unused # {}
    /\ credentials
    /\ Active # Slots
    /\ LET i == CHOOSE i \in Slots \ Active :
                   \A j \in Slots \ Active : i <= j
           o == Len(broker) + 1
       IN  /\ slots' = [slots EXCEPT ![i] = [FreeSlot EXCEPT
                            !.active = TRUE, !.side = side, !.order = o]]
           /\ broker' = Append(broker, [side |-> side, state |-> "posted"])
           /\ conns' = [conns EXCEPT ![NextConn] =
                            [kind |-> "post", slot |-> i, order |-> o]]
    /\ stats' = [stats EXCEPT !.sent = @ + 1]
    /\ UNCHANGED <<told, credentials, late>>

-----------------------------------------------------------------------------
(* order_cb and query_cb *)

Hangup(n) == conns' = [conns EXCEPT ![n] = NoConn]

\* Mutant: every order that is over is reported as filled.
SettleAnyEnd(i, o, st) ==
    IF ~slots[i].active
    THEN UNCHANGED <<stats, told>>
    ELSE /\ stats' = [stats EXCEPT !.filled = @ + 1]
         /\ told' = Append(told, [order |-> o, side |-> slots[i].side])

\* settle: a filled order is reported with the side of the slot, any other
\* end is counted.  A slot that is no longer active is left alone.
Settle(i, o, st) ==
    IF ~slots[i].active
    THEN UNCHANGED <<stats, told>>
    ELSE IF st = "filled"
    THEN /\ stats' = [stats EXCEPT !.filled = @ + 1]
         /\ told' = Append(told, [order |-> o, side |-> slots[i].side])
    ELSE /\ stats' = [stats EXCEPT !.rejected = @ + 1]
         /\ UNCHANGED told

\* Mutant: the id is taken from the status field of the answer.
PostAnswerWrongField(n) ==
    /\ conns[n].kind = "post" /\ broker[conns[n].order].state # "posted"
    /\ slots' = [slots EXCEPT ![conns[n].slot].id = broker[conns[n].order].state]
    /\ Hangup(n)
    /\ UNCHANGED <<broker, stats, told, credentials, late>>

\* The answer to the POST; the connection is drained and closed at once.
PostAnswer(n) ==
    /\ conns[n].kind = "post" /\ broker[conns[n].order].state # "posted"
    /\ LET i == conns[n].slot
           o == conns[n].order
       IN  \E st \in Shown(o), id \in {"known"} \cup (Mishaps \cap {"noid"}) :
              IF st = "refused"
              THEN /\ stats' = [stats EXCEPT !.rejected = @ + 1]
                   /\ Release(i)
                   /\ UNCHANGED told
              ELSE IF st \in Terminal
              THEN Settle(i, o, st) /\ Release(i)
              ELSE /\ slots' = [slots EXCEPT ![i].id = id]
                   /\ UNCHANGED <<stats, told>>
    /\ Hangup(n)
    /\ UNCHANGED <<broker, credentials, late>>

\* The answer to a query.  An order without an id is not found, and the answer
\* has no status.  Nothing filled (filled_qty "0") releases the slot without
\* looking whether it is active.
QueryAnswer(n) ==
    /\ conns[n].kind \in {"query", "lost"}
    /\ LET i == conns[n].slot
           o == conns[n].order
       IN  \E st \in IF conns[n].kind = "lost" THEN {"working"} ELSE Shown(o) :
              IF st \notin Terminal
              THEN /\ slots' = [slots EXCEPT ![i].asking = FALSE]
                   /\ UNCHANGED <<stats, told>>
              ELSE /\ Release(i)
                   /\ IF st = "canceled"
                      THEN /\ stats' = [stats EXCEPT !.rejected = @ + 1]
                           /\ UNCHANGED told
                      ELSE Settle(i, o, st)
    /\ Hangup(n)
    /\ UNCHANGED <<broker, credentials, late>>

\* MG_EV_ERROR.  The connection closes in the same pass of the event loop or,
\* when the error comes from the resolver ("gap"), in the next one.
Closing(n) ==
    \/ Hangup(n) /\ UNCHANGED late
    \/ /\ "gap" \in Mishaps
       /\ conns' = [conns EXCEPT ![n].kind =
                        IF @ = "post" THEN "post_closing" ELSE "query_closing"]
       /\ late' = TRUE

PostError(n) ==
    /\ "error" \in Mishaps /\ conns[n].kind = "post"
    /\ Release(conns[n].slot)
    /\ stats' = [stats EXCEPT !.errors = @ + 1]
    /\ Closing(n)
    /\ UNCHANGED <<broker, told, credentials>>

QueryError(n) ==
    /\ "error" \in Mishaps /\ conns[n].kind \in {"query", "lost"}
    /\ slots' = [slots EXCEPT ![conns[n].slot].asking = FALSE]
    /\ stats' = [stats EXCEPT !.errors = @ + 1, !.unheard = @ + 1]
    /\ Closing(n)
    /\ UNCHANGED <<broker, told, credentials>>

\* MG_EV_CLOSE with nothing before it: the peer hung up, or a read failed.
\* The callback of a POST only frees its context.
PostClose(n) ==
    /\ \/ conns[n].kind = "post" /\ "close" \in Mishaps
       \/ conns[n].kind = "post_closing"
    /\ Hangup(n)
    /\ UNCHANGED <<slots, broker, stats, told, credentials, late>>

\* Mutant: query_in_flight stays set when a query is closed unanswered.
QueryCloseKeepsFlag(n) ==
    /\ \/ conns[n].kind \in {"query", "lost"} /\ "close" \in Mishaps
       \/ conns[n].kind = "query_closing"
    /\ Hangup(n)
    /\ UNCHANGED <<slots, broker, stats, told, credentials, late>>

QueryClose(n) ==
    /\ \/ conns[n].kind \in {"query", "lost"} /\ "close" \in Mishaps
       \/ conns[n].kind = "query_closing"
    /\ slots' = [slots EXCEPT ![conns[n].slot].asking = FALSE]
    /\ Hangup(n)
    /\ UNCHANGED <<broker, stats, told, credentials, late>>

-----------------------------------------------------------------------------
(* fmma_exec_poll *)

\* Only a slot with an id and no query out is looked at.
Pollable(i) == slots[i].active /\ ~slots[i].asking /\ slots[i].id # ""

\* Mutant: the 60 seconds are tested before query_in_flight.
GiveUpWhileAsking(i) ==
    /\ slots[i].active /\ slots[i].id # ""
    /\ Release(i)
    /\ stats' = [stats EXCEPT !.rejected = @ + 1]
    /\ UNCHANGED <<conns, broker, told, credentials, late>>

\* Mutant: an order given up is not counted.
GiveUpSilently(i) ==
    /\ Pollable(i)
    /\ Release(i)
    /\ UNCHANGED <<conns, broker, stats, told, credentials, late>>

GiveUp(i) ==
    /\ Pollable(i)
    /\ Release(i)
    /\ stats' = [stats EXCEPT !.rejected = @ + 1]
    /\ UNCHANGED <<conns, broker, told, credentials, late>>

\* Mutant: the poll writes its time to sent_us, and the 60 seconds start anew.
QueryRestartsClock(i) ==
    /\ Pollable(i) /\ Unused # {} /\ slots[i].polls < GiveUpPolls
    /\ slots' = [slots EXCEPT ![i].asking = TRUE]
    /\ conns' = [conns EXCEPT ![NextConn] =
                    [kind |-> IF slots[i].id = "known" THEN "query" ELSE "lost",
                     slot |-> i, order |-> slots[i].order]]
    /\ UNCHANGED <<broker, stats, told, credentials, late>>

Query(i) ==
    /\ Pollable(i) /\ Unused # {} /\ slots[i].polls < GiveUpPolls
    /\ slots' = [slots EXCEPT ![i].asking = TRUE, ![i].polls = @ + 1]
    /\ conns' = [conns EXCEPT ![NextConn] =
                    [kind |-> IF slots[i].id = "known" THEN "query" ELSE "lost",
                     slot |-> i, order |-> slots[i].order]]
    /\ UNCHANGED <<broker, stats, told, credentials, late>>

-----------------------------------------------------------------------------
Callback(n) == PostAnswer(n) \/ QueryAnswer(n) \/ PostError(n) \/ QueryError(n)
                 \/ PostClose(n) \/ QueryClose(n)
Poll(i) == GiveUp(i) \/ Query(i)
Broker == \E o \in Orders : BrokerReceives(o) \/ BrokerDecides(o)

ExecNext ==
    \/ \E side \in {BUY, SELL} : Send(side)
    \/ TurnAway
    \/ \E n \in Conns : Callback(n)
    \/ \E i \in Slots : Poll(i)
    \/ Broker

ExecSpec == ExecInit /\ [][ExecNext]_execVars

(***************************************************************************)
(* The event loop calls exec_poll for ever.  That is all the code can      *)
(* promise: no query and no POST has a time-out, so the broker need not    *)
(* answer, and a connection may hang for ever.                             *)
(***************************************************************************)
ExecFairSpec == ExecSpec /\ \A i \in Slots : WF_execVars(Poll(i))

-----------------------------------------------------------------------------
(* Properties *)

\* The contents of the table, of the connections and of the observers.
SlotRec == [active : BOOLEAN, id : {"", "known", "noid"}, side : {BUY, SELL},
            order : 0 .. MaxOrders, asking : BOOLEAN, polls : 0 .. GiveUpPolls]
ConnRec == [kind : {"free", "post", "query", "lost", "post_closing", "query_closing"},
            slot : Slots, order : 0 .. MaxOrders]
OrderRec == [side : {BUY, SELL},
             state : {"posted", "working", "refused"} \cup Terminal]
StatsRec == [sent : Nat, filled : Nat, rejected : Nat, errors : Nat,
             turned : Nat, unheard : Nat]
FillRec == [order : 1 .. MaxOrders, side : {BUY, SELL}]

\* Type correctness of the table, the connections and the counters.
ExecTypeOK ==
    /\ slots \in [Slots -> SlotRec] /\ conns \in [Conns -> ConnRec]
    /\ broker \in Seq(OrderRec) /\ Len(broker) <= MaxOrders
    /\ stats \in StatsRec /\ told \in Seq(FillRec)
    /\ credentials \in BOOLEAN /\ late \in BOOLEAN

\* "A fill report means a fill actually happened" (fmma_exec.h): every on_fill
\* call stands for an order the broker filled, with that order's side, and no
\* order is reported twice, also when its slot has been taken again; until the
\* resolver first closes a connection late.
ReportsAreReal == late \/
    /\ \A k \in DOMAIN told :
          LET o == told[k].order
          IN  broker[o].state = "filled" /\ told[k].side = broker[o].side
    /\ \A j, k \in DOMAIN told : told[j].order = told[k].order => j = k

\* Whoever is being asked about an order, the slot the answer will be applied
\* to is still that order's, there is one such question at a time, and
\* query_in_flight says so; until the first late close.
AnswersMeetTheirOrder == late \/
    /\ \A n \in Conns : conns[n].kind # "free" =>
          LET p == slots[conns[n].slot]
          IN  /\ p.active /\ p.order = conns[n].order
              /\ (conns[n].kind \in {"query", "lost"}) = p.asking
    /\ \A m, n \in Conns :
          conns[m].kind # "free" /\ conns[n].kind # "free"
             /\ conns[m].slot = conns[n].slot => m = n

\* What the counters must add up to: every order sent or turned away once,
\* and a query that failed once, whatever end of settle, order_cb, query_cb,
\* fmma_exec_send or fmma_exec_poll counted it.
Accounted == stats.filled + stats.rejected + stats.errors + Cardinality(Active)
ToAccount == stats.sent + stats.turned + stats.unheard

\* The summary's orders_filled, orders_rejected and errors leave nothing out
\* and count nothing twice: what is not counted yet is working; until the
\* first late close.
OrdersAccountedFor == late \/ Accounted = ToAccount

\* After a late close too no order leaves the table uncounted: an answer that
\* comes twice may count an order twice, a slot that is released is counted at
\* least once.
NoOrderVanishes == ToAccount <= Accounted

\* A query of the order that has the slot is out and has not ended.
QueryOut(i) == \E n \in Conns : /\ conns[n].kind \in {"query", "lost"}
                                /\ conns[n].slot = i
                                /\ conns[n].order = slots[i].order

\* query_in_flight keeps fmma_exec_poll away from a slot only while a query
\* about the slot's own order is out, after late closes and when the slot has
\* been taken again too: however a query ends, it clears the flag.
FlagIsHonest == \A i \in Slots : slots[i].asking => QueryOut(i)

\* "Give up eventually rather than polling a lost order forever"
\* (fmma_exec_poll): no order whose number the host knows keeps its slot for
\* ever.  A query that never ends is the exception: the 60 seconds are tested
\* after query_in_flight, so its slot is never looked at again.
KnownOrdersAreReleased ==
    \A i \in Slots : \/ []<>~(slots[i].active /\ slots[i].id # "")
                     \/ <>[](slots[i].asking /\ QueryOut(i))
=============================================================================
