------------------------------ MODULE HostFpga ------------------------------
(***************************************************************************)
(* The host's side of the shared RAM: Software/src/fmma_fpga.c, called     *)
(* from the one thread of Software/src/fmma_app.c.  One action is one      *)
(* access to the RAM; the CPU may run between any two of them.  The        *)
(* compiler and bus barriers of the code keep the accesses in this order.  *)
(*                                                                         *)
(* The host may die between any two accesses and be started again, which   *)
(* loads the program again over whatever the RAM holds.                    *)
(***************************************************************************)
EXTENDS SharedRam

CONSTANTS
    Quotes,      \* the <<bid, ask>> pairs the feed may deliver, none of them 0
    Thresh,      \* fmma_config threshold
    MaxPos,      \* fmma_config max_position
    MaxWaits,    \* attempts of wait_for_cpu (50 in the code)
    WaitGrace,   \* the attempt after which a silent CPU is blamed (20)
    FillQtys     \* lots a fill may carry (the host always reports 1)

ASSUME HostAssumption ==
    /\ Quotes \subseteq (Nat \ {0}) \X (Nat \ {0})
    /\ Thresh \in Nat /\ MaxPos \in Nat
    /\ MaxWaits \in Nat \ {0} /\ WaitGrace \in 0 .. MaxWaits
    /\ FillQtys \subseteq Nat \ {0}

VARIABLE host

(***************************************************************************)
(* struct fmma_fpga (tickSeq, fillSeq, sigSeq), the locals of the function *)
(* being executed, and halted, the sticky flag of struct fmma_risk that    *)
(* decides whether act_on clears CFG_ENABLE.                               *)
(***************************************************************************)
LoadPcs == {"load", "program", "version0", "restart1", "beat0", "sleep",
            "version", "beat", "adopt_sig", "adopt_fill", "adopt_tick",
            "enable", "fail"}
RunPcs == {"idle", "pub_bid", "pub_ask", "pub_end", "fill_qty", "fill_seq",
           "poll_side", "poll_tick", "act"}
HostPcs == {"down"} \cup LoadPcs \cup RunPcs

NoQuote == <<0, 0>>
NoFill == <<FILL_BOUGHT, 0>>

\* What calloc gives a new process; nothing of it outlives the process.
NewHost == [pc |-> "down", i |-> 1, start |-> 0, beat0 |-> 0, ver |-> 0,
            waits |-> 0, tickSeq |-> 0, fillSeq |-> 0, sigSeq |-> 0,
            quote |-> NoQuote, fill |-> NoFill,
            seq |-> 0, side |-> SIGNAL_NONE, tick |-> 0, missed |-> 0,
            halted |-> FALSE]

HostInit == host = NewHost

In(l) == host.pc = l
Goto(l) == host' = [host EXCEPT !.pc = l]

\* The call returns to the event loop; its locals are gone.
Return(h) == [h EXCEPT !.pc = "idle", !.quote = NoQuote, !.side = SIGNAL_NONE,
                       !.fill = NoFill, !.seq = 0, !.tick = 0,
                       !.missed = 0, !.beat0 = 0, !.ver = 0, !.waits = 0]

-----------------------------------------------------------------------------
(* fmma_app_create -> fmma_fpga_load *)

\* The process starts; start is the inventory the operator configured.
Launch(start) ==
    /\ In("down")
    /\ host' = [host EXCEPT !.pc = "load", !.start = start]
    /\ UNCHANGED mem

\* Trading off, no restart pending, then fmma_fpga_push_config.
LoadStores == <<"CFG_ENABLE", "CFG_RESTART", "CFG_THRESH", "CFG_MAX_POS",
                "CFG_POSITION">>

LoadValue(w) == CASE w = "CFG_THRESH" -> Thresh
                  [] w = "CFG_MAX_POS" -> MaxPos
                  [] w = "CFG_POSITION" -> host.start
                  [] OTHER -> 0

LoadConfig ==
    /\ In("load")
    /\ LET w == LoadStores[host.i]
       IN  Store(w, LoadValue(w))
    /\ host' = IF host.i < Len(LoadStores)
               THEN [host EXCEPT !.i = host.i + 1]
               ELSE [host EXCEPT !.i = 1, !.pc = "program"]

\* write_program: the words behind a bridge that is not the shared RAM do
\* not read back.
WriteProgram(ramPresent) ==
    /\ In("program")
    /\ IF ramPresent
       THEN Store("ENTRY", 1) /\ Goto("version0")
       ELSE UNCHANGED mem /\ Goto("fail")

ClearVersion ==
    /\ In("version0")
    /\ Store("FW_VERSION", 0)
    /\ Goto("restart1")

AskRestart ==
    /\ In("restart1")
    /\ Store("CFG_RESTART", 1)
    /\ Goto("beat0")

ReadBeat0 ==
    /\ In("beat0")
    /\ host' = [host EXCEPT !.pc = "sleep", !.beat0 = mem["HEARTBEAT"]]
    /\ UNCHANGED mem

\* usleep(100000) returns.
Wake ==
    /\ In("sleep")
    /\ Goto("version")
    /\ UNCHANGED mem

ReadVersion ==
    /\ In("version")
    /\ host' = [host EXCEPT !.pc = "beat", !.ver = mem["FW_VERSION"]]
    /\ UNCHANGED mem

\* Mutant: any version will do.
ReadBeatAnyVersion ==
    /\ In("beat")
    /\ LET moved == mem["HEARTBEAT"] # host.beat0
       IN  host' = IF host.ver # 0 /\ moved
                   THEN [host EXCEPT !.pc = "adopt_sig"]
                   ELSE IF host.waits + 1 = MaxWaits
                   THEN [host EXCEPT !.pc = "fail"]
                   ELSE [host EXCEPT !.pc = "sleep", !.waits = host.waits + 1]
    /\ UNCHANGED mem

\* Mutant: the attempts are not counted.
ReadBeatUncounted ==
    /\ In("beat")
    /\ LET moved == mem["HEARTBEAT"] # host.beat0
       IN  host' = IF host.ver = PROTOCOL_VERSION /\ moved
                   THEN [host EXCEPT !.pc = "adopt_sig"]
                   ELSE IF host.ver # 0 /\ host.ver # PROTOCOL_VERSION
                   THEN [host EXCEPT !.pc = "fail"]
                   ELSE [host EXCEPT !.pc = "sleep"]
    /\ UNCHANGED mem

\* The three tests of the wait loop, in the order the code makes them; the
\* loop index is host.waits.
ReadBeat ==
    /\ In("beat")
    /\ LET moved == mem["HEARTBEAT"] # host.beat0
           spent == host.waits + 1 = MaxWaits
       IN  host' = IF host.ver = PROTOCOL_VERSION /\ moved
                   THEN [host EXCEPT !.pc = "adopt_sig"]
                   ELSE IF \/ host.ver # 0 /\ host.ver # PROTOCOL_VERSION
                           \/ moved /\ host.ver = 0 /\ host.waits > WaitGrace
                           \/ spent
                   THEN [host EXCEPT !.pc = "fail"]
                   ELSE [host EXCEPT !.pc = "sleep", !.waits = host.waits + 1]
    /\ UNCHANGED mem

AdoptSignalSeq ==
    /\ In("adopt_sig")
    /\ host' = [host EXCEPT !.pc = "adopt_fill", !.sigSeq = mem["SIGNAL_SEQ"]]
    /\ UNCHANGED mem

AdoptFillSeq ==
    /\ In("adopt_fill")
    /\ host' = [host EXCEPT !.pc = "adopt_tick", !.fillSeq = mem["FILL_SEQ"]]
    /\ UNCHANGED mem

\* Mutant: a number left odd by a host that died is adopted as it is.
AdoptTickSeqAsIs ==
    /\ In("adopt_tick")
    /\ host' = [host EXCEPT !.pc = "enable", !.tickSeq = mem["TICK_SEQ"]]
    /\ UNCHANGED mem

\* Continue from the even number at or below what a previous host left.
AdoptTickSeq ==
    /\ In("adopt_tick")
    /\ host' = [host EXCEPT !.pc = "enable",
                            !.tickSeq = ClearLowBit(mem["TICK_SEQ"])]
    /\ UNCHANGED mem

EnableTrading ==
    /\ In("enable")
    /\ Store("CFG_ENABLE", 1)
    /\ host' = Return(host)

-----------------------------------------------------------------------------
(* fmma_fpga_publish_tick *)

PublishBegin(q) ==
    /\ In("idle")
    /\ Store("TICK_SEQ", Bump(host.tickSeq))
    /\ host' = [host EXCEPT !.pc = "pub_bid", !.quote = q]

PublishBid ==
    /\ In("pub_bid")
    /\ Store("BID", host.quote[1])
    /\ Goto("pub_ask")

PublishAsk ==
    /\ In("pub_ask")
    /\ Store("ASK", host.quote[2])
    /\ Goto("pub_end")

\* Mutant: the number is kept in a wider integer and never wraps.
PublishEndWide ==
    /\ In("pub_end")
    /\ Store("TICK_SEQ", host.tickSeq + 2)
    /\ host' = Return([host EXCEPT !.tickSeq = @ + 2])

PublishEnd ==
    /\ In("pub_end")
    /\ LET s == Bump(Bump(host.tickSeq))
       IN  /\ Store("TICK_SEQ", s)
           /\ host' = Return([host EXCEPT !.tickSeq = s])

-----------------------------------------------------------------------------
(* on_fill -> fmma_fpga_report_fill *)

FillBegin(side, qty) ==
    /\ In("idle")
    /\ Store("FILL_SIDE", side)
    /\ host' = [host EXCEPT !.pc = "fill_qty", !.fill = <<side, qty>>]

FillQty ==
    /\ In("fill_qty")
    /\ Store("FILL_QTY", host.fill[2])
    /\ Goto("fill_seq")

FillEnd ==
    /\ In("fill_seq")
    /\ Store("FILL_SEQ", Bump(host.fillSeq))
    /\ host' = Return([host EXCEPT !.fillSeq = Bump(host.fillSeq)])

-----------------------------------------------------------------------------
(* drain_fpga -> fmma_fpga_poll_signal, act_on *)

\* An unchanged SIGNAL_SEQ returns 0 and changes nothing.
PollBegin ==
    /\ In("idle")
    /\ mem["SIGNAL_SEQ"] # host.sigSeq
    /\ host' = [host EXCEPT !.pc = "poll_side", !.seq = mem["SIGNAL_SEQ"]]
    /\ UNCHANGED mem

PollSide ==
    /\ In("poll_side")
    /\ host' = [host EXCEPT !.pc = "poll_tick", !.side = mem["SIGNAL"]]
    /\ UNCHANGED mem

\* Mutant: the decision in hand is counted as missed too.
PollTickOffByOne ==
    /\ In("poll_tick")
    /\ host' = [host EXCEPT !.pc = "act", !.tick = mem["SIGNAL_TICK"],
                            !.missed = Minus(host.seq, host.sigSeq),
                            !.sigSeq = host.seq]
    /\ UNCHANGED mem

PollTick ==
    /\ In("poll_tick")
    /\ host' = [host EXCEPT !.pc = "act", !.tick = mem["SIGNAL_TICK"],
                            !.missed = Minus(Minus(host.seq, host.sigSeq), 1),
                            !.sigSeq = host.seq]
    /\ UNCHANGED mem

\* drain_fpga after a poll.  The order goes out or the stale-feed gate holds
\* it back; a side that is neither BUY nor SELL is only logged.
KnownSide == host.side \in {SIGNAL_BUY, SIGNAL_SELL}

Act ==
    /\ In("act") /\ (host.halted => ~KnownSide)
    /\ host' = Return(host)
    /\ UNCHANGED mem

\* act_on: the loss limit is reached, or was before.  The master switch is
\* cleared; the flag is sticky.
ActHalted ==
    /\ In("act") /\ KnownSide
    /\ Store("CFG_ENABLE", 0)
    /\ host' = Return([host EXCEPT !.halted = TRUE])

-----------------------------------------------------------------------------
\* fmma_fpga_close, after a failed load or a shutdown: trading off.
Close ==
    /\ In("fail") \/ In("idle")
    /\ Store("CFG_ENABLE", 0)
    /\ host' = NewHost

\* The process is killed between two accesses: the RAM keeps what it holds.
Crash ==
    /\ ~In("down")
    /\ host' = NewHost
    /\ UNCHANGED mem

QuoteOrNone == Quotes \cup {NoQuote}
FillReports == {FILL_BOUGHT, FILL_SOLD} \X (FillQtys \cup {0})

HostRecords ==
             [pc : HostPcs, i : 1 .. Len(LoadStores), start : Int,
              beat0 : 0 .. CountMod - 1, ver : Nat, waits : 0 .. MaxWaits - 1,
              tickSeq : SeqNumbers, fillSeq : SeqNumbers, sigSeq : SeqNumbers,
              quote : QuoteOrNone,
              fill : FillReports,
              seq : SeqNumbers,
              side : Sides,
              tick : SeqNumbers, missed : SeqNumbers, halted : BOOLEAN]

HostTypeOK == host \in HostRecords
=============================================================================
