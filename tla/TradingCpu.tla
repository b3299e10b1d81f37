----------------------------- MODULE TradingCpu -----------------------------
(***************************************************************************)
(* The strategy program Software/trading.asm, as the fabric CPU runs it.   *)
(* One action is one access to the shared RAM together with the register   *)
(* instructions up to the next access: between two accesses nobody else    *)
(* can see what the CPU does.  Words that only the CPU writes (SIGNAL_SEQ, *)
(* REJECTS) are loaded and stored back in one step.                        *)
(*                                                                         *)
(* Price sums and bands wrap like the registers (FixedPoint); an inventory *)
(* in lots is far from the limits of a word.                               *)
(***************************************************************************)
EXTENDS SharedRam

CONSTANTS
    Fabrics,        \* the bitstreams a board may hold when the host starts
    ImageVersions   \* the protocol versions the built program may declare

ASSUME FabricAssumption ==
    /\ Fabrics \subseteq {"current", "old", "absent", "held"}
    /\ ImageVersions \subseteq Nat \ {0}

VARIABLE cpu

(***************************************************************************)
(* The registers the program lives in.  tick, bid, ask are R7, R5, R6;     *)
(* last, beat, pos, seen, anchor are R11, R12, R13, R14, R9; side is the   *)
(* decision being published and i the position in the block of stores of   *)
(* the init section.  fabric and image never change: they are what the     *)
(* board and the build provide.  "current" is the bitstream of this tree,  *)
(* "old" one whose datapath probe fails, "held" a CPU that KEY[0] keeps in *)
(* reset, "absent" a bridge with something other than the shared RAM.      *)
(***************************************************************************)
CpuPcs == {"halt", "init_pos", "init_fill", "init_clear", "init_version",
           "loop", "restart", "restart_ack", "fill", "fill_side", "fill_qty",
           "fill_pos", "tick", "bid", "ask", "again", "thresh", "enable",
           "max_pos", "signal", "signal_tick", "status", "signal_seq",
           "rej_status", "rejects", "mismatch"}

CpuInit ==
    \E f \in Fabrics, v \in ImageVersions :
       cpu = [pc |-> "halt", i |-> 1, anchor |-> 0, last |-> 0, beat |-> 0,
              pos |-> 0, seen |-> 0, tick |-> 0, bid |-> 0, ask |-> 0,
              side |-> SIGNAL_NONE, fside |-> 0, why |-> 0,
              fabric |-> f, image |-> v]

\* The output words the init section clears, in program order.
InitStores == <<"SIGNAL", "SIGNAL_TICK", "SIGNAL_SEQ", "POSITION", "REJECTS",
                "STATUS">>

InitValue(w) == IF w = "POSITION" THEN cpu.pos
                ELSE IF w = "STATUS" THEN STATUS_RUNNING ELSE 0

\* The datapath probe: 10 - 3 is 7 unless the bitstream is an old one.
ProbePasses == cpu.fabric = "current"

NextCount(c) == IF c = CountMod - 1 THEN 0 ELSE c + 1
NextBeat == NextCount(cpu.beat)

At(l) == cpu.pc = l

\* Back to LOOP.  The working registers are dead there (each is written again
\* before it is read), so their leftovers are forgotten.
ToLoop(c) == [c EXCEPT !.pc = "loop", !.tick = 0, !.bid = 0, !.ask = 0,
                       !.side = SIGNAL_NONE, !.fside = 0, !.why = 0]
Load(w) == mem[w]

-----------------------------------------------------------------------------
\* A zero word is HALT: the CPU polls the entry word until it is not zero.
Start ==
    /\ At("halt") /\ Load("ENTRY") # 0 /\ cpu.fabric # "held"
    /\ cpu' = [cpu EXCEPT !.pc = "init_pos"]
    /\ UNCHANGED mem

\* INIT clears the working registers, then adopts the host's inventory.
InitPosition ==
    /\ At("init_pos")
    /\ cpu' = [cpu EXCEPT !.pc = "init_fill", !.anchor = 0, !.last = 0,
                          !.beat = 0, !.pos = Load("CFG_POSITION")]
    /\ UNCHANGED mem

\* Mutant: INIT clears the fill number like the other registers.
InitFillSeqFromZero ==
    /\ At("init_fill")
    /\ cpu' = [cpu EXCEPT !.pc = "init_clear", !.i = 1, !.seen = 0]
    /\ UNCHANGED mem

InitFillSeq ==
    /\ At("init_fill")
    /\ cpu' = [cpu EXCEPT !.pc = "init_clear", !.i = 1,
                          !.seen = Load("FILL_SEQ")]
    /\ UNCHANGED mem

InitClear ==
    /\ At("init_clear")
    /\ LET w == InitStores[cpu.i]
       IN  Store(w, InitValue(w))
    /\ cpu' = IF cpu.i < Len(InitStores)
              THEN [cpu EXCEPT !.i = cpu.i + 1]
              ELSE [cpu EXCEPT !.i = 1,
                               !.pc = IF ProbePasses THEN "init_version"
                                                     ELSE "mismatch"]

InitVersion ==
    /\ At("init_version")
    /\ Store("FW_VERSION", cpu.image)
    /\ cpu' = [cpu EXCEPT !.pc = "loop"]

\* The old bitstream: keep the heartbeat going, never declare a version.
Mismatch ==
    /\ At("mismatch")
    /\ Store("HEARTBEAT", NextBeat)
    /\ cpu' = [cpu EXCEPT !.beat = NextBeat]

-----------------------------------------------------------------------------
Heartbeat ==
    /\ At("loop")
    /\ Store("HEARTBEAT", NextBeat)
    /\ cpu' = [cpu EXCEPT !.pc = "restart", !.beat = NextBeat]

CheckRestart ==
    /\ At("restart")
    /\ cpu' = [cpu EXCEPT !.pc = IF Load("CFG_RESTART") # 0 THEN "restart_ack"
                                                            ELSE "fill"]
    /\ UNCHANGED mem

\* The request is cleared before INIT is entered again.
AckRestart ==
    /\ At("restart_ack")
    /\ Store("CFG_RESTART", 0)
    /\ cpu' = [cpu EXCEPT !.pc = "init_pos"]

CheckFill ==
    /\ At("fill")
    /\ cpu' = IF Load("FILL_SEQ") = cpu.seen
              THEN [cpu EXCEPT !.pc = "tick"]
              ELSE [cpu EXCEPT !.pc = "fill_side", !.seen = Load("FILL_SEQ")]
    /\ UNCHANGED mem

LoadFillSide ==
    /\ At("fill_side")
    /\ cpu' = [cpu EXCEPT !.pc = "fill_qty", !.fside = Load("FILL_SIDE")]
    /\ UNCHANGED mem

LoadFillQty ==
    /\ At("fill_qty")
    /\ cpu' = [cpu EXCEPT !.pc = "fill_pos",
                          !.pos = IF cpu.fside = FILL_BOUGHT
                                  THEN cpu.pos + Load("FILL_QTY")
                                  ELSE cpu.pos - Load("FILL_QTY")]
    /\ UNCHANGED mem

PublishPosition ==
    /\ At("fill_pos")
    /\ Store("POSITION", cpu.pos)
    /\ cpu' = [cpu EXCEPT !.pc = "tick"]

-----------------------------------------------------------------------------
\* First read of the seqlock: nothing new, or a writer at work, is a retry.
CheckTick ==
    /\ At("tick")
    /\ LET s == Load("TICK_SEQ")
       IN  cpu' = IF s = cpu.last \/ s % 2 = 1
                  THEN ToLoop(cpu)
                  ELSE [cpu EXCEPT !.tick = s, !.pc = "bid"]
    /\ UNCHANGED mem

LoadBid ==
    /\ At("bid")
    /\ cpu' = [cpu EXCEPT !.pc = "ask", !.bid = Load("BID")]
    /\ UNCHANGED mem

LoadAsk ==
    /\ At("ask")
    /\ cpu' = [cpu EXCEPT !.pc = "again", !.ask = Load("ASK")]
    /\ UNCHANGED mem

\* Mutant: no second read.
SnapshotUnchecked == TRUE

\* The second read of TICK_SEQ found what the first one did.
SnapshotStable == Load("TICK_SEQ") = cpu.tick

\* R7: twice the mid.
Sum == Wrap(cpu.bid + cpu.ask)

\* Mutant: the number of an accepted quote is not remembered.
RecheckForgetful ==
    /\ At("again")
    /\ cpu' = IF ~SnapshotStable \/ cpu.bid = 0 \/ cpu.ask = 0
              THEN ToLoop(cpu)
              ELSE IF cpu.anchor = 0
              THEN ToLoop([cpu EXCEPT !.anchor = Sum])
              ELSE [cpu EXCEPT !.pc = "thresh"]
    /\ UNCHANGED mem

\* Second read of the seqlock, the one-sided-book test and the first anchor.
Recheck ==
    /\ At("again")
    /\ cpu' = IF ~SnapshotStable
              THEN ToLoop(cpu)
              ELSE IF cpu.bid = 0 \/ cpu.ask = 0
              THEN ToLoop([cpu EXCEPT !.last = cpu.tick])
              ELSE IF cpu.anchor = 0
              THEN ToLoop([cpu EXCEPT !.last = cpu.tick, !.anchor = Sum])
              ELSE [cpu EXCEPT !.pc = "thresh", !.last = cpu.tick]
    /\ UNCHANGED mem

\* Mutant: SET_ANCHOR writes R11, the last tick, in place of R9, the anchor.
EvaluateWrongRegister ==
    /\ At("thresh")
    /\ LET d == Decision(cpu.anchor, Sum, Load("CFG_THRESH"))
       IN  cpu' = IF d = SIGNAL_NONE
                  THEN ToLoop([cpu EXCEPT !.last = Sum])
                  ELSE [cpu EXCEPT !.last = Sum, !.side = d, !.pc = "enable"]
    /\ UNCHANGED mem

\* Every path re-anchors at the quote just evaluated.
Evaluate ==
    /\ At("thresh")
    /\ LET d == Decision(cpu.anchor, Sum, Load("CFG_THRESH"))
       IN  cpu' = IF d = SIGNAL_NONE
                  THEN ToLoop([cpu EXCEPT !.anchor = Sum])
                  ELSE [cpu EXCEPT !.anchor = Sum, !.side = d, !.pc = "enable"]
    /\ UNCHANGED mem

\* Mutant: the master switch is not looked at.
CheckEnableSkipped ==
    /\ At("enable")
    /\ cpu' = [cpu EXCEPT !.pc = "max_pos"]
    /\ UNCHANGED mem

\* The master switch outranks the position limit.
CheckEnable ==
    /\ At("enable")
    /\ cpu' = IF Load("CFG_ENABLE") = 0
              THEN [cpu EXCEPT !.pc = "rej_status", !.why = STATUS_DISABLED]
              ELSE [cpu EXCEPT !.pc = "max_pos"]
    /\ UNCHANGED mem

WithinLimit(side, p, m) == IF side = SIGNAL_BUY THEN p < m ELSE -m < p

CheckLimit ==
    /\ At("max_pos")
    /\ cpu' = IF WithinLimit(cpu.side, cpu.pos, Load("CFG_MAX_POS"))
              THEN [cpu EXCEPT !.pc = "signal"]
              ELSE [cpu EXCEPT !.pc = "rej_status", !.why = STATUS_RISK_BLOCKED]
    /\ UNCHANGED mem

-----------------------------------------------------------------------------
\* EMIT: the decision, the tick it answers, the status, and last the number.
EmitSignal ==
    /\ At("signal")
    /\ Store("SIGNAL", cpu.side)
    /\ cpu' = [cpu EXCEPT !.pc = "signal_tick"]

EmitTick ==
    /\ At("signal_tick")
    /\ Store("SIGNAL_TICK", cpu.last)
    /\ cpu' = [cpu EXCEPT !.pc = "status"]

EmitStatus ==
    /\ At("status")
    /\ Store("STATUS", STATUS_RUNNING)
    /\ cpu' = [cpu EXCEPT !.pc = "signal_seq"]

EmitSeq ==
    /\ At("signal_seq")
    /\ Store("SIGNAL_SEQ", Bump(Load("SIGNAL_SEQ")))
    /\ cpu' = ToLoop(cpu)

\* RISK_BLOCK and DISABLED_BLOCK share their tail.
RejectStatus ==
    /\ At("rej_status")
    /\ Store("STATUS", cpu.why + STATUS_RUNNING)
    /\ cpu' = [cpu EXCEPT !.pc = "rejects"]

CountReject ==
    /\ At("rejects")
    /\ Store("REJECTS", NextCount(Load("REJECTS")))
    /\ cpu' = ToLoop(cpu)

-----------------------------------------------------------------------------
InitSection == Start \/ InitPosition \/ InitFillSeq \/ InitClear
                 \/ InitVersion \/ Mismatch
Housekeeping == Heartbeat \/ CheckRestart \/ AckRestart \/ CheckFill
                 \/ LoadFillSide \/ LoadFillQty \/ PublishPosition
ReadQuote == CheckTick \/ LoadBid \/ LoadAsk \/ Recheck
Decide == Evaluate \/ CheckEnable \/ CheckLimit
Publish == EmitSignal \/ EmitTick \/ EmitStatus \/ EmitSeq
             \/ RejectStatus \/ CountReject

CpuNext == InitSection \/ Housekeeping \/ ReadQuote \/ Decide \/ Publish

\* KEY[0] or the power-on counter: every register back to zero, the program
\* counter back to the entry word, the RAM untouched.
CpuReset ==
    /\ cpu' = [cpu EXCEPT !.pc = "halt", !.i = 1, !.anchor = 0, !.last = 0,
                          !.beat = 0, !.pos = 0, !.seen = 0, !.tick = 0,
                          !.bid = 0, !.ask = 0, !.side = SIGNAL_NONE,
                          !.fside = 0, !.why = 0]
    /\ UNCHANGED mem

CpuRegisters ==
            [pc : CpuPcs, i : 1 .. Len(InitStores), anchor : Int,
             last : SeqNumbers, beat : 0 .. CountMod - 1, pos : Int,
             seen : SeqNumbers, tick : SeqNumbers, bid : Int, ask : Int,
             side : Sides, fside : Int,
             why : {0, STATUS_DISABLED, STATUS_RISK_BLOCKED},
             fabric : Fabrics, image : ImageVersions]

CpuTypeOK == cpu \in CpuRegisters
=============================================================================
