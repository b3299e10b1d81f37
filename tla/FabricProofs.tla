---------------------------- MODULE FabricProofs ----------------------------
(***************************************************************************)
(* Type correctness of Fabric.  Each process is proved typed on its own,   *)
(* registers and stores apart, and the two are put together at the end.    *)
(***************************************************************************)
EXTENDS Fabric, TLAPS

\* A wrapped increment stays a sequence number and flips the parity.
LEMMA BumpParity ==
    ASSUME NEW s \in SeqNumbers
    PROVE  /\ Bump(s) \in SeqNumbers
           /\ s % 2 = 0 => Bump(s) % 2 = 1
           /\ s % 2 = 1 => Bump(s) % 2 = 0
           /\ s % 2 \in {0, 1}
BY WordAssumption DEF SeqNumbers, Bump

\* The counters start and stay in their ranges.
LEMMA CounterRanges ==
    /\ 0 \in SeqNumbers /\ SeqNumbers \subseteq Int
    /\ 0 \in 0 .. CountMod - 1 /\ 0 .. CountMod - 1 \subseteq Int
    /\ \A c \in 0 .. CountMod - 1 : NextCount(c) \in 0 .. CountMod - 1
    /\ \A s \in SeqNumbers : ClearLowBit(s) \in SeqNumbers
    /\ \A a, b \in SeqNumbers : Minus(a, b) \in SeqNumbers
    /\ 1 \in SeqNumbers
BY WordAssumption DEF SeqNumbers, NextCount, ClearLowBit, Minus

\* The range of each register, out of the record type.
LEMMA RegisterRanges ==
    ASSUME CpuTypeOK
    PROVE  /\ cpu.i \in 1 .. Len(InitStores) /\ cpu.pos \in Int
           /\ cpu.beat \in 0 .. CountMod - 1 /\ cpu.last \in SeqNumbers
           /\ cpu.side \in Sides /\ cpu.image \in Nat
           /\ cpu.why + STATUS_RUNNING \in Int
<1>1. cpu.why \in {0, STATUS_DISABLED, STATUS_RISK_BLOCKED}
  BY DEF CpuTypeOK, CpuRegisters
<1>2. cpu.why + STATUS_RUNNING \in Int
  BY <1>1 DEF STATUS_RUNNING, STATUS_DISABLED, STATUS_RISK_BLOCKED
<1> QED
  BY <1>2, FabricAssumption DEF CpuTypeOK, CpuRegisters

\* The two tables of stores name words of the right kind.
LEMMA StoreTables ==
    /\ 1 \in 1 .. Len(InitStores)
    /\ \A i \in 1 .. Len(InitStores) :
          /\ InitStores[i] \in OutputWords \ {"HEARTBEAT", "FW_VERSION"}
          /\ i < Len(InitStores) => i + 1 \in 1 .. Len(InitStores)
    /\ 1 \in 1 .. Len(LoadStores)
    /\ \A i \in 1 .. Len(LoadStores) :
          /\ LoadStores[i] \in InputWords \ {"TICK_SEQ", "BID", "ASK", "FILL_SEQ"}
          /\ i < Len(LoadStores) => i + 1 \in 1 .. Len(LoadStores)
BY DEF InitStores, LoadStores, InputWords, OutputWords

\* Which of the names used are words, and of which kind.
LEMMA WordNames ==
    /\ InputWords \subseteq Words /\ OutputWords \subseteq Words
    /\ {"ENTRY", "TICK_SEQ", "BID", "ASK", "CFG_ENABLE", "CFG_RESTART",
        "CFG_POSITION", "FILL_SEQ", "FILL_SIDE", "FILL_QTY", "HEARTBEAT",
        "SIGNAL", "SIGNAL_TICK", "SIGNAL_SEQ", "POSITION", "STATUS",
        "REJECTS", "FW_VERSION"} \subseteq Words
BY DEF Words, InputWords, OutputWords

\* A store of a fitting value keeps the RAM typed.
LEMMA StoreType ==
    ASSUME MemTypeOK, NEW w \in Words, NEW v, Fits(w, v), Store(w, v)
    PROVE  MemTypeOK'
BY DEF Store, MemTypeOK, Fits

\* Sums and differences of integers, for the provers.
LEMMA IntSums ==
    \A a, b \in Int : a + b \in Int /\ a - b \in Int
OBVIOUS

\* A wrapped integer is an integer.
LEMMA WrapType == \A a \in Int : Wrap(a) \in Int
BY SignedAssumption DEF Wrap

\* Returning to LOOP and remembering a tick keep the registers typed.
LEMMA LoopRegisters ==
    ASSUME NEW c \in CpuRegisters
    PROVE  /\ ToLoop(c) \in CpuRegisters
           /\ \A l \in SeqNumbers : [c EXCEPT !.last = l] \in CpuRegisters
           /\ \A a \in Int : [c EXCEPT !.anchor = a] \in CpuRegisters
           /\ \A l \in SeqNumbers, a \in Int :
                 [c EXCEPT !.last = l, !.anchor = a] \in CpuRegisters
BY CounterRanges DEF CpuRegisters, ToLoop, CpuPcs, Sides

\* Every instruction of trading.asm keeps the registers typed.
LEMMA CpuRegisterTypes ==
    ASSUME MemTypeOK, CpuTypeOK, CpuNext
    PROVE  CpuTypeOK'
<1>1. /\ \A w \in SeqWords : w \in Words /\ mem[w] \in SeqNumbers
      /\ \A w \in Words : mem[w] \in Int
  BY DEF MemTypeOK, Fits, SeqWords, Words, InputWords, OutputWords
<1> USE <1>1, CounterRanges, StoreTables DEF CpuTypeOK, CpuRegisters, At, Load, CpuPcs, SeqWords, Words, InputWords, Sides
<1>2. CASE Start
  BY <1>2 DEF Start
<1>3. CASE InitPosition
  BY <1>3 DEF InitPosition
<1>4. CASE InitFillSeq
  BY <1>4 DEF InitFillSeq
<1>5. CASE InitClear
  BY <1>5, ZenonT(30) DEF InitClear
<1>6. CASE InitVersion
  BY <1>6 DEF InitVersion
<1>7. CASE Mismatch
  BY <1>7 DEF Mismatch, NextBeat, NextCount
<1>8. CASE Heartbeat
  BY <1>8 DEF Heartbeat, NextBeat, NextCount
<1>9. CASE CheckRestart
  BY <1>9, ZenonT(30) DEF CheckRestart
<1>10. CASE AckRestart
  BY <1>10 DEF AckRestart
<1>11. CASE CheckFill
  BY <1>11, ZenonT(30) DEF CheckFill
<1>12. CASE LoadFillSide
  BY <1>12 DEF LoadFillSide
<1>13. CASE LoadFillQty
  <2>1. PICK p \in Int : cpu' = [cpu EXCEPT !.pc = "fill_pos", !.pos = p]
    BY IntSums, <1>13 DEF LoadFillQty
  <2> QED
    BY <2>1
<1>14. CASE PublishPosition
  BY <1>14 DEF PublishPosition
<1>15. CASE CheckTick
  <2>1. \A s \in SeqNumbers : [cpu EXCEPT !.tick = s, !.pc = "bid"] \in CpuRegisters
    OBVIOUS
  <2>2. cpu \in CpuRegisters /\ Load("TICK_SEQ") \in SeqNumbers
    OBVIOUS
  <2> HIDE DEF CpuRegisters
  <2> QED
    BY <1>15, <2>1, <2>2, LoopRegisters DEF CheckTick
<1>16. CASE LoadBid
  BY <1>16 DEF LoadBid
<1>17. CASE LoadAsk
  BY <1>17 DEF LoadAsk
<1>18. CASE Recheck
  <2>1. Sum \in Int /\ cpu \in CpuRegisters /\ cpu.tick \in SeqNumbers
    BY IntSums, WrapType DEF Sum
  <2>2. [cpu EXCEPT !.pc = "thresh", !.last = cpu.tick] \in CpuRegisters
    OBVIOUS
  <2> HIDE DEF CpuRegisters
  <2> QED
    BY <1>18, <2>1, <2>2, LoopRegisters DEF Recheck
<1>19. CASE Evaluate
  <2>1. Sum \in Int /\ cpu \in CpuRegisters
    BY IntSums, WrapType DEF Sum
  <2>2. Decision(cpu.anchor, Sum, Load("CFG_THRESH")) \in Sides
    BY DEF Decision
  <2>3. \A d \in Sides, a \in Int :
          [cpu EXCEPT !.anchor = a, !.side = d, !.pc = "enable"] \in CpuRegisters
    BY ZenonT(30)
  <2> HIDE DEF CpuRegisters
  <2> QED
    BY <1>19, <2>1, <2>2, <2>3, LoopRegisters DEF Evaluate
<1>20. CASE CheckEnable
  BY <1>20, ZenonT(30) DEF CheckEnable
<1>21. CASE CheckLimit
  BY <1>21, ZenonT(30) DEF CheckLimit
<1>22. CASE EmitSignal
  BY <1>22 DEF EmitSignal
<1>23. CASE EmitTick
  BY <1>23 DEF EmitTick
<1>24. CASE EmitStatus
  BY <1>24 DEF EmitStatus
<1>25. CASE EmitSeq
  BY <1>25 DEF EmitSeq, ToLoop
<1>26. CASE RejectStatus
  BY <1>26 DEF RejectStatus
<1>27. CASE CountReject
  BY <1>27 DEF CountReject, ToLoop
<1> QED
  BY <1>2, <1>3, <1>4, <1>5, <1>6, <1>7, <1>8, <1>9, <1>10, <1>11, <1>12, <1>13, <1>14, <1>15, <1>16, <1>17, <1>18, <1>19, <1>20, <1>21, <1>22, <1>23, <1>24, <1>25, <1>26, <1>27
  DEF CpuNext, InitSection, Housekeeping, ReadQuote, Decide, Publish

\* Every store of trading.asm fits the word it goes to.
LEMMA CpuMemoryTypes ==
    ASSUME MemTypeOK, CpuTypeOK, CpuNext
    PROVE  MemTypeOK'
<1> USE RegisterRanges
<1>1. CASE UNCHANGED mem
  BY <1>1 DEF MemTypeOK
<1>2. CASE InitClear
  <2> DEFINE w == InitStores[cpu.i]
  <2>1. w \in OutputWords \ {"HEARTBEAT", "FW_VERSION"}
    BY StoreTables
  <2>2. w \in Words /\ Fits(w, InitValue(w))
    BY <2>1, CounterRanges, WordAssumption
    DEF Fits, InitValue, STATUS_RUNNING, SeqWords, Words, Sides, SIGNAL_NONE
  <2>3. Store(w, InitValue(w))
    BY <1>2 DEF InitClear
  <2> QED
    BY <2>2, <2>3, StoreType
<1>3. CASE InitVersion
  <2>1. "FW_VERSION" \in Words /\ Fits("FW_VERSION", cpu.image)
    BY WordNames DEF Fits, SeqWords, Sides, MemTypeOK
  <2> QED
    BY <1>3, <2>1, StoreType DEF InitVersion
<1>4. CASE Mismatch
  <2>1. "HEARTBEAT" \in Words /\ Fits("HEARTBEAT", NextBeat)
    BY CounterRanges, WordNames DEF Fits, SeqWords, Sides, MemTypeOK, NextBeat
  <2> QED
    BY <1>4, <2>1, StoreType DEF Mismatch
<1>5. CASE Heartbeat
  <2>1. "HEARTBEAT" \in Words /\ Fits("HEARTBEAT", NextBeat)
    BY CounterRanges, WordNames DEF Fits, SeqWords, Sides, MemTypeOK, NextBeat
  <2> QED
    BY <1>5, <2>1, StoreType DEF Heartbeat
<1>6. CASE AckRestart
  <2>1. "CFG_RESTART" \in Words /\ Fits("CFG_RESTART", 0)
    BY WordNames DEF Fits, SeqWords, Sides, MemTypeOK
  <2> QED
    BY <1>6, <2>1, StoreType DEF AckRestart
<1>7. CASE PublishPosition
  <2>1. "POSITION" \in Words /\ Fits("POSITION", cpu.pos)
    BY WordNames DEF Fits, SeqWords, Sides, MemTypeOK
  <2> QED
    BY <1>7, <2>1, StoreType DEF PublishPosition
<1>8. CASE EmitSignal
  <2>1. "SIGNAL" \in Words /\ Fits("SIGNAL", cpu.side)
    BY WordNames
    DEF Fits, SeqWords, Sides, SIGNAL_NONE, SIGNAL_BUY, SIGNAL_SELL
  <2> QED
    BY <1>8, <2>1, StoreType DEF EmitSignal
<1>9. CASE EmitTick
  <2>1. "SIGNAL_TICK" \in Words /\ Fits("SIGNAL_TICK", cpu.last)
    BY CounterRanges, WordNames DEF Fits, SeqWords, Sides, MemTypeOK
  <2> QED
    BY <1>9, <2>1, StoreType DEF EmitTick
<1>10. CASE EmitStatus
  <2>1. "STATUS" \in Words /\ Fits("STATUS", STATUS_RUNNING)
    BY WordNames DEF Fits, SeqWords, Sides, MemTypeOK, STATUS_RUNNING
  <2> QED
    BY <1>10, <2>1, StoreType DEF EmitStatus
<1>11. CASE EmitSeq
  <2>1. "SIGNAL_SEQ" \in Words /\ Fits("SIGNAL_SEQ", Bump(mem["SIGNAL_SEQ"]))
    BY BumpParity, CounterRanges, WordNames DEF Fits, SeqWords, Sides, MemTypeOK, Load
  <2> QED
    BY <1>11, <2>1, StoreType DEF EmitSeq, Load
<1>12. CASE RejectStatus
  <2>1. "STATUS" \in Words /\ Fits("STATUS", cpu.why + STATUS_RUNNING)
    BY WordNames DEF Fits, SeqWords, Sides, MemTypeOK
  <2> QED
    BY <1>12, <2>1, StoreType DEF RejectStatus
<1>13. CASE CountReject
  <2>1. "REJECTS" \in Words /\ Fits("REJECTS", NextCount(mem["REJECTS"]))
    BY CounterRanges, WordNames DEF Fits, SeqWords, Sides, MemTypeOK, Load
  <2> QED
    BY <1>13, <2>1, StoreType DEF CountReject, Load
<1> QED
  BY <1>1, <1>2, <1>3, <1>4, <1>5, <1>6, <1>7, <1>8, <1>9, <1>10, <1>11, <1>12, <1>13
  DEF CpuNext, InitSection, Housekeeping, ReadQuote, Decide, Publish,
      Start, InitPosition, InitFillSeq, CheckRestart, CheckFill, LoadFillSide, LoadFillQty, CheckTick,
      LoadBid, LoadAsk, Recheck, Evaluate, CheckEnable, CheckLimit

\* What the host stores and remembers is of the right kind.
LEMMA HostRanges ==
    /\ NoQuote \in QuoteOrNone /\ NoFill \in FillReports
    /\ \A q \in Quotes : q \in QuoteOrNone
    /\ \A q \in QuoteOrNone : q[1] \in Int /\ q[2] \in Int
    /\ \A s \in {FILL_BOUGHT, FILL_SOLD}, n \in FillQtys : <<s, n>> \in FillReports
    /\ \A f \in FillReports : f[1] \in Int /\ f[2] \in Int
    /\ 0 \in 0 .. MaxWaits - 1
    /\ \A n \in 0 .. MaxWaits - 1 : n + 1 # MaxWaits => n + 1 \in 0 .. MaxWaits - 1
    /\ Thresh \in Int /\ MaxPos \in Int
    /\ SIGNAL_NONE \in Sides /\ 0 \in Int /\ 0 \in Nat
<1>1. NoQuote \in QuoteOrNone /\ \A q \in Quotes : q \in QuoteOrNone
  BY DEF QuoteOrNone
<1>2. \A q \in QuoteOrNone : q[1] \in Int /\ q[2] \in Int
  BY HostAssumption DEF QuoteOrNone, NoQuote
<1>3. FILL_BOUGHT \in Int /\ FILL_SOLD \in Int /\ FillQtys \cup {0} \subseteq Int
  BY HostAssumption DEF FILL_BOUGHT, FILL_SOLD
<1>4. \A s \in {FILL_BOUGHT, FILL_SOLD}, n \in FillQtys \cup {0} :
         <<s, n>> \in FillReports
  BY DEF FillReports
<1>5. NoFill \in FillReports
  BY <1>4 DEF NoFill
<1>6. \A f \in FillReports : f[1] \in Int /\ f[2] \in Int
  BY <1>3 DEF FillReports
<1>7. /\ 0 \in 0 .. MaxWaits - 1
      /\ \A n \in 0 .. MaxWaits - 1 :
            n + 1 # MaxWaits => n + 1 \in 0 .. MaxWaits - 1
      /\ Thresh \in Int /\ MaxPos \in Int
  BY HostAssumption
<1>8. SIGNAL_NONE \in Sides
  BY DEF Sides
<1> QED
  BY <1>1, <1>2, <1>4, <1>5, <1>6, <1>7, <1>8

\* Every store of fmma_fpga.c fits the word it goes to.
LEMMA HostMemoryTypes ==
    ASSUME MemTypeOK, HostTypeOK,
           \/ LoadConfig \/ (\E r \in BOOLEAN : WriteProgram(r))
           \/ ClearVersion \/ AskRestart \/ EnableTrading
           \/ (\E q \in Quotes : PublishBegin(q)) \/ PublishBid \/ PublishAsk
           \/ PublishEnd
           \/ (\E s \in {FILL_BOUGHT, FILL_SOLD}, n \in FillQtys : FillBegin(s, n))
           \/ FillQty \/ FillEnd \/ ActHalted \/ Close
    PROVE  MemTypeOK'
<1>1. /\ host.start \in Int /\ host.quote[1] \in Int /\ host.quote[2] \in Int
      /\ host.fill[2] \in Int
      /\ host.i \in 1 .. Len(LoadStores)
      /\ Bump(host.tickSeq) \in SeqNumbers
      /\ Bump(Bump(host.tickSeq)) \in SeqNumbers
      /\ Bump(host.fillSeq) \in SeqNumbers
      /\ Thresh \in Int /\ MaxPos \in Int
  <2>1. /\ host.start \in Int /\ host.quote \in QuoteOrNone
        /\ host.fill \in FillReports /\ host.i \in 1 .. Len(LoadStores)
        /\ host.tickSeq \in SeqNumbers /\ host.fillSeq \in SeqNumbers
    BY DEF HostTypeOK, HostRecords
  <2> QED
    BY <2>1, HostRanges, BumpParity
<1>2. CASE \/ ClearVersion \/ AskRestart \/ EnableTrading \/ ActHalted \/ Close
  BY <1>2, StoreType, WordNames
  DEF ClearVersion, AskRestart, EnableTrading, ActHalted, Close, Fits, SeqWords
<1>3. CASE LoadConfig
  <2> DEFINE w == LoadStores[host.i]
  <2>1. w \in InputWords \ {"TICK_SEQ", "BID", "ASK", "FILL_SEQ"}
    BY <1>1, StoreTables
  <2>2. w \in Words /\ LoadValue(w) \in Int
    BY <2>1, <1>1 DEF LoadValue, Words
  <2>3. Fits(w, LoadValue(w))
    BY <2>1, <2>2 DEF Fits, SeqWords, InputWords
  <2> QED
    BY <1>3, <2>2, <2>3, StoreType DEF LoadConfig
<1>4. CASE \E r \in BOOLEAN : WriteProgram(r)
  BY <1>4, StoreType, WordNames DEF WriteProgram, Fits, SeqWords, MemTypeOK
<1>5. CASE \/ \E q \in Quotes : PublishBegin(q)
           \/ PublishEnd \/ FillEnd
  <2>1. \A v \in SeqNumbers : Fits("TICK_SEQ", v) /\ Fits("FILL_SEQ", v)
    BY CounterRanges DEF Fits
  <2> QED
    BY <1>5, <1>1, <2>1, StoreType, WordNames
    DEF PublishBegin, PublishEnd, FillEnd
<1>6. CASE PublishBid \/ PublishAsk \/ FillQty
  BY <1>6, <1>1, StoreType, WordNames
  DEF PublishBid, PublishAsk, FillQty, Fits, SeqWords
<1>7. CASE \E s \in {FILL_BOUGHT, FILL_SOLD}, n \in FillQtys : FillBegin(s, n)
  <2>1. \A s \in {FILL_BOUGHT, FILL_SOLD} : Fits("FILL_SIDE", s)
    BY DEF Fits, SeqWords, FILL_BOUGHT, FILL_SOLD
  <2> QED
    BY <1>7, <2>1, StoreType, WordNames DEF FillBegin
<1> QED
  BY <1>2, <1>3, <1>4, <1>5, <1>6, <1>7

\* A new process starts typed.
LEMMA NewHostRecord == NewHost \in HostRecords
BY CounterRanges, StoreTables, HostRanges
DEF NewHost, HostRecords, HostPcs

\* Returning from a call keeps the host typed.
LEMMA ReturnRecords ==
    ASSUME NEW h \in HostRecords
    PROVE  /\ Return(h) \in HostRecords
           /\ \A s \in SeqNumbers :
                 /\ Return([h EXCEPT !.tickSeq = s]) \in HostRecords
                 /\ Return([h EXCEPT !.fillSeq = s]) \in HostRecords
           /\ Return([h EXCEPT !.halted = TRUE]) \in HostRecords
<1>1. /\ "idle" \in HostPcs /\ NoQuote \in QuoteOrNone /\ SIGNAL_NONE \in Sides
      /\ NoFill \in FillReports /\ 0 \in SeqNumbers /\ 0 \in 0 .. CountMod - 1
      /\ 0 \in Nat /\ 0 \in 0 .. MaxWaits - 1
  BY CounterRanges, HostRanges DEF HostPcs, RunPcs
<1>2. \A r \in HostRecords : Return(r) \in HostRecords
  BY <1>1, ZenonT(30) DEF Return, HostRecords
<1>3. \A s \in SeqNumbers : /\ [h EXCEPT !.tickSeq = s] \in HostRecords
                            /\ [h EXCEPT !.fillSeq = s] \in HostRecords
  BY DEF HostRecords
<1>4. [h EXCEPT !.halted = TRUE] \in HostRecords
  BY DEF HostRecords
<1> QED
  BY <1>2, <1>3, <1>4

\* The atomic steps of the host, as HostStep takes them.
HostAccess ==
    \/ \E t \in Int : Launch(t)
    \/ LoadConfig \/ (\E r \in BOOLEAN : WriteProgram(r))
    \/ ClearVersion \/ AskRestart \/ ReadBeat0 \/ Wake \/ ReadVersion
    \/ ReadBeat \/ AdoptSignalSeq \/ AdoptFillSeq \/ AdoptTickSeq
    \/ EnableTrading
    \/ (\E q \in Quotes : PublishBegin(q)) \/ PublishBid \/ PublishAsk
    \/ PublishEnd
    \/ (\E s \in {FILL_BOUGHT, FILL_SOLD}, n \in FillQtys : FillBegin(s, n))
    \/ FillQty \/ FillEnd
    \/ PollBegin \/ PollSide \/ PollTick \/ Act \/ ActHalted
    \/ Close \/ Crash

\* Every access of fmma_fpga.c keeps its structure typed.
LEMMA HostStructTypes ==
    ASSUME MemTypeOK, HostTypeOK, HostAccess
    PROVE  HostTypeOK'
<1>0. /\ mem["SIGNAL_SEQ"] \in SeqNumbers /\ mem["FILL_SEQ"] \in SeqNumbers
      /\ mem["TICK_SEQ"] \in SeqNumbers /\ mem["SIGNAL_TICK"] \in SeqNumbers
      /\ mem["SIGNAL"] \in Sides
      /\ mem["HEARTBEAT"] \in 0 .. CountMod - 1
      /\ mem["FW_VERSION"] \in Nat
  BY DEF MemTypeOK, Fits, Words, InputWords, OutputWords, SeqWords
<1>1. /\ host.i \in 1 .. Len(LoadStores) /\ host.waits \in 0 .. MaxWaits - 1
      /\ host.seq \in SeqNumbers /\ host.sigSeq \in SeqNumbers
      /\ Bump(Bump(host.tickSeq)) \in SeqNumbers
      /\ Bump(host.fillSeq) \in SeqNumbers
  <2>1. /\ host.i \in 1 .. Len(LoadStores) /\ host.waits \in 0 .. MaxWaits - 1
        /\ host.seq \in SeqNumbers /\ host.sigSeq \in SeqNumbers
        /\ host.tickSeq \in SeqNumbers /\ host.fillSeq \in SeqNumbers
    BY DEF HostTypeOK, HostRecords
  <2> QED
    BY <2>1, BumpParity
<1>2. CASE \E t \in Int : Launch(t)
  <2>1. "load" \in HostPcs
    BY DEF HostPcs, LoadPcs, RunPcs
  <2> QED
    BY <1>2, <2>1 DEF Launch, HostTypeOK, HostRecords
<1>3. CASE LoadConfig
  <2>1. "program" \in HostPcs
    BY DEF HostPcs, LoadPcs
  <2>2. 1 \in 1 .. Len(LoadStores)
        /\ (host.i < Len(LoadStores) => host.i + 1 \in 1 .. Len(LoadStores))
    BY <1>1, StoreTables
  <2> QED
    BY <1>3, <2>1, <2>2 DEF LoadConfig, HostTypeOK, HostRecords
<1>4. CASE \E r \in BOOLEAN : WriteProgram(r)
  <2>1. "version0" \in HostPcs /\ "fail" \in HostPcs
    BY DEF HostPcs, LoadPcs
  <2>2. Goto("version0") \/ Goto("fail")
    BY <1>4 DEF WriteProgram
  <2> QED
    BY <2>1, <2>2 DEF Goto, HostTypeOK, HostRecords
<1>5. CASE ClearVersion
  <2>1. "restart1" \in HostPcs
    BY DEF HostPcs, LoadPcs, RunPcs
  <2> QED
    BY <1>5, <2>1 DEF ClearVersion, HostTypeOK, HostRecords, Goto
<1>6. CASE AskRestart
  <2>1. "beat0" \in HostPcs
    BY DEF HostPcs, LoadPcs, RunPcs
  <2> QED
    BY <1>6, <2>1 DEF AskRestart, HostTypeOK, HostRecords, Goto
<1>7. CASE ReadBeat0
  <2>1. "sleep" \in HostPcs
    BY DEF HostPcs, LoadPcs, RunPcs
  <2> QED
    BY <1>7, <2>1, <1>0 DEF ReadBeat0, HostTypeOK, HostRecords
<1>8. CASE Wake
  <2>1. "version" \in HostPcs
    BY DEF HostPcs, LoadPcs, RunPcs
  <2> QED
    BY <1>8, <2>1 DEF Wake, HostTypeOK, HostRecords, Goto
<1>9. CASE ReadVersion
  <2>1. "beat" \in HostPcs
    BY DEF HostPcs, LoadPcs, RunPcs
  <2> QED
    BY <1>9, <2>1, <1>0 DEF ReadVersion, HostTypeOK, HostRecords
<1>10. CASE ReadBeat
  <2>1. {"adopt_sig", "fail", "sleep"} \subseteq HostPcs
    BY DEF HostPcs, LoadPcs
  <2>2. host.waits + 1 # MaxWaits => host.waits + 1 \in 0 .. MaxWaits - 1
    BY <1>1, HostRanges
  <2>3. \/ host' = [host EXCEPT !.pc = "adopt_sig"]
        \/ host' = [host EXCEPT !.pc = "fail"]
        \/ /\ host.waits + 1 \in 0 .. MaxWaits - 1
           /\ host' = [host EXCEPT !.pc = "sleep", !.waits = host.waits + 1]
    BY <1>10, <2>2 DEF ReadBeat
  <2> QED
    BY <2>1, <2>3, ZenonT(30) DEF HostTypeOK, HostRecords
<1>11. CASE AdoptSignalSeq
  <2>1. "adopt_fill" \in HostPcs
    BY DEF HostPcs, LoadPcs, RunPcs
  <2> QED
    BY <1>11, <2>1, <1>0 DEF AdoptSignalSeq, HostTypeOK, HostRecords
<1>12. CASE AdoptFillSeq
  <2>1. "adopt_tick" \in HostPcs
    BY DEF HostPcs, LoadPcs, RunPcs
  <2> QED
    BY <1>12, <2>1, <1>0 DEF AdoptFillSeq, HostTypeOK, HostRecords
<1>13. CASE AdoptTickSeq
  <2>1. "enable" \in HostPcs /\ ClearLowBit(mem["TICK_SEQ"]) \in SeqNumbers
    BY <1>0, CounterRanges DEF HostPcs, LoadPcs
  <2> QED
    BY <1>13, <2>1 DEF AdoptTickSeq, HostTypeOK, HostRecords
<1>14. CASE EnableTrading
  BY <1>14, ReturnRecords DEF EnableTrading, HostTypeOK
<1>15. CASE \E q \in Quotes : PublishBegin(q)
  <2>1. "pub_bid" \in HostPcs /\ \A q \in Quotes : q \in QuoteOrNone
    BY HostRanges DEF HostPcs, RunPcs
  <2> QED
    BY <1>15, <2>1 DEF PublishBegin, HostTypeOK, HostRecords
<1>16. CASE PublishBid
  <2>1. "pub_ask" \in HostPcs
    BY DEF HostPcs, LoadPcs, RunPcs
  <2> QED
    BY <1>16, <2>1 DEF PublishBid, HostTypeOK, HostRecords, Goto
<1>17. CASE PublishAsk
  <2>1. "pub_end" \in HostPcs
    BY DEF HostPcs, LoadPcs, RunPcs
  <2> QED
    BY <1>17, <2>1 DEF PublishAsk, HostTypeOK, HostRecords, Goto
<1>18. CASE PublishEnd
  BY <1>18, ReturnRecords, <1>1 DEF PublishEnd, HostTypeOK
<1>19. CASE \E s \in {FILL_BOUGHT, FILL_SOLD}, n \in FillQtys : FillBegin(s, n)
  <2>1. PICK f \in FillReports : host' = [host EXCEPT !.pc = "fill_qty", !.fill = f]
    BY <1>19, HostRanges DEF FillBegin
  <2>2. "fill_qty" \in HostPcs
    BY DEF HostPcs, RunPcs
  <2> QED
    BY <2>1, <2>2 DEF HostTypeOK, HostRecords
<1>20. CASE FillQty
  <2>1. "fill_seq" \in HostPcs
    BY DEF HostPcs, LoadPcs, RunPcs
  <2> QED
    BY <1>20, <2>1 DEF FillQty, HostTypeOK, HostRecords, Goto
<1>21. CASE FillEnd
  BY <1>21, ReturnRecords, <1>1 DEF FillEnd, HostTypeOK
<1>22. CASE PollBegin
  <2>1. "poll_side" \in HostPcs
    BY DEF HostPcs, LoadPcs, RunPcs
  <2> QED
    BY <1>22, <2>1, <1>0 DEF PollBegin, HostTypeOK, HostRecords
<1>23. CASE PollSide
  <2>1. "poll_tick" \in HostPcs
    BY DEF HostPcs, LoadPcs, RunPcs
  <2> QED
    BY <1>23, <2>1, <1>0 DEF PollSide, HostTypeOK, HostRecords
<1>24. CASE PollTick
  <2>1. "act" \in HostPcs /\ Minus(Minus(host.seq, host.sigSeq), 1) \in SeqNumbers
    BY <1>1, CounterRanges DEF HostPcs, RunPcs
  <2> QED
    BY <1>24, <1>0, <2>1 DEF PollTick, HostTypeOK, HostRecords
<1>25. CASE Act
  BY <1>25, ReturnRecords DEF Act, HostTypeOK
<1>26. CASE ActHalted
  BY <1>26, ReturnRecords DEF ActHalted, HostTypeOK
<1>27. CASE Close \/ Crash
  BY <1>27, NewHostRecord DEF Close, Crash, HostTypeOK
<1> QED
  BY <1>2, <1>3, <1>4, <1>5, <1>6, <1>7, <1>8, <1>9, <1>10, <1>11, <1>12, <1>13, <1>14, <1>15, <1>16, <1>17, <1>18, <1>19, <1>20, <1>21, <1>22, <1>23, <1>24, <1>25, <1>26, <1>27
  DEF HostAccess

\* The initial states are typed.
LEMMA InitTypes == Init => FabricTypeOK
<1> SUFFICES ASSUME Init PROVE FabricTypeOK
  OBVIOUS
<1>1. MemTypeOK
  BY CounterRanges DEF Init, RamInit, MemTypeOK, Fits, Sides, SIGNAL_NONE
<1>2. CpuTypeOK
  <2>1. "halt" \in CpuPcs /\ SIGNAL_NONE \in Sides
    BY DEF CpuPcs, Sides
  <2> QED
    BY <2>1, CounterRanges, StoreTables
    DEF Init, CpuInit, CpuTypeOK, CpuRegisters
<1>3. HostTypeOK
  BY NewHostRecord DEF Init, HostInit, HostTypeOK
<1>4. board \in QuoteOrNone /\ taken \in Int \X Int
  BY DEF Init, QuoteOrNone, NoQuote
<1>5. obs \in ObsRecords
  <2>1. <<SIGNAL_NONE, 0>> \in Decisions /\ 0 \in LapCounts
    BY CounterRanges, BoundsAssumption DEF Sides, Decisions, LapCounts
  <2> QED
    BY <2>1 DEF Init, ObsInit, ObsRecords
<1> QED
  BY <1>1, <1>2, <1>3, <1>4, <1>5 DEF FabricTypeOK

\* A step of the CPU, with its observers, preserves the type invariant.
LEMMA CpuStepTypes ==
    ASSUME FabricTypeOK, CpuStep
    PROVE  FabricTypeOK'
<1>1. MemTypeOK' /\ CpuTypeOK'
  BY CpuRegisterTypes, CpuMemoryTypes DEF FabricTypeOK, CpuStep
<1>2. HostTypeOK' /\ board' \in QuoteOrNone
  BY DEF FabricTypeOK, CpuStep, HostTypeOK
<1>3. taken' \in Int \X Int
  <2>1. cpu.bid \in Int /\ cpu.ask \in Int
    BY DEF FabricTypeOK, CpuTypeOK, CpuRegisters
  <2> QED
    BY <2>1 DEF FabricTypeOK, CpuStep, ObserveCpu, NoQuote
<1>4. obs' \in ObsRecords
  <2>1. <<cpu.side, cpu.last>> \in Decisions
    BY DEF FabricTypeOK, CpuTypeOK, CpuRegisters, Decisions
  <2>2. /\ obs.lag \in Nat /\ obs.late \in Nat /\ obs.orphan \in Nat
        /\ obs.laps \in LapCounts /\ obs.ann \in Decisions
        /\ obs \in ObsRecords
    BY DEF FabricTypeOK, ObsRecords
  <2>3. \E p \in LapCounts, g, t, o \in Nat, a \in Decisions :
           obs' = [obs EXCEPT !.laps = p, !.lag = g, !.ann = a, !.late = t,
                              !.orphan = o]
    <3> DEFINE p == IF Beats /\ In("sleep") /\ obs.laps < SleepLaps
                    THEN obs.laps + 1 ELSE obs.laps
               g == IF At("signal_seq") THEN obs.lag + 1 ELSE obs.lag
               a == IF At("signal_seq") THEN <<cpu.side, cpu.last>> ELSE obs.ann
               t == IF At("signal_seq") /\ mem["CFG_ENABLE"] = 0
                    THEN obs.late + 1 ELSE obs.late
               o == IF At("signal_seq") /\ In("down")
                    THEN obs.orphan + 1 ELSE obs.orphan
    <3>1. p \in LapCounts
      BY <2>2, BoundsAssumption DEF LapCounts
    <3>2. g \in Nat /\ t \in Nat /\ o \in Nat
      BY <2>2
    <3>3. a \in Decisions
      BY <2>1, <2>2
    <3>4. obs' = [obs EXCEPT !.laps = p, !.lag = g, !.ann = a, !.late = t,
                             !.orphan = o]
      BY Zenon DEF CpuStep, ObserveCpu
    <3> HIDE DEF p, g, a, t, o
    <3> QED
      BY <3>1, <3>2, <3>3, <3>4
  <2>4. PICK p \in LapCounts, g \in Nat, t \in Nat, o \in Nat,
             a \in Decisions :
             obs' = [obs EXCEPT !.laps = p, !.lag = g, !.ann = a, !.late = t,
                                !.orphan = o]
    BY <2>3
  <2> QED
    BY <2>2, <2>4 DEF ObsRecords
<1> QED
  BY <1>1, <1>2, <1>3, <1>4 DEF FabricTypeOK

\* So does KEY[0].
LEMMA ResetTypes ==
    ASSUME FabricTypeOK, PressKey0
    PROVE  FabricTypeOK'
<1>1. CpuTypeOK'
  <2>1. "halt" \in CpuPcs /\ SIGNAL_NONE \in Sides
    BY DEF CpuPcs, Sides
  <2> QED
    BY <2>1, CounterRanges, StoreTables
    DEF FabricTypeOK, PressKey0, CpuReset, CpuTypeOK, CpuRegisters
<1>2. MemTypeOK' /\ HostTypeOK' /\ board' \in QuoteOrNone
  BY DEF FabricTypeOK, PressKey0, CpuReset, MemTypeOK, HostTypeOK
<1>3. taken' \in Int \X Int
  BY DEF PressKey0, NoQuote
<1>4. obs' \in ObsRecords
  <2>1. obs \in ObsRecords /\ obs.resets \in Nat
    BY DEF FabricTypeOK, ObsRecords
  <2>2. obs.resets + 1 \in Nat
    BY <2>1
  <2>3. obs' = [obs EXCEPT !.resets = obs.resets + 1]
    BY DEF PressKey0
  <2> QED
    BY <2>1, <2>2, <2>3 DEF ObsRecords
<1> QED
  BY <1>1, <1>2, <1>3, <1>4 DEF FabricTypeOK

\* So does every step of the host.
LEMMA HostStepTypes ==
    ASSUME FabricTypeOK, HostStep
    PROVE  FabricTypeOK'
<1>1. /\ obs.truth \in Int /\ obs.lag \in Nat /\ obs.late \in Nat
      /\ obs.orphan \in Nat /\ obs.ann \in Decisions /\ obs.laps \in LapCounts
      /\ 0 \in LapCounts /\ obs.sessions + 1 \in Nat
  <2>1. /\ obs.truth \in Int /\ obs.lag \in Nat /\ obs.late \in Nat
        /\ obs.orphan \in Nat /\ obs.ann \in Decisions
        /\ obs.laps \in LapCounts /\ obs.sessions \in Nat
    BY DEF FabricTypeOK, ObsRecords
  <2> QED
    BY <2>1, BoundsAssumption DEF LapCounts
<1>2. HostAccess
  BY <1>1 DEF HostStep, HostProgress, HostLaunch, HostLoad, HostPublish, HostFill,
     HostFillRest, HostPoll, HostPollRest, HostHalt, HostClose, HostCrash,
     HostAccess
<1>3. MemTypeOK /\ HostTypeOK
  BY DEF FabricTypeOK
<1>4. HostTypeOK'
  BY <1>2, <1>3, HostStructTypes
<1>5. MemTypeOK'
  <2>1. UNCHANGED mem => MemTypeOK'
    BY <1>3 DEF MemTypeOK
  <2> QED
    BY <1>2, <1>3, <2>1, HostMemoryTypes
    DEF HostAccess, Launch, ReadBeat0, Wake, ReadVersion, ReadBeat,
        AdoptSignalSeq, AdoptFillSeq, AdoptTickSeq, PollBegin, PollSide,
        PollTick, Act, Crash
<1>6. CpuTypeOK' /\ taken' \in Int \X Int
  BY DEF FabricTypeOK, CpuTypeOK, HostStep, HostProgress, HostLaunch, HostLoad,
     HostPublish, HostFill, HostFillRest, HostPoll, HostPollRest, HostHalt,
     HostClose, HostCrash
<1>7. board' \in QuoteOrNone
  <2>1. host.quote \in QuoteOrNone
    BY <1>3 DEF HostTypeOK, HostRecords
  <2> QED
    BY <2>1 DEF FabricTypeOK, HostStep, HostProgress, HostLaunch, HostLoad,
       HostPublish, HostFill, HostFillRest, HostPoll, HostPollRest, HostHalt,
       HostClose, HostCrash
<1>8. obs' \in ObsRecords
  <2> USE <1>1
  <2>0. obs \in ObsRecords
    BY DEF FabricTypeOK
  <2>1. CASE HostLaunch
    BY <2>0, <2>1 DEF HostLaunch, ObsRecords
  <2>2. CASE HostLoad
    <3>1. \E p \in LapCounts, g, t, o \in Nat :
             obs' = [obs EXCEPT !.laps = p, !.lag = g, !.late = t, !.orphan = o]
      <4> DEFINE p == IF In("sleep") THEN obs.laps ELSE 0
                 g == IF In("adopt_sig") THEN 0 ELSE obs.lag
                 t == IF In("enable") THEN 0 ELSE obs.late
                 o == IF In("enable") THEN 0 ELSE obs.orphan
      <4>1. p \in LapCounts /\ g \in Nat /\ t \in Nat /\ o \in Nat
        OBVIOUS
      <4>2. obs' = [obs EXCEPT !.laps = p, !.lag = g, !.late = t, !.orphan = o]
        BY <2>2, Zenon DEF HostLoad
      <4> HIDE DEF p, g, t, o
      <4> QED
        BY <4>1, <4>2
    <3> QED
      BY <2>0, <3>1 DEF ObsRecords
  <2>3. CASE HostPublish
    BY <2>0, <2>3 DEF HostPublish
  <2>4. CASE HostFill
    <3>1. PICK s \in {FILL_BOUGHT, FILL_SOLD}, n \in FillQtys :
             obs' = [obs EXCEPT !.truth = obs.truth + Signed(s, n)]
      BY <2>4 DEF HostFill
    <3>2. obs.truth + Signed(s, n) \in Int
      BY HostAssumption DEF Signed
    <3> HIDE DEF Signed
    <3> QED
      BY <2>0, <3>1, <3>2 DEF ObsRecords
  <2>5. CASE HostPoll
    BY <2>0, <2>5 DEF HostPoll, ObsRecords
  <2>6. CASE HostHalt \/ HostClose \/ HostCrash
    <3>1. \E t, o \in Nat : \/ obs' = [obs EXCEPT !.late = t]
                            \/ obs' = [obs EXCEPT !.late = t, !.orphan = o]
                            \/ obs' = [obs EXCEPT !.orphan = o]
      <4> DEFINE t == IF mem["CFG_ENABLE"] = 0 THEN obs.late ELSE 0
      <4>1. t \in Nat /\ 0 \in Nat
        OBVIOUS
      <4>2. \/ obs' = [obs EXCEPT !.late = t]
            \/ obs' = [obs EXCEPT !.late = t, !.orphan = 0]
            \/ obs' = [obs EXCEPT !.orphan = 0]
        BY <2>6, Zenon DEF HostHalt, HostClose, HostCrash
      <4> HIDE DEF t
      <4> QED
        BY <4>1, <4>2
    <3> QED
      BY <2>0, <3>1 DEF ObsRecords
  <2>7. CASE HostFillRest \/ HostPollRest
    BY <2>0, <2>7 DEF HostFillRest, HostPollRest
  <2> QED
    BY <2>1, <2>2, <2>3, <2>4, <2>5, <2>6, <2>7 DEF HostStep, HostProgress
<1> QED
  BY <1>4, <1>5, <1>6, <1>7, <1>8 DEF FabricTypeOK

\* Type correctness, for every word width, quote set and bound.
THEOREM TypeCorrect == Spec => []FabricTypeOK
<1>1. FabricTypeOK /\ [Next]_vars => FabricTypeOK'
  <2>1. ASSUME FabricTypeOK, UNCHANGED vars PROVE FabricTypeOK'
    BY <2>1 DEF vars, FabricTypeOK, MemTypeOK, CpuTypeOK, HostTypeOK
  <2> QED
    BY <2>1, CpuStepTypes, HostStepTypes, ResetTypes DEF Next
<1> QED
  BY <1>1, InitTypes, PTL DEF Spec
=============================================================================
