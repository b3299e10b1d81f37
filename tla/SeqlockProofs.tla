--------------------------- MODULE SeqlockProofs ---------------------------
(***************************************************************************)
(* SeqlockInv is an invariant of Fabric, and with it the market-data block *)
(* implements the board of QuoteBoard, for every word width, every set of  *)
(* quotes and any number of host processes, crashes and resets.            *)
(***************************************************************************)
EXTENDS FabricProofs

MarketWords == {"TICK_SEQ", "BID", "ASK"}

\* A store to any other word leaves the market data alone.
LEMMA OtherStores ==
    ASSUME MemTypeOK, NEW w, w \notin MarketWords, NEW v, Store(w, v)
    PROVE  \A m \in MarketWords : mem'[m] = mem[m]
BY DEF MemTypeOK, Store, MarketWords, Words, InputWords, OutputWords

\* The CPU writes no word of the market data.
LEMMA CpuLeavesMarket ==
    ASSUME FabricTypeOK, CpuNext
    PROVE  \A m \in MarketWords : mem'[m] = mem[m]
<1>1. MemTypeOK /\ cpu.i \in 1 .. Len(InitStores)
  BY RegisterRanges DEF FabricTypeOK
<1>2. CASE UNCHANGED mem
  BY <1>2
<1>3. CASE InitClear
  <2>1. InitStores[cpu.i] \notin MarketWords
    BY <1>1, StoreTables DEF MarketWords, OutputWords
  <2> QED
    BY <1>1, <1>3, <2>1, OtherStores DEF InitClear
<1>4. CASE InitVersion \/ Mismatch \/ Heartbeat \/ AckRestart \/ PublishPosition
  BY <1>1, <1>4, OtherStores
  DEF InitVersion, Mismatch, Heartbeat, AckRestart, PublishPosition, MarketWords
<1>5. CASE Publish
  BY <1>1, <1>5, OtherStores
  DEF Publish, EmitSignal, EmitTick, EmitStatus, EmitSeq, RejectStatus,
      CountReject, MarketWords
<1> QED
  BY <1>2, <1>3, <1>4, <1>5
  DEF CpuNext, InitSection, Housekeeping, ReadQuote, Decide,
      Start, InitPosition, InitFillSeq, CheckRestart, CheckFill, LoadFillSide,
      LoadFillQty, CheckTick, LoadBid, LoadAsk, Recheck, Evaluate, CheckEnable,
      CheckLimit

\* How a CPU step moves through the window between its two reads of TICK_SEQ.
ReadProgress ==
    \/ cpu'.pc \notin ReadWindow
    \/ /\ cpu'.pc = "bid" /\ cpu'.tick = mem["TICK_SEQ"]
       /\ mem["TICK_SEQ"] % 2 # 1
    \/ /\ cpu.pc = "bid" /\ cpu'.pc = "ask" /\ cpu'.tick = cpu.tick
       /\ cpu'.bid = mem["BID"]
    \/ /\ cpu.pc = "ask" /\ cpu'.pc = "again" /\ cpu'.tick = cpu.tick
       /\ cpu'.bid = cpu.bid /\ cpu'.ask = mem["ASK"]

\* What a step of the CPU does to the quote it is reading.
LEMMA CpuReadProgress ==
    ASSUME FabricTypeOK, CpuNext
    PROVE  ReadProgress
<1>1. cpu \in CpuRegisters
  BY DEF FabricTypeOK, CpuTypeOK
<1>2. CASE CheckTick
  <2>1. ToLoop(cpu).pc = "loop"
    BY <1>1 DEF ToLoop, CpuRegisters
  <2>2. CASE cpu' = ToLoop(cpu)
    BY <2>1, <2>2 DEF ReadProgress, ReadWindow
  <2>3. CASE /\ mem["TICK_SEQ"] % 2 # 1
             /\ cpu' = [cpu EXCEPT !.tick = mem["TICK_SEQ"], !.pc = "bid"]
    BY <1>1, <2>3 DEF ReadProgress, CpuRegisters
  <2> QED
    BY <1>2, <2>2, <2>3 DEF CheckTick, Load
<1>3. CASE LoadBid
  BY <1>1, <1>3 DEF LoadBid, At, Load, ReadProgress, CpuRegisters
<1>4. CASE LoadAsk
  BY <1>1, <1>4 DEF LoadAsk, At, Load, ReadProgress, CpuRegisters
<1>5. CASE Recheck
  <2>1. \A c \in CpuRegisters : ToLoop(c).pc = "loop"
    BY DEF ToLoop, CpuRegisters
  <2>2. /\ cpu.tick \in SeqNumbers /\ Sum \in Int
        /\ [cpu EXCEPT !.pc = "thresh", !.last = cpu.tick].pc = "thresh"
    BY <1>1, IntSums, WrapType DEF CpuRegisters, Sum
  <2> HIDE DEF Sum
  <2>3. cpu'.pc \in {"loop", "thresh"}
    BY <1>1, <1>5, <2>1, <2>2, LoopRegisters DEF Recheck
  <2> QED
    BY <2>3 DEF ReadProgress, ReadWindow
<1>6. CASE Evaluate
  <2>1. \A c \in CpuRegisters : ToLoop(c).pc = "loop"
    BY DEF ToLoop, CpuRegisters
  <2>2. Sum \in Int
    BY <1>1, IntSums, WrapType DEF CpuRegisters, Sum
  <2> HIDE DEF Sum
  <2>3. \A d : [cpu EXCEPT !.anchor = Sum, !.side = d, !.pc = "enable"].pc = "enable"
    BY <1>1 DEF CpuRegisters
  <2>4. cpu'.pc \in {"loop", "enable"}
    BY <1>1, <1>6, <2>1, <2>2, <2>3, LoopRegisters DEF Evaluate
  <2> QED
    BY <2>4 DEF ReadProgress, ReadWindow
<1>7. CASE CheckEnable \/ CheckLimit
  BY <1>1, <1>7
  DEF CheckEnable, CheckLimit, ReadProgress, ReadWindow, CpuRegisters
<1>8. CASE InitSection
  BY <1>1, <1>8
  DEF InitSection, Start, InitPosition, InitFillSeq, InitClear, InitVersion,
      Mismatch, At, ReadProgress, ReadWindow, CpuRegisters
<1>9. CASE Housekeeping
  <2>1. CASE Heartbeat \/ CheckRestart \/ AckRestart \/ LoadFillSide
               \/ PublishPosition
    BY <1>1, <2>1
    DEF Heartbeat, CheckRestart, AckRestart, LoadFillSide, PublishPosition,
        ReadProgress, ReadWindow, CpuRegisters
  <2>2. CASE CheckFill
    BY <1>1, <2>2 DEF CheckFill, ReadProgress, ReadWindow, CpuRegisters
  <2>3. CASE LoadFillQty
    <3>1. cpu'.pc = "fill_pos"
      BY <1>1, <2>3 DEF LoadFillQty, CpuRegisters
    <3> QED
      BY <3>1 DEF ReadProgress, ReadWindow
  <2> QED
    BY <1>9, <2>1, <2>2, <2>3 DEF Housekeeping
<1>10. CASE Publish
  <2>1. CASE EmitSeq \/ CountReject
    <3>1. ToLoop(cpu).pc = "loop"
      BY <1>1 DEF ToLoop, CpuRegisters
    <3> QED
      BY <2>1, <3>1 DEF EmitSeq, CountReject, ReadProgress, ReadWindow
  <2>2. CASE EmitSignal \/ EmitTick \/ EmitStatus \/ RejectStatus
    BY <1>1, <2>2
    DEF EmitSignal, EmitTick, EmitStatus, RejectStatus, ReadProgress,
        ReadWindow, CpuRegisters
  <2> QED
    BY <1>10, <2>1, <2>2 DEF Publish
<1> QED
  BY <1>2, <1>3, <1>4, <1>5, <1>6, <1>7, <1>8, <1>9, <1>10
  DEF CpuNext, ReadQuote, Decide

\* The CPU preserves the invariant.
LEMMA SeqlockCpu ==
    ASSUME FabricTypeOK, SeqlockInv, CpuStep
    PROVE  SeqlockInv'
<1>1. /\ mem'["TICK_SEQ"] = mem["TICK_SEQ"] /\ mem'["BID"] = mem["BID"]
      /\ mem'["ASK"] = mem["ASK"]
  BY CpuLeavesMarket DEF CpuStep, MarketWords
<1>2. host' = host /\ board' = board
  BY DEF CpuStep
<1>3. ReadProgress
  BY CpuReadProgress DEF CpuStep
<1>4. mem["TICK_SEQ"] % 2 \in {0, 1} /\ host.tickSeq \in SeqNumbers
  BY BumpParity
  DEF FabricTypeOK, MemTypeOK, Fits, SeqWords, Words, InputWords, HostTypeOK,
      HostRecords
<1>5. /\ host.tickSeq % 2 = 0
      /\ mem["TICK_SEQ"] % 2 = 0 => board = <<mem["BID"], mem["ASK"]>>
      /\ host.pc \in Publishing => /\ mem["TICK_SEQ"] = Bump(host.tickSeq)
                                   /\ host.quote \in Quotes
      /\ host.pc = "pub_ask" => mem["BID"] = host.quote[1]
      /\ host.pc = "pub_end" => host.quote = <<mem["BID"], mem["ASK"]>>
  BY DEF SeqlockInv, In
<1>6. host.pc \in Publishing => TickPaced'
  <2>1. host.pc \in Publishing => mem["TICK_SEQ"] % 2 = 1
    BY <1>4, <1>5, BumpParity
  <2> QED
    BY <1>2, <1>3, <2>1 DEF SeqlockInv, TickPaced, ReadProgress, ReadWindow
<1>7. /\ cpu'.pc \in ReadWindow => cpu'.tick % 2 = 0
      /\ cpu'.pc \in ReadWindow /\ mem["TICK_SEQ"] = cpu'.tick =>
            /\ ~At("bid")' => cpu'.bid = mem["BID"]
            /\ At("again")' => cpu'.ask = mem["ASK"]
  BY <1>3, <1>4 DEF SeqlockInv, ReadProgress, ReadWindow, At
<1> QED
  BY <1>1, <1>2, <1>5, <1>6, <1>7 DEF SeqlockInv, In, At

\* A host step outside the publication leaves the market data alone, neither
\* enters nor is inside publish_tick, and keeps the shadow number even.
HostElsewhere ==
    /\ \A m \in MarketWords : mem'[m] = mem[m]
    /\ host'.pc \notin Publishing
    /\ host'.tickSeq % 2 = 0
    /\ UNCHANGED <<cpu, board>>

\* Outside publish_tick the host leaves the market data alone.
LEMMA HostOutside ==
    ASSUME FabricTypeOK, SeqlockInv, HostStep, ~HostPublish
    PROVE  HostElsewhere
<1>1. /\ MemTypeOK /\ HostTypeOK /\ host \in HostRecords
      /\ host.tickSeq % 2 = 0 /\ host.i \in 1 .. Len(LoadStores)
  BY DEF FabricTypeOK, SeqlockInv, HostTypeOK, HostRecords
<1>2. UNCHANGED <<cpu, board>>
  BY DEF HostStep, HostProgress, HostLaunch, HostLoad, HostFill, HostFillRest,
     HostPoll, HostPollRest, HostHalt, HostClose, HostCrash
<1>3. \A h \in HostRecords : Return(h).pc = "idle" /\ Return(h).tickSeq = h.tickSeq
  BY DEF Return, HostRecords
<1>4. NewHost.pc = "down" /\ NewHost.tickSeq % 2 = 0
  BY DEF NewHost
<1>5. ASSUME UNCHANGED mem
      PROVE  \A m \in MarketWords : mem'[m] = mem[m]
  BY <1>5
<1> USE DEF MarketWords, Publishing
<1>6. CASE HostLaunch
  BY <1>1, <1>2, <1>5, <1>6 DEF HostLaunch, Launch, HostElsewhere, HostRecords
<1>7. CASE HostLoad
  <2>1. CASE LoadConfig
    <3>1. LoadStores[host.i] \notin MarketWords
      BY <1>1, StoreTables DEF InputWords
    <3>2. \A m \in MarketWords : mem'[m] = mem[m]
      BY <1>1, <2>1, <3>1, OtherStores DEF LoadConfig
    <3>3. host'.pc \notin Publishing /\ host'.tickSeq = host.tickSeq
      BY <1>1, <2>1 DEF LoadConfig, In, HostRecords
    <3> QED
      BY <1>1, <1>2, <3>2, <3>3 DEF HostElsewhere
  <2>2. CASE WriteProgram(cpu.fabric # "absent")
    <3>1. \A m \in MarketWords : mem'[m] = mem[m]
      BY <1>1, <1>5, <2>2, OtherStores DEF WriteProgram
    <3>2. host'.pc \notin Publishing /\ host'.tickSeq = host.tickSeq
      BY <1>1, <2>2 DEF WriteProgram, Goto, HostRecords
    <3> QED
      BY <1>1, <1>2, <3>1, <3>2 DEF HostElsewhere
  <2>3. CASE ClearVersion \/ AskRestart
    <3>1. \A m \in MarketWords : mem'[m] = mem[m]
      BY <1>1, <2>3, OtherStores DEF ClearVersion, AskRestart
    <3>2. host'.pc \notin Publishing /\ host'.tickSeq = host.tickSeq
      BY <1>1, <2>3 DEF ClearVersion, AskRestart, Goto, HostRecords
    <3> QED
      BY <1>1, <1>2, <3>1, <3>2 DEF HostElsewhere
  <2>4. CASE ReadBeat0 \/ Wake \/ ReadVersion \/ AdoptSignalSeq \/ AdoptFillSeq
    BY <1>1, <1>2, <1>5, <2>4
    DEF ReadBeat0, Wake, ReadVersion, AdoptSignalSeq, AdoptFillSeq, Goto,
        HostElsewhere, HostRecords
  <2>5. CASE ReadBeat
    <3>1. host'.pc \notin Publishing /\ host'.tickSeq = host.tickSeq
      BY <1>1, <2>5 DEF ReadBeat, HostRecords
    <3> QED
      BY <1>1, <1>2, <1>5, <2>5, <3>1 DEF ReadBeat, HostElsewhere
  <2>6. CASE AdoptTickSeq
    <3>1. mem["TICK_SEQ"] \in SeqNumbers
      BY <1>1 DEF MemTypeOK, Fits, SeqWords, Words, InputWords
    <3>2. ClearLowBit(mem["TICK_SEQ"]) % 2 = 0
      BY <3>1, WordAssumption DEF ClearLowBit, SeqNumbers
    <3>3. host'.pc = "enable" /\ host'.tickSeq = ClearLowBit(mem["TICK_SEQ"])
      BY <1>1, <2>6 DEF AdoptTickSeq, HostRecords
    <3> QED
      BY <1>2, <1>5, <2>6, <3>2, <3>3 DEF AdoptTickSeq, HostElsewhere
  <2>7. CASE EnableTrading
    <3>1. \A m \in MarketWords : mem'[m] = mem[m]
      BY <1>1, <2>7, OtherStores DEF EnableTrading
    <3> QED
      BY <1>1, <1>2, <1>3, <2>7, <3>1 DEF EnableTrading, HostElsewhere
  <2> QED
    BY <1>7, <2>1, <2>2, <2>3, <2>4, <2>5, <2>6, <2>7 DEF HostLoad
<1>8. CASE HostFill
  <2>1. PICK s \in {FILL_BOUGHT, FILL_SOLD}, n \in FillQtys : FillBegin(s, n)
    BY <1>8 DEF HostFill
  <2>2. \A m \in MarketWords : mem'[m] = mem[m]
    BY <1>1, <2>1, OtherStores DEF FillBegin
  <2> QED
    BY <1>1, <1>2, <2>1, <2>2 DEF FillBegin, HostElsewhere, HostRecords
<1>9. CASE HostFillRest
  <2>1. \A m \in MarketWords : mem'[m] = mem[m]
    BY <1>1, <1>9, OtherStores DEF HostFillRest, FillQty, FillEnd
  <2>2. CASE FillQty
    BY <1>1, <1>2, <2>1, <2>2 DEF FillQty, Goto, HostElsewhere, HostRecords
  <2>3. CASE FillEnd
    <3> DEFINE h == [host EXCEPT !.fillSeq = Bump(host.fillSeq)]
    <3>1. h \in HostRecords /\ h.tickSeq = host.tickSeq
      BY <1>1, BumpParity DEF HostRecords
    <3>2. host' = Return(h)
      BY <2>3 DEF FillEnd
    <3> HIDE DEF h
    <3> QED
      BY <1>1, <1>2, <1>3, <2>1, <3>1, <3>2 DEF HostElsewhere
  <2> QED
    BY <1>9, <2>2, <2>3 DEF HostFillRest
<1>10. CASE HostPoll \/ HostPollRest
  <2>1. CASE PollBegin \/ PollSide \/ PollTick
    BY <1>1, <1>2, <1>5, <2>1
    DEF PollBegin, PollSide, PollTick, HostElsewhere, HostRecords
  <2>2. CASE Act
    BY <1>1, <1>2, <1>3, <1>5, <2>2 DEF Act, HostElsewhere
  <2> QED
    BY <1>10, <2>1, <2>2 DEF HostPoll, HostPollRest
<1>11. CASE HostHalt
  <2> DEFINE h == [host EXCEPT !.halted = TRUE]
  <2>1. h \in HostRecords /\ h.tickSeq = host.tickSeq
    BY <1>1 DEF HostRecords
  <2>2. host' = Return(h)
    BY <1>11 DEF HostHalt, ActHalted
  <2>3. \A m \in MarketWords : mem'[m] = mem[m]
    BY <1>1, <1>11, OtherStores DEF HostHalt, ActHalted
  <2> HIDE DEF h
  <2> QED
    BY <1>1, <1>2, <1>3, <2>1, <2>2, <2>3 DEF HostElsewhere
<1>12. CASE HostClose \/ HostCrash
  <2>1. \A m \in MarketWords : mem'[m] = mem[m]
    BY <1>1, <1>5, <1>12, OtherStores DEF HostClose, Close, HostCrash, Crash
  <2>2. host' = NewHost
    BY <1>12 DEF HostClose, Close, HostCrash, Crash
  <2> QED
    BY <1>2, <1>4, <2>1, <2>2 DEF HostElsewhere
<1> QED
  BY <1>6, <1>7, <1>8, <1>9, <1>10, <1>11, <1>12 DEF HostStep, HostProgress

\* Such steps preserve the invariant.
LEMMA SeqlockOutside ==
    ASSUME FabricTypeOK, SeqlockInv, HostElsewhere
    PROVE  SeqlockInv'
<1>1. /\ mem'["TICK_SEQ"] = mem["TICK_SEQ"] /\ mem'["BID"] = mem["BID"]
      /\ mem'["ASK"] = mem["ASK"] /\ cpu' = cpu /\ board' = board
      /\ host'.tickSeq % 2 = 0 /\ host'.pc \notin Publishing
  BY DEF HostElsewhere, MarketWords
<1> QED
  BY <1>1 DEF SeqlockInv, In, At, Publishing

\* The four stores of publish_tick.
LEMMA SeqlockPublish ==
    ASSUME FabricTypeOK, SeqlockInv, HostPublish
    PROVE  SeqlockInv'
<1>1. /\ mem \in [Words -> Int] /\ host \in HostRecords
      /\ {"TICK_SEQ", "BID", "ASK"} \subseteq Words
  BY WordNames DEF FabricTypeOK, MemTypeOK, HostTypeOK
<1>2. cpu' = cpu
  BY DEF HostPublish
<1>3. /\ host.tickSeq \in SeqNumbers /\ host.tickSeq % 2 = 0
      /\ Bump(host.tickSeq) \in SeqNumbers /\ Bump(host.tickSeq) % 2 = 1
      /\ Bump(Bump(host.tickSeq)) % 2 = 0
  <2>1. host.tickSeq \in SeqNumbers /\ host.tickSeq % 2 = 0
    BY <1>1 DEF HostRecords, SeqlockInv
  <2>2. Bump(host.tickSeq) \in SeqNumbers /\ Bump(host.tickSeq) % 2 = 1
    BY <2>1, BumpParity
  <2> QED
    BY <2>1, <2>2, BumpParity
<1>4. cpu.pc \in ReadWindow => cpu.tick % 2 = 0
  BY DEF SeqlockInv
<1>5. CASE TickPaced /\ \E q \in Quotes : PublishBegin(q)
  <2>1. PICK q \in Quotes : PublishBegin(q)
    BY <1>5
  <2>2. /\ mem'["TICK_SEQ"] = Bump(host.tickSeq)
        /\ host'.pc = "pub_bid" /\ host'.quote = q
        /\ host'.tickSeq = host.tickSeq
    BY <1>1, <2>1 DEF PublishBegin, Store, HostRecords
  <2>3. TickPaced'
    BY <1>2, <1>5, <2>2 DEF TickPaced
  <2> QED
    BY <1>2, <1>3, <1>4, <2>2, <2>3 DEF SeqlockInv, In, Publishing
<1>6. CASE PublishBid
  <2>1. /\ mem'["TICK_SEQ"] = mem["TICK_SEQ"]
        /\ mem'["BID"] = host.quote[1]
        /\ host'.pc = "pub_ask" /\ host'.quote = host.quote
        /\ host'.tickSeq = host.tickSeq
        /\ host.pc = "pub_bid"
    BY <1>1, <1>6 DEF PublishBid, Store, Goto, In, HostRecords
  <2>2. mem["TICK_SEQ"] = Bump(host.tickSeq) /\ host.quote \in Quotes /\ TickPaced
    BY <2>1 DEF SeqlockInv, Publishing
  <2>3. TickPaced'
    BY <1>2, <2>1, <2>2 DEF TickPaced
  <2> QED
    BY <1>2, <1>3, <1>4, <2>1, <2>2, <2>3 DEF SeqlockInv, In, Publishing
<1>7. CASE PublishAsk
  <2>1. /\ mem'["TICK_SEQ"] = mem["TICK_SEQ"]
        /\ mem'["BID"] = mem["BID"] /\ mem'["ASK"] = host.quote[2]
        /\ host'.pc = "pub_end" /\ host'.quote = host.quote
        /\ host'.tickSeq = host.tickSeq
        /\ host.pc = "pub_ask"
    BY <1>1, <1>7 DEF PublishAsk, Store, Goto, In, HostRecords
  <2>2. /\ mem["TICK_SEQ"] = Bump(host.tickSeq) /\ host.quote \in Quotes
        /\ TickPaced /\ mem["BID"] = host.quote[1]
    BY <2>1 DEF SeqlockInv, Publishing, In
  <2>3. TickPaced'
    BY <1>2, <2>1, <2>2 DEF TickPaced
  <2>4. host.quote = <<host.quote[1], host.quote[2]>>
    BY <2>2, HostAssumption
  <2>5. host'.quote = <<mem'["BID"], mem'["ASK"]>>
    BY <2>1, <2>2, <2>4
  <2> QED
    BY <1>2, <1>3, <1>4, <2>1, <2>2, <2>3, <2>5 DEF SeqlockInv, In, Publishing
<1>8. CASE PublishEnd
  <2> DEFINE s == Bump(Bump(host.tickSeq))
             h == [host EXCEPT !.tickSeq = s]
  <2>1. /\ mem'["TICK_SEQ"] = s
        /\ mem'["BID"] = mem["BID"] /\ mem'["ASK"] = mem["ASK"]
        /\ host.pc = "pub_end"
    BY <1>1, <1>8 DEF PublishEnd, Store, In
  <2>2. host' = Return(h)
    BY <1>8 DEF PublishEnd
  <2>3. h.tickSeq = s /\ h \in HostRecords
    BY <1>1, <1>3, BumpParity DEF HostRecords
  <2>4. \A r \in HostRecords : Return(r).pc = "idle" /\ Return(r).tickSeq = r.tickSeq
    BY DEF Return, HostRecords
  <2>5. host'.pc = "idle" /\ host'.tickSeq = s
    <3> HIDE DEF h
    <3> QED
      BY <2>2, <2>3, <2>4
  <2>6. /\ board' = <<mem["BID"], mem["ASK"]>>
        /\ cpu.pc \in ReadWindow => s # cpu.tick
    BY <2>1 DEF SeqlockInv, HostPublish, In, Publishing, TickPaced
  <2> HIDE DEF s
  <2>7. s % 2 = 0
    BY <1>3 DEF s
  <2> QED
    BY <1>2, <1>4, <2>1, <2>5, <2>6, <2>7 DEF SeqlockInv, In, Publishing
<1> QED
  BY <1>5, <1>6, <1>7, <1>8 DEF HostPublish

\* KEY[0] preserves it: the CPU forgets what it was reading.
LEMMA SeqlockReset ==
    ASSUME FabricTypeOK, SeqlockInv, PressKey0
    PROVE  SeqlockInv'
<1>1. cpu'.pc = "halt"
  BY DEF PressKey0, CpuReset, FabricTypeOK, CpuTypeOK, CpuRegisters
<1>2. mem' = mem /\ host' = host /\ board' = board
  BY DEF PressKey0, CpuReset
<1> QED
  BY <1>1, <1>2 DEF SeqlockInv, TickPaced, In, At, ReadWindow

\* It holds when the FPGA has configured.
LEMMA SeqlockInit == Init => SeqlockInv
BY DEF Init, RamInit, HostInit, CpuInit, NewHost, SeqlockInv, In, At, NoQuote,
   ReadWindow, Publishing, Words, InputWords, OutputWords

\* The invariant that explains the seqlock, for every instance: no reader's
\* number is ever reused over changed words, and an even TICK_SEQ shows a
\* completed quote, whatever a crashed publisher left behind.
THEOREM SeqlockCorrect == Spec => []SeqlockInv
<1>1. FabricTypeOK /\ SeqlockInv /\ [Next]_vars => SeqlockInv'
  <2> SUFFICES ASSUME FabricTypeOK, SeqlockInv, [Next]_vars PROVE SeqlockInv'
    OBVIOUS
  <2>1. CASE UNCHANGED vars
    BY <2>1 DEF vars, SeqlockInv, TickPaced, In, At
  <2>2. CASE HostStep
    BY <2>2, HostOutside, SeqlockOutside, SeqlockPublish
  <2> QED
    BY <2>1, <2>2, SeqlockCpu, SeqlockReset DEF Next
<1> QED
  BY <1>1, SeqlockInit, TypeCorrect, PTL DEF Spec

\* The fabric's market-data block implements the atomic quote board: the quote
\* the CPU commits to is always the one last completed, never a mixture.
THEOREM SeqlockImplementsBoard == Spec => SnapshotsAreWhole
<1>1. Init => Channel!Init
  BY DEF Init, Channel!Init
<1>2. FabricTypeOK /\ SeqlockInv /\ [Next]_vars
        => [Channel!Next]_<<board, taken>>
  <2> SUFFICES ASSUME FabricTypeOK, SeqlockInv, [Next]_vars
               PROVE  [Channel!Next]_<<board, taken>>
    OBVIOUS
  <2>1. CASE UNCHANGED vars
    BY <2>1 DEF vars
  <2>2. CASE CpuStep
    <3>1. board' = board
      BY <2>2 DEF CpuStep
    <3>2. CASE Accepts
      <4>1. <<cpu.bid, cpu.ask>> = board
        BY <3>2 DEF Accepts, SnapshotStable, Load, SeqlockInv, At, ReadWindow
      <4>2. taken' = <<cpu.bid, cpu.ask>>
        BY <2>2, <3>2 DEF CpuStep, ObserveCpu
      <4> QED
        BY <3>1, <4>1, <4>2 DEF Channel!Next, Channel!Take
    <3>3. CASE ~Accepts
      BY <2>2, <3>1, <3>3
      DEF CpuStep, ObserveCpu, Channel!Next, Channel!Forget
    <3> QED
      BY <3>2, <3>3
  <2>3. CASE HostPublish
    <3>1. CASE In("pub_end")
      <4>1. host.quote \in Quotes
        BY <3>1 DEF SeqlockInv, In, Publishing
      <4> QED
        BY <2>3, <3>1, <4>1 DEF HostPublish, Channel!Next, Channel!Post
    <3>2. CASE ~In("pub_end")
      BY <2>3, <3>2 DEF HostPublish
    <3> QED
      BY <3>1, <3>2
  <2>4. CASE HostStep /\ ~HostPublish
    BY <2>4 DEF HostStep, HostProgress, HostLaunch, HostLoad, HostFill,
       HostFillRest, HostPoll, HostPollRest, HostHalt, HostClose, HostCrash
  <2>5. CASE PressKey0
    BY <2>5 DEF PressKey0, Channel!Next, Channel!Forget
  <2> QED
    BY <2>1, <2>2, <2>3, <2>4, <2>5 DEF Next
<1> QED
  BY <1>1, <1>2, TypeCorrect, SeqlockCorrect, PTL
  DEF Spec, SnapshotsAreWhole, Channel!Spec
=============================================================================
