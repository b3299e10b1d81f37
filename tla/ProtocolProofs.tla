--------------------------- MODULE ProtocolProofs ---------------------------
(***************************************************************************)
(* What the protocol on the shared RAM guarantees at any interleaving of   *)
(* the host and the CPU: the handshake of a load, the conservation of      *)
(* fills, the count of missed decisions, the bounds on decisions that come *)
(* after a shutdown or after the host's death, and on the steps of a load. *)
(*                                                                         *)
(* CpuEffect and HostEffect say once what a step of either side does to    *)
(* the words and registers these arguments are about; the invariants are   *)
(* then preserved by reasoning on the two program counters alone.          *)
(***************************************************************************)
EXTENDS FabricProofs

\* One store: the word stored, and every other word.
LEMMA StoreOne ==
    ASSUME MemTypeOK, NEW w \in Words, NEW v, Store(w, v)
    PROVE  mem'[w] = v /\ \A m \in Words \ {w} : mem'[m] = mem[m]
BY DEF MemTypeOK, Store

\* The flow of trading.asm, with the words and registers it moves.
CpuFlow ==
    /\ At("halt") => cpu'.pc = "init_pos" /\ cpu.fabric # "held"
    /\ At("init_pos") => /\ cpu'.pc = "init_fill" /\ cpu'.anchor = 0
                         /\ cpu'.pos = mem["CFG_POSITION"]
    /\ At("init_fill") => cpu'.pc = "init_clear" /\ cpu'.seen = mem["FILL_SEQ"]
    /\ At("init_clear") => \/ cpu'.pc = "init_clear"
                           \/ cpu'.pc = "init_version" /\ cpu.fabric = "current"
                           \/ cpu'.pc = "mismatch" /\ cpu.fabric # "current"
    /\ At("init_version") => cpu'.pc = "loop"
    /\ At("mismatch") => cpu'.pc = "mismatch"
    /\ At("loop") => cpu'.pc = "restart"
    /\ At("restart") => cpu'.pc = IF mem["CFG_RESTART"] # 0 THEN "restart_ack"
                                                            ELSE "fill"
    /\ At("restart_ack") => cpu'.pc = "init_pos"
    /\ At("fill") => IF mem["FILL_SEQ"] = cpu.seen
                     THEN cpu'.pc = "tick" /\ cpu'.seen = cpu.seen
                     ELSE cpu'.pc = "fill_side" /\ cpu'.seen = mem["FILL_SEQ"]
    /\ At("fill_side") => cpu'.pc = "fill_qty" /\ cpu'.fside = mem["FILL_SIDE"]
    /\ At("fill_qty") => /\ cpu'.pc = "fill_pos"
                         /\ cpu'.pos = IF cpu.fside = FILL_BOUGHT
                                       THEN cpu.pos + mem["FILL_QTY"]
                                       ELSE cpu.pos - mem["FILL_QTY"]
    /\ At("fill_pos") => cpu'.pc = "tick"
    /\ At("tick") => \/ cpu'.pc = "loop"
                     \/ /\ cpu'.pc = "bid" /\ cpu'.tick = mem["TICK_SEQ"]
                        /\ mem["TICK_SEQ"] # cpu.last
    /\ At("bid") => cpu'.pc = "ask" /\ cpu'.tick = cpu.tick
    /\ At("ask") => cpu'.pc = "again" /\ cpu'.tick = cpu.tick
    /\ At("again") =>
          \/ /\ cpu'.pc = "loop" /\ cpu'.last = cpu.last
             /\ cpu'.anchor = cpu.anchor
          \/ /\ cpu'.pc = "loop" /\ cpu'.last = cpu.tick
             /\ mem["TICK_SEQ"] = cpu.tick
          \/ /\ cpu'.pc = "thresh" /\ cpu'.last = cpu.tick
             /\ mem["TICK_SEQ"] = cpu.tick /\ cpu.anchor # 0
    /\ At("thresh") => cpu'.pc \in {"loop", "enable"}
    /\ At("enable") => \/ cpu'.pc = "rej_status"
                       \/ cpu'.pc = "max_pos" /\ mem["CFG_ENABLE"] # 0
    /\ At("max_pos") => cpu'.pc \in {"signal", "rej_status"}
    /\ At("signal") => cpu'.pc = "signal_tick"
    /\ At("signal_tick") => cpu'.pc = "status"
    /\ At("status") => cpu'.pc = "signal_seq"
    /\ At("signal_seq") => cpu'.pc = "loop"
    /\ At("rej_status") => cpu'.pc = "rejects"
    /\ At("rejects") => cpu'.pc = "loop"

\* The registers a step leaves alone.
CpuKeeps ==
    /\ cpu'.fabric = cpu.fabric /\ cpu'.image = cpu.image
    /\ cpu.pc \notin {"init_pos", "fill_qty"} => cpu'.pos = cpu.pos
    /\ cpu.pc \notin {"init_fill", "fill"} => cpu'.seen = cpu.seen
    /\ cpu.pc \notin {"init_pos", "again"} => cpu'.last = cpu.last
    /\ cpu.pc \notin {"init_pos", "again", "thresh"} =>
          cpu'.anchor = cpu.anchor

\* The words a step stores to.
CpuStores ==
    /\ \A w \in InputWords \ {"CFG_RESTART"} : mem'[w] = mem[w]
    /\ mem'["CFG_RESTART"] = IF At("restart_ack") THEN 0 ELSE mem["CFG_RESTART"]
    /\ mem'["FW_VERSION"] = IF At("init_version") THEN cpu.image
                                                  ELSE mem["FW_VERSION"]
    /\ ~At("init_clear") =>
          mem'["SIGNAL_SEQ"] = IF At("signal_seq") THEN Bump(mem["SIGNAL_SEQ"])
                                                   ELSE mem["SIGNAL_SEQ"]

\* Every instruction of trading.asm follows that flow.
LEMMA CpuFlows ==
    ASSUME FabricTypeOK, CpuNext
    PROVE  CpuFlow /\ CpuKeeps
<1>1. cpu \in CpuRegisters
  BY DEF FabricTypeOK, CpuTypeOK
<1> USE <1>1 DEF CpuRegisters, At, Load, CpuFlow, CpuKeeps
<1>2. CASE Start
  BY <1>2 DEF Start
<1>3. CASE InitPosition
  BY <1>3 DEF InitPosition
<1>4. CASE InitFillSeq
  BY <1>4 DEF InitFillSeq
<1>5. CASE InitClear
  BY <1>5 DEF InitClear, ProbePasses
<1>6. CASE InitVersion
  BY <1>6 DEF InitVersion
<1>7. CASE Mismatch
  BY <1>7 DEF Mismatch
<1>8. CASE Heartbeat
  BY <1>8 DEF Heartbeat
<1>9. CASE CheckRestart
  BY <1>9 DEF CheckRestart
<1>10. CASE AckRestart
  BY <1>10 DEF AckRestart
<1>11. CASE CheckFill
  BY <1>11 DEF CheckFill
<1>12. CASE LoadFillSide
  BY <1>12 DEF LoadFillSide
<1>13. CASE LoadFillQty
  BY <1>13 DEF LoadFillQty
<1>14. CASE PublishPosition
  BY <1>14 DEF PublishPosition
<1>15. CASE CheckTick
  BY <1>15 DEF CheckTick, ToLoop
<1>16. CASE LoadBid
  BY <1>16 DEF LoadBid
<1>17. CASE LoadAsk
  BY <1>17 DEF LoadAsk
<1>18. CASE Recheck
  BY <1>18 DEF Recheck, ToLoop, SnapshotStable
<1>19. CASE Evaluate
  BY <1>19 DEF Evaluate, ToLoop
<1>20. CASE CheckEnable
  BY <1>20 DEF CheckEnable
<1>21. CASE CheckLimit
  BY <1>21 DEF CheckLimit
<1>22. CASE EmitSignal
  BY <1>22 DEF EmitSignal
<1>23. CASE EmitTick
  BY <1>23 DEF EmitTick
<1>24. CASE EmitStatus
  BY <1>24 DEF EmitStatus
<1>25. CASE EmitSeq
  BY <1>25 DEF EmitSeq, ToLoop
<1>26. CASE RejectStatus
  BY <1>26 DEF RejectStatus
<1>27. CASE CountReject
  BY <1>27 DEF CountReject, ToLoop
<1> QED
  BY <1>2, <1>3, <1>4, <1>5, <1>6, <1>7, <1>8, <1>9, <1>10, <1>11, <1>12, <1>13, <1>14, <1>15, <1>16, <1>17, <1>18, <1>19, <1>20, <1>21, <1>22, <1>23, <1>24, <1>25, <1>26, <1>27
  DEF CpuNext, InitSection, Housekeeping, ReadQuote, Decide, Publish

\* And stores to no other words.
LEMMA CpuWrites ==
    ASSUME FabricTypeOK, CpuNext
    PROVE  CpuStores
<1>1. MemTypeOK /\ cpu.i \in 1 .. Len(InitStores)
  BY RegisterRanges DEF FabricTypeOK
<1> USE DEF CpuStores, At, Load
<1>2. CASE InitClear
  <2> DEFINE w == InitStores[cpu.i]
  <2>1. w \in OutputWords \ {"HEARTBEAT", "FW_VERSION"}
    BY <1>1, StoreTables
  <2>2. \A m \in Words \ {w} : mem'[m] = mem[m]
    BY <1>1, <1>2, <2>1, StoreOne, WordNames DEF InitClear
  <2>3. w \notin InputWords /\ w # "FW_VERSION" /\ w # "CFG_RESTART"
    BY <2>1 DEF InputWords, OutputWords
  <2> HIDE DEF w
  <2> QED
    BY <1>2, <2>2, <2>3, WordNames DEF InitClear
<1>3. CASE InitVersion
  BY <1>1, <1>3, StoreOne, WordNames DEF InitVersion, InputWords
<1>4. CASE Mismatch \/ Heartbeat
  BY <1>1, <1>4, StoreOne, WordNames DEF Mismatch, Heartbeat, InputWords
<1>5. CASE AckRestart
  BY <1>1, <1>5, StoreOne, WordNames DEF AckRestart, InputWords
<1>6. CASE PublishPosition
  BY <1>1, <1>6, StoreOne, WordNames DEF PublishPosition, InputWords
<1>7. CASE EmitSignal \/ EmitTick \/ EmitStatus
  BY <1>1, <1>7, StoreOne, WordNames
  DEF EmitSignal, EmitTick, EmitStatus, InputWords
<1>8. CASE EmitSeq
  BY <1>1, <1>8, StoreOne, WordNames DEF EmitSeq, InputWords
<1>9. CASE RejectStatus \/ CountReject
  BY <1>1, <1>9, StoreOne, WordNames
  DEF RejectStatus, CountReject, InputWords
<1>10. CASE \/ Start \/ InitPosition \/ InitFillSeq \/ CheckRestart \/ CheckFill
            \/ LoadFillSide \/ LoadFillQty
  BY <1>10
  DEF Start, InitPosition, InitFillSeq, CheckRestart, CheckFill, LoadFillSide,
      LoadFillQty
<1>11. CASE ReadQuote \/ Decide
  BY <1>11
  DEF ReadQuote, Decide, CheckTick, LoadBid, LoadAsk, Recheck, Evaluate,
      CheckEnable, CheckLimit
<1> QED
  BY <1>2, <1>3, <1>4, <1>5, <1>6, <1>7, <1>8, <1>9, <1>10, <1>11
  DEF CpuNext, InitSection, Housekeeping, Publish

\* What the observers record of a CPU step.
CpuCounts ==
    /\ obs'.truth = obs.truth /\ obs'.dueLag = obs.dueLag
    /\ obs'.laps = IF Beats /\ In("sleep") /\ obs.laps < SleepLaps
                   THEN obs.laps + 1 ELSE obs.laps
    /\ obs'.lag = IF At("signal_seq") THEN obs.lag + 1 ELSE obs.lag
    /\ obs'.late = IF At("signal_seq") /\ mem["CFG_ENABLE"] = 0
                   THEN obs.late + 1 ELSE obs.late
    /\ obs'.orphan = IF At("signal_seq") /\ In("down")
                     THEN obs.orphan + 1 ELSE obs.orphan

\* The observers do record that.
LEMMA CpuCounted ==
    ASSUME FabricTypeOK, CpuStep
    PROVE  CpuCounts
BY DEF FabricTypeOK, ObsRecords, CpuStep, ObserveCpu, CpuCounts

-----------------------------------------------------------------------------
Waiting == {"beat0", "sleep", "version", "beat"}
Adopting == {"adopt_sig", "adopt_fill", "adopt_tick", "enable"}
Configured == {"program", "version0", "restart1"} \cup Waiting
Live == RunPcs \cup Adopting

\* How the host gets from a launch through the handshake to trading.
HostLoads ==
    /\ host'.pc = "load" => \/ In("down") /\ host'.start = obs.truth
                            \/ In("load") /\ host'.start = host.start
    /\ host'.pc \in Configured =>
          \/ host.pc \in Configured
          \/ In("load") /\ mem'["CFG_POSITION"] = host.start
    /\ host'.pc \in Waiting =>
          \/ host.pc \in Waiting
          \/ host'.pc = "beat0" /\ mem'["CFG_RESTART"] = 1
    /\ host'.pc = "sleep" => obs'.laps = 0
    /\ host'.pc = "version" => In("sleep") /\ SleptEnough
    /\ host'.pc = "beat" => In("version") /\ host'.ver = mem["FW_VERSION"]
    /\ host'.pc = "adopt_sig" => In("beat") /\ host.ver = PROTOCOL_VERSION
    /\ host'.pc \in Live => host'.pc = "adopt_sig" \/ host.pc \in Live
    /\ host.pc \notin {"load", "restart1"} =>
          mem'["CFG_RESTART"] = mem["CFG_RESTART"]
    /\ ~In("load") => mem'["CFG_POSITION"] = mem["CFG_POSITION"]
    /\ mem'["FW_VERSION"] \in {0, mem["FW_VERSION"]}

\* How it follows SIGNAL_SEQ.
HostPolls ==
    /\ mem'["SIGNAL_SEQ"] = mem["SIGNAL_SEQ"]
    /\ host'.pc = "adopt_fill" =>
          host'.sigSeq = mem["SIGNAL_SEQ"] /\ obs'.lag = 0
    /\ host'.pc = "poll_side" =>
          /\ In("idle") /\ mem["SIGNAL_SEQ"] # host.sigSeq
          /\ host'.seq = mem["SIGNAL_SEQ"] /\ host'.sigSeq = host.sigSeq
          /\ obs'.dueLag = obs.lag /\ obs'.lag = 0
    /\ host'.pc = "poll_tick" =>
          /\ In("poll_side") /\ host'.seq = host.seq
          /\ host'.sigSeq = host.sigSeq
          /\ obs'.lag = obs.lag /\ obs'.dueLag = obs.dueLag
    /\ host'.pc = "act" =>
          /\ In("poll_tick") /\ host'.sigSeq = host.seq
          /\ host'.missed = Minus(Minus(host.seq, host.sigSeq), 1)
          /\ obs'.lag = obs.lag /\ obs'.dueLag = obs.dueLag
    /\ host'.pc \in Live \ {"adopt_sig", "adopt_fill", "poll_side", "poll_tick",
                            "act"} =>
          /\ host.pc \in Live \ {"adopt_sig", "poll_side", "poll_tick"}
          /\ host'.sigSeq = host.sigSeq /\ obs'.lag = obs.lag

\* How it reports fills.
FillWordsKept == /\ mem'["FILL_SEQ"] = mem["FILL_SEQ"]
                 /\ mem'["FILL_SIDE"] = mem["FILL_SIDE"]
                 /\ mem'["FILL_QTY"] = mem["FILL_QTY"]

HostFills ==
    /\ host'.pc = "fill_qty" =>
          /\ In("idle") /\ FillPaced
          /\ mem'["FILL_SIDE"] = host'.fill[1]
          /\ mem'["FILL_SEQ"] = mem["FILL_SEQ"]
          /\ host'.fillSeq = host.fillSeq
          /\ obs'.truth = obs.truth + Signed(host'.fill[1], host'.fill[2])
    /\ host'.pc = "fill_seq" =>
          /\ In("fill_qty") /\ host'.fill = host.fill
          /\ mem'["FILL_SIDE"] = mem["FILL_SIDE"]
          /\ mem'["FILL_SEQ"] = mem["FILL_SEQ"]
          /\ mem'["FILL_QTY"] = host.fill[2]
          /\ host'.fillSeq = host.fillSeq
    /\ In("fill_seq") /\ host'.pc # "down" =>
          /\ host'.pc = "idle" /\ host'.fillSeq = Bump(host.fillSeq)
          /\ mem'["FILL_SEQ"] = Bump(host.fillSeq)
          /\ mem'["FILL_SIDE"] = mem["FILL_SIDE"]
          /\ mem'["FILL_QTY"] = mem["FILL_QTY"]
    /\ host'.pc # "fill_qty" => obs'.truth = obs.truth
    /\ ~In("fill_seq") /\ host'.pc \notin {"fill_qty", "fill_seq"} =>
          FillWordsKept
    /\ host'.pc = "adopt_tick" => host'.fillSeq = mem["FILL_SEQ"]
    /\ ~In("fill_seq") =>
       (host'.pc \in Live \ {"adopt_sig", "adopt_fill", "adopt_tick",
                             "fill_qty", "fill_seq"} =>
          /\ host.pc \in Live \ {"adopt_sig", "adopt_fill", "fill_qty"}
          /\ host'.fillSeq = host.fillSeq)
    /\ In("fill_qty") => host'.pc \in {"fill_seq", "down"}

\* How it turns trading on and off, and goes away.
HostSwitches ==
    /\ obs'.late \in {0, obs.late}
    /\ mem'["CFG_ENABLE"] # 0 => obs'.late = 0 \/ mem["CFG_ENABLE"] # 0
    /\ obs'.orphan \in {0, obs.orphan}
    /\ host'.pc = "down" => obs'.orphan = 0

HostEffect == /\ cpu' = cpu
              /\ HostLoads /\ HostPolls /\ HostFills /\ HostSwitches

\* The host's steps do that.
LEMMA HostEffects ==
    ASSUME FabricTypeOK, HostStep
    PROVE  HostEffect
<1>1. /\ MemTypeOK /\ host \in HostRecords /\ obs \in ObsRecords
      /\ host.i \in 1 .. Len(LoadStores)
  BY DEF FabricTypeOK, HostTypeOK, HostRecords
<1>2. cpu' = cpu
  BY DEF HostStep, HostProgress, HostLaunch, HostLoad, HostPublish, HostFill,
     HostFillRest, HostPoll, HostPollRest, HostHalt, HostClose, HostCrash
<1> USE <1>1, <1>2, StoreOne, WordNames
    DEF HostEffect, HostLoads, HostPolls, HostFills, FillWordsKept,
        HostSwitches, Live, Waiting, Adopting, Configured, RunPcs, In, Goto,
        HostRecords, ObsRecords
<1>3. CASE HostLaunch
  BY <1>3 DEF HostLaunch, Launch
<1>4. CASE HostCrash
  BY <1>4 DEF HostCrash, Crash, NewHost
<1>5. CASE HostClose
  <2>1. (In("fail") \/ In("idle")) /\ host'.pc = "down"
    BY <1>5 DEF HostClose, Close, NewHost
  <2>2. /\ mem'["CFG_ENABLE"] = 0
        /\ \A m \in Words \ {"CFG_ENABLE"} : mem'[m] = mem[m]
    BY <1>5 DEF HostClose, Close
  <2>3. obs'.late \in {0, obs.late} /\ obs'.orphan = 0 /\ obs'.truth = obs.truth
    BY <1>5 DEF HostClose
  <2> QED
    BY <2>1, <2>2, <2>3
<1>6. CASE HostHalt
  BY <1>6 DEF HostHalt, ActHalted, Return
<1>7. CASE HostPollRest
  <2>1. CASE PollSide
    BY <1>7, <2>1 DEF HostPollRest, PollSide
  <2>2. CASE PollTick
    BY <1>7, <2>2 DEF HostPollRest, PollTick
  <2>3. CASE Act
    BY <1>7, <2>3 DEF HostPollRest, Act, Return
  <2> QED
    BY <1>7, <2>1, <2>2, <2>3 DEF HostPollRest
<1>8. CASE HostPoll
  BY <1>8 DEF HostPoll, PollBegin
<1>9. CASE HostFillRest
  <2>1. CASE FillQty
    <3>1. /\ In("fill_qty") /\ host'.pc = "fill_seq" /\ host'.fill = host.fill
          /\ host'.sigSeq = host.sigSeq /\ host'.fillSeq = host.fillSeq
      BY <2>1 DEF FillQty
    <3>2. /\ mem'["FILL_QTY"] = host.fill[2]
          /\ \A m \in Words \ {"FILL_QTY"} : mem'[m] = mem[m]
      BY <2>1 DEF FillQty
    <3> QED
      BY <1>9, <3>1, <3>2 DEF HostFillRest
  <2>2. CASE FillEnd
    <3>1. /\ In("fill_seq") /\ host'.pc = "idle"
          /\ host'.sigSeq = host.sigSeq /\ host'.fillSeq = Bump(host.fillSeq)
      BY <2>2 DEF FillEnd, Return
    <3>2. /\ mem'["FILL_SEQ"] = Bump(host.fillSeq)
          /\ \A m \in Words \ {"FILL_SEQ"} : mem'[m] = mem[m]
      BY <2>2 DEF FillEnd
    <3> QED
      BY <1>9, <3>1, <3>2 DEF HostFillRest
  <2> QED
    BY <1>9, <2>1, <2>2 DEF HostFillRest
<1>10. CASE HostFill
  <2>1. PICK side \in {FILL_BOUGHT, FILL_SOLD}, qty \in FillQtys :
           /\ FillPaced /\ FillBegin(side, qty)
           /\ obs' = [obs EXCEPT !.truth = obs.truth + Signed(side, qty)]
    BY <1>10 DEF HostFill
  <2>2. /\ In("idle") /\ host'.pc = "fill_qty" /\ host'.fill = <<side, qty>>
        /\ host'.sigSeq = host.sigSeq /\ host'.fillSeq = host.fillSeq
    BY <2>1 DEF FillBegin
  <2>3. /\ mem'["FILL_SIDE"] = side
        /\ \A m \in Words \ {"FILL_SIDE"} : mem'[m] = mem[m]
    BY <2>1 DEF FillBegin
  <2>4. host'.fill[1] = side /\ host'.fill[2] = qty
    BY <2>2
  <2> QED
    BY <2>1, <2>2, <2>3, <2>4
<1>11. CASE HostPublish
  <2>1. CASE \E q \in Quotes : PublishBegin(q)
    <3>1. /\ In("idle") /\ host'.pc = "pub_bid"
          /\ host'.sigSeq = host.sigSeq /\ host'.fillSeq = host.fillSeq
      BY <2>1 DEF PublishBegin
    <3>2. \A m \in Words \ {"TICK_SEQ"} : mem'[m] = mem[m]
      BY <2>1 DEF PublishBegin
    <3> QED
      BY <1>11, <3>1, <3>2 DEF HostPublish
  <2>2. CASE PublishBid
    <3>1. /\ In("pub_bid") /\ host'.pc = "pub_ask"
          /\ host'.sigSeq = host.sigSeq /\ host'.fillSeq = host.fillSeq
      BY <2>2 DEF PublishBid
    <3>2. \A m \in Words \ {"BID"} : mem'[m] = mem[m]
      BY <2>2 DEF PublishBid
    <3> QED
      BY <1>11, <3>1, <3>2 DEF HostPublish
  <2>3. CASE PublishAsk
    <3>1. /\ In("pub_ask") /\ host'.pc = "pub_end"
          /\ host'.sigSeq = host.sigSeq /\ host'.fillSeq = host.fillSeq
      BY <2>3 DEF PublishAsk
    <3>2. \A m \in Words \ {"ASK"} : mem'[m] = mem[m]
      BY <2>3 DEF PublishAsk
    <3> QED
      BY <1>11, <3>1, <3>2 DEF HostPublish
  <2>4. CASE PublishEnd
    BY <1>11, <2>4 DEF HostPublish, PublishEnd, Return
  <2> QED
    BY <1>11, <2>1, <2>2, <2>3, <2>4 DEF HostPublish
<1>12. CASE HostLoad
  <2>1. CASE WriteProgram(cpu.fabric # "absent")
    <3>1. host'.pc \in {"version0", "fail"} /\ In("program")
      BY <2>1 DEF WriteProgram
    <3>2. \A m \in Words \ {"ENTRY"} : mem'[m] = mem[m]
      BY <2>1 DEF WriteProgram
    <3> QED
      BY <1>12, <3>1, <3>2 DEF HostLoad
  <2>2. CASE ClearVersion
    <3>1. In("version0") /\ host'.pc = "restart1"
      BY <2>2 DEF ClearVersion
    <3>2. /\ mem'["FW_VERSION"] = 0
          /\ \A m \in Words \ {"FW_VERSION"} : mem'[m] = mem[m]
      BY <2>2 DEF ClearVersion
    <3> QED
      BY <1>12, <3>1, <3>2 DEF HostLoad
  <2>3. CASE AskRestart
    <3>1. In("restart1") /\ host'.pc = "beat0"
      BY <2>3 DEF AskRestart
    <3>2. /\ mem'["CFG_RESTART"] = 1
          /\ \A m \in Words \ {"CFG_RESTART"} : mem'[m] = mem[m]
      BY <2>3 DEF AskRestart
    <3> QED
      BY <1>12, <3>1, <3>2 DEF HostLoad
  <2>4. CASE ReadBeat0
    BY <1>12, <2>4 DEF HostLoad, ReadBeat0
  <2>5. CASE SleptEnough /\ Wake
    BY <1>12, <2>5 DEF HostLoad, Wake
  <2>6. CASE ReadVersion
    BY <1>12, <2>6 DEF HostLoad, ReadVersion
  <2>7. CASE ReadBeat
    BY <1>12, <2>7 DEF HostLoad, ReadBeat
  <2>8. CASE AdoptSignalSeq
    BY <1>12, <2>8 DEF HostLoad, AdoptSignalSeq
  <2>9. CASE AdoptFillSeq
    BY <1>12, <2>9 DEF HostLoad, AdoptFillSeq
  <2>10. CASE AdoptTickSeq
    BY <1>12, <2>10 DEF HostLoad, AdoptTickSeq
  <2>11. CASE EnableTrading
    <3>1. /\ In("enable") /\ host'.pc = "idle"
          /\ host'.sigSeq = host.sigSeq /\ host'.fillSeq = host.fillSeq
      BY <2>11 DEF EnableTrading, Return
    <3>2. \A m \in Words \ {"CFG_ENABLE"} : mem'[m] = mem[m]
      BY <2>11 DEF EnableTrading
    <3> QED
      BY <1>12, <3>1, <3>2 DEF HostLoad
  <2>12. CASE LoadConfig
    <3> DEFINE w == LoadStores[host.i]
    <3>1. /\ w \in {"CFG_ENABLE", "CFG_RESTART", "CFG_THRESH", "CFG_MAX_POS",
                   "CFG_POSITION"}
          /\ host.i = Len(LoadStores) => w = "CFG_POSITION"
      BY DEF LoadStores
    <3>2. w \in Words
      BY <3>1 DEF Words, InputWords
    <3>3. mem'[w] = LoadValue(w) /\ \A m \in Words \ {w} : mem'[m] = mem[m]
      BY <2>12, <3>2 DEF LoadConfig
    <3>4. /\ LoadValue("CFG_ENABLE") = 0
          /\ LoadValue("CFG_POSITION") = host.start
      BY DEF LoadValue
    <3>5. /\ In("load") /\ host'.start = host.start
          /\ \/ host'.pc = "load"
             \/ host'.pc = "program" /\ host.i = Len(LoadStores)
      <4>1. host.i = Len(LoadStores) \/ host.i < Len(LoadStores)
        BY DEF LoadStores
      <4> QED
        BY <2>12, <4>1 DEF LoadConfig
    <3>6. /\ obs'.late = obs.late /\ obs'.orphan = obs.orphan
          /\ obs'.truth = obs.truth
      BY <1>12, <3>5 DEF HostLoad
    <3>7. mem'["CFG_POSITION"] = host.start \/ ~(host'.pc = "program")
      BY <3>1, <3>3, <3>4, <3>5
    <3>8. /\ FillWordsKept /\ mem'["FW_VERSION"] = mem["FW_VERSION"]
          /\ mem'["SIGNAL_SEQ"] = mem["SIGNAL_SEQ"]
          /\ mem'["CFG_ENABLE"] # 0 => mem["CFG_ENABLE"] # 0
      BY <3>1, <3>3, <3>4
    <3> HIDE DEF w
    <3> QED
      BY <3>5, <3>6, <3>7, <3>8
  <2> QED
    BY <1>12, <2>1, <2>2, <2>3, <2>4, <2>5, <2>6, <2>7, <2>8, <2>9, <2>10, <2>11, <2>12 DEF HostLoad
<1> QED
  BY <1>3, <1>4, <1>5, <1>6, <1>7, <1>8, <1>9, <1>10, <1>11, <1>12
  DEF HostStep, HostProgress

-----------------------------------------------------------------------------
(* Decisions after a shutdown *)

\* The CPU is past its test of CFG_ENABLE.
Committed == {"max_pos", "signal", "signal_tick", "status", "signal_seq"}

\* No late decision is counted while trading is on, nor while the CPU carries
\* a decision that passed the test of CFG_ENABLE.
LateInv ==
    /\ mem["CFG_ENABLE"] # 0 => obs.late = 0
    /\ cpu.pc \in Committed => obs.late = 0
    /\ AtMostOneLateDecision

\* A decision the CPU announces with CFG_ENABLE cleared is the first such one.
LEMMA LateCpu ==
    ASSUME FabricTypeOK, LateInv, CpuStep
    PROVE  LateInv'
<1>1. CpuFlow /\ CpuStores /\ CpuCounts
  BY CpuFlows, CpuWrites, CpuCounted DEF CpuStep
<1>2. cpu.pc \in CpuPcs /\ obs.late \in Nat
  BY DEF FabricTypeOK, CpuTypeOK, CpuRegisters, ObsRecords
<1>3. mem'["CFG_ENABLE"] = mem["CFG_ENABLE"]
  BY <1>1 DEF CpuStores, InputWords
<1>4. obs'.late = IF At("signal_seq") /\ mem["CFG_ENABLE"] = 0
                  THEN obs.late + 1 ELSE obs.late
  BY <1>1 DEF CpuCounts
<1>5. cpu'.pc \in Committed =>
         \/ cpu.pc \in Committed /\ ~At("signal_seq")
         \/ At("enable") /\ mem["CFG_ENABLE"] # 0
  BY <1>1, <1>2 DEF CpuFlow, CpuPcs, Committed, At
<1> QED
  BY <1>2, <1>3, <1>4, <1>5
  DEF LateInv, AtMostOneLateDecision, Committed, At

\* The host counts afresh whenever it turns trading on.
LEMMA LateHost ==
    ASSUME FabricTypeOK, LateInv, HostStep
    PROVE  LateInv'
<1>1. cpu' = cpu /\ HostSwitches
  BY HostEffects DEF HostEffect
<1> QED
  BY <1>1 DEF HostSwitches, LateInv, AtMostOneLateDecision

\* KEY[0] takes the CPU out of the decision it was making.
LEMMA LateReset ==
    ASSUME FabricTypeOK, LateInv, PressKey0
    PROVE  LateInv'
BY DEF FabricTypeOK, CpuTypeOK, CpuRegisters, ObsRecords, PressKey0, CpuReset,
   LateInv, AtMostOneLateDecision, Committed

\* Once CFG_ENABLE is cleared the CPU announces at most one more decision: the
\* one whose test of CFG_ENABLE was already behind it.  Through crashes,
\* reloads and KEY[0], for every set of quotes and every word width.
THEOREM LateDecisions == Spec => []AtMostOneLateDecision
<1>1. Init => LateInv
  BY DEF Init, ObsInit, CpuInit, RamInit, Words, InputWords, LateInv,
     AtMostOneLateDecision, Committed
<1>2. FabricTypeOK /\ LateInv /\ [Next]_vars => LateInv'
  <2>1. ASSUME LateInv, UNCHANGED vars PROVE LateInv'
    BY <2>1 DEF vars, LateInv, AtMostOneLateDecision
  <2> QED
    BY <2>1, LateCpu, LateHost, LateReset DEF Next
<1>3. LateInv => AtMostOneLateDecision
  BY DEF LateInv
<1> QED
  BY <1>1, <1>2, <1>3, TypeCorrect, PTL DEF Spec

-----------------------------------------------------------------------------
(* Decisions after the host's death *)

Deciding == {"thresh", "enable"} \cup Committed

\* The decisions the CPU can still announce on a board that no longer changes:
\* the one under way, and one on a quote it has not taken yet, unless that
\* quote will only be its first anchor.
DecisionsLeft ==
    (IF cpu.pc \in Deciding THEN 1 ELSE 0)
    + (IF cpu.last # mem["TICK_SEQ"] /\ (cpu.anchor # 0 \/ cpu.pc \in Deciding)
       THEN 1 ELSE 0)

OrphanInv ==
    /\ cpu.pc \in ReadWindow => cpu.tick # cpu.last
    /\ AtMostTwoOrphanDecisions
    /\ In("down") => obs.orphan + DecisionsLeft <= 2

\* Every announcement of the CPU uses up a decision it had left.
LEMMA OrphanCpu ==
    ASSUME FabricTypeOK, OrphanInv, CpuStep
    PROVE  OrphanInv'
<1>1. CpuFlow /\ CpuKeeps /\ CpuStores /\ CpuCounts /\ host' = host
  BY CpuFlows, CpuWrites, CpuCounted DEF CpuStep
<1>2. cpu.pc \in CpuPcs /\ obs.orphan \in Nat
  BY DEF FabricTypeOK, CpuTypeOK, CpuRegisters, ObsRecords
<1>3. mem'["TICK_SEQ"] = mem["TICK_SEQ"]
  BY <1>1 DEF CpuStores, InputWords
<1>4. obs'.orphan = IF At("signal_seq") /\ In("down")
                    THEN obs.orphan + 1 ELSE obs.orphan
  BY <1>1 DEF CpuCounts
<1>5. (cpu.pc \in ReadWindow => cpu.tick # cpu.last)'
  BY <1>1, <1>2 DEF OrphanInv, CpuFlow, CpuKeeps, CpuPcs, ReadWindow, At
<1>6. /\ DecisionsLeft' <= DecisionsLeft
      /\ At("signal_seq") => DecisionsLeft' + 1 <= DecisionsLeft
  <2>1. CASE cpu.pc \in Deciding
    <3>1. cpu'.last = cpu.last
      BY <1>1, <2>1 DEF CpuKeeps, Deciding, Committed
    <3>2. At("signal_seq") => cpu'.pc \notin Deciding
      BY <1>1 DEF CpuFlow, Deciding, Committed
    <3> QED
      BY <1>3, <2>1, <3>1, <3>2 DEF DecisionsLeft, Deciding, Committed, At
  <2>2. CASE At("again")
    BY <1>1, <1>3, <2>2
    DEF OrphanInv, CpuFlow, DecisionsLeft, Deciding, Committed, ReadWindow, At
  <2>3. CASE cpu.pc \notin Deciding /\ ~At("again")
    <3>1. cpu'.pc \notin Deciding
      BY <1>1, <1>2, <2>3 DEF CpuFlow, CpuPcs, Deciding, Committed, At
    <3>2. cpu'.anchor = 0 \/ (cpu'.anchor = cpu.anchor /\ cpu'.last = cpu.last)
      BY <1>1, <2>3 DEF CpuFlow, CpuKeeps, Deciding, At
    <3> QED
      BY <1>3, <2>3, <3>1, <3>2 DEF DecisionsLeft, Deciding, Committed, At
  <2> QED
    BY <2>1, <2>2, <2>3
<1>7. DecisionsLeft \in 0 .. 2 /\ DecisionsLeft' \in 0 .. 2
  BY DEF DecisionsLeft
<1>8. In("down") => (obs.orphan + DecisionsLeft <= 2)'
  <2>1. ASSUME In("down"), NEW d \in 0 .. 2, d = DecisionsLeft,
               NEW e \in 0 .. 2, e = DecisionsLeft'
        PROVE  obs'.orphan + e <= 2
    <3>1. obs.orphan + d <= 2 /\ e <= d /\ (At("signal_seq") => e + 1 <= d)
      BY <1>6, <2>1 DEF OrphanInv
    <3> QED
      BY <1>2, <1>4, <3>1
  <2> QED
    BY <1>7, <2>1
<1>9. AtMostTwoOrphanDecisions'
  <2>1. CASE In("down")
    <3>1. obs'.orphan \in Nat
      BY <1>2, <1>4
    <3> QED
      BY <1>7, <1>8, <2>1, <3>1 DEF AtMostTwoOrphanDecisions
  <2>2. CASE ~In("down")
    BY <1>4, <2>2 DEF OrphanInv, AtMostTwoOrphanDecisions
  <2> QED
    BY <2>1, <2>2
<1> QED
  BY <1>1, <1>5, <1>8, <1>9 DEF OrphanInv, In

\* The count starts when the host goes away.
LEMMA OrphanHost ==
    ASSUME FabricTypeOK, OrphanInv, HostStep
    PROVE  OrphanInv'
<1>1. cpu' = cpu /\ HostSwitches
  BY HostEffects DEF HostEffect
<1>2. DecisionsLeft' \in 0 .. 2
  BY DEF DecisionsLeft
<1> HIDE DEF DecisionsLeft
<1> QED
  BY <1>1, <1>2 DEF HostSwitches, OrphanInv, AtMostTwoOrphanDecisions, In

\* A CPU that starts over has no anchor, so no decision left.
LEMMA OrphanReset ==
    ASSUME FabricTypeOK, OrphanInv, PressKey0
    PROVE  OrphanInv'
<1>1. /\ cpu'.pc = "halt" /\ cpu'.anchor = 0
      /\ host' = host /\ obs'.orphan = obs.orphan /\ obs.orphan \in Nat
  BY DEF FabricTypeOK, CpuTypeOK, CpuRegisters, ObsRecords, PressKey0, CpuReset
<1>2. DecisionsLeft' = 0
  BY <1>1 DEF DecisionsLeft, Deciding, Committed
<1> HIDE DEF DecisionsLeft
<1> QED
  BY <1>1, <1>2 DEF OrphanInv, AtMostTwoOrphanDecisions, In, ReadWindow

\* A host that dies leaves the CPU trading on a board nobody updates; at most
\* two decisions follow, whatever the CPU was doing and however often KEY[0]
\* restarts it.
THEOREM OrphanDecisions == Spec => []AtMostTwoOrphanDecisions
<1>1. Init => OrphanInv
  <2> SUFFICES ASSUME Init PROVE OrphanInv
    OBVIOUS
  <2>1. obs.orphan = 0 /\ cpu.pc = "halt"
    BY DEF Init, ObsInit, CpuInit
  <2>2. DecisionsLeft \in 0 .. 2
    BY DEF DecisionsLeft
  <2> HIDE DEF DecisionsLeft
  <2> QED
    BY <2>1, <2>2 DEF OrphanInv, AtMostTwoOrphanDecisions, ReadWindow
<1>2. FabricTypeOK /\ OrphanInv /\ [Next]_vars => OrphanInv'
  <2>1. ASSUME OrphanInv, UNCHANGED vars PROVE OrphanInv'
    BY <2>1 DEF vars, OrphanInv, AtMostTwoOrphanDecisions, DecisionsLeft, In
  <2> QED
    BY <2>1, OrphanCpu, OrphanHost, OrphanReset DEF Next
<1>3. OrphanInv => AtMostTwoOrphanDecisions
  BY DEF OrphanInv
<1> QED
  BY <1>1, <1>2, <1>3, TypeCorrect, PTL DEF Spec

-----------------------------------------------------------------------------
(* The handshake of a load *)

\* The loop of trading.asm between two heartbeats, restart_ack aside.
Steady == CpuPcs \ {"halt", "init_pos", "init_fill", "init_clear",
                    "init_version", "restart_ack", "mismatch"}

\* Only a CPU that passed the datapath probe declares a version.
Probed ==
    /\ cpu.pc \in Steady \cup {"restart_ack", "init_version"} =>
          cpu.fabric = "current"
    /\ At("mismatch") => cpu.fabric # "current"
    /\ cpu.fabric = "held" => At("halt")
    /\ mem["FW_VERSION"] # 0 =>
          cpu.fabric = "current" /\ mem["FW_VERSION"] = cpu.image

\* The restart the loader asked for is behind the CPU.
Restarted == At("mismatch") \/ (mem["CFG_RESTART"] = 0 /\ cpu.pc \in Steady)

\* The CPU loop tests CFG_RESTART between the first two heartbeats of the
\* loader's sleep; a version read after the sleep was declared by the
\* initialisation that followed.
HandshakeInv ==
    /\ Probed
    /\ In("sleep") /\ obs.laps >= 1 =>
          \/ At("mismatch") \/ mem["CFG_RESTART"] = 0
          \/ cpu.pc \in {"restart", "restart_ack"}
    /\ In("sleep") /\ obs.laps >= 2 => Restarted
    /\ host.pc \in {"version", "beat"} => cpu.fabric = "held" \/ Restarted
    /\ In("beat") /\ host.ver # 0 =>
          cpu.fabric = "current" /\ host.ver = cpu.image
    /\ host.pc \in Live =>
          /\ cpu.fabric = "current" /\ cpu.image = PROTOCOL_VERSION
          /\ Restarted

\* The CPU reaches its loop and declares a version only through the probe.
LEMMA ProbedCpu ==
    ASSUME FabricTypeOK, Probed, CpuStep
    PROVE  Probed'
<1>1. CpuFlow /\ CpuKeeps /\ CpuStores
  BY CpuFlows, CpuWrites DEF CpuStep
<1>2. cpu.pc \in CpuPcs
  BY DEF FabricTypeOK, CpuTypeOK, CpuRegisters
<1>3. /\ cpu'.fabric = cpu.fabric /\ cpu'.image = cpu.image
      /\ mem'["FW_VERSION"] = IF At("init_version") THEN cpu.image
                                                    ELSE mem["FW_VERSION"]
  BY <1>1 DEF CpuKeeps, CpuStores
<1>4. /\ cpu'.pc \in Steady \cup {"restart_ack", "init_version"} =>
            \/ cpu.pc \in Steady \cup {"restart_ack", "init_version"}
            \/ cpu.fabric = "current"
      /\ cpu'.pc = "mismatch" => At("mismatch") \/ cpu.fabric # "current"
      /\ At("halt") => cpu.fabric # "held"
  BY <1>1, <1>2 DEF CpuFlow, CpuPcs, Steady, At
<1> QED
  BY <1>3, <1>4 DEF Probed, At

\* A CPU that has restarted stays so while nobody asks again.
LEMMA RestartedCpu ==
    ASSUME FabricTypeOK, CpuStep
    PROVE  Restarted => Restarted'
<1>1. CpuFlow /\ CpuStores
  BY CpuFlows, CpuWrites DEF CpuStep
<1>2. CASE At("mismatch")
  BY <1>1, <1>2 DEF CpuFlow, Restarted, At
<1>3. CASE mem["CFG_RESTART"] = 0 /\ cpu.pc \in Steady
  <2>1. cpu'.pc \in Steady
    BY <1>1, <1>3 DEF CpuFlow, CpuPcs, Steady, At
  <2> QED
    BY <1>1, <1>3, <2>1 DEF CpuStores, Restarted, Steady, At
<1> QED
  BY <1>2, <1>3 DEF Restarted

\* The CPU cannot beat twice during the sleep without seeing CFG_RESTART.
LEMMA HandshakeCpu ==
    ASSUME FabricTypeOK, HandshakeInv, CpuStep
    PROVE  HandshakeInv'
<1>1. CpuFlow /\ CpuKeeps /\ CpuStores /\ CpuCounts /\ host' = host
  BY CpuFlows, CpuWrites, CpuCounted DEF CpuStep
<1>2. /\ cpu.pc \in CpuPcs /\ obs.laps \in Nat
      /\ cpu'.fabric = cpu.fabric /\ cpu'.image = cpu.image
      /\ mem'["CFG_RESTART"] = IF At("restart_ack") THEN 0
                                                    ELSE mem["CFG_RESTART"]
  BY <1>1, BoundsAssumption
  DEF FabricTypeOK, CpuTypeOK, CpuRegisters, ObsRecords, LapCounts, CpuKeeps,
      CpuStores
<1>3. Probed' /\ (Restarted => Restarted')
  BY ProbedCpu, RestartedCpu DEF HandshakeInv
<1>4. obs'.laps = obs.laps \/ (obs'.laps = obs.laps + 1 /\ Beats)
  BY <1>1 DEF CpuCounts
<1>5. ASSUME In("sleep"), obs'.laps >= 1
      PROVE  \/ cpu'.pc = "mismatch" \/ mem'["CFG_RESTART"] = 0
             \/ cpu'.pc \in {"restart", "restart_ack"}
  <2>1. CASE obs.laps >= 1
    BY <1>1, <1>2, <1>5, <2>1 DEF HandshakeInv, CpuFlow, At
  <2>2. CASE Beats
    BY <1>1, <2>2 DEF Beats, CpuFlow, At
  <2> QED
    BY <1>2, <1>4, <1>5, <2>1, <2>2
<1>6. ASSUME In("sleep"), obs'.laps >= 2
      PROVE  Restarted'
  <2>1. CASE obs.laps >= 2
    BY <1>3, <1>6, <2>1 DEF HandshakeInv
  <2>2. CASE obs.laps = 1 /\ Beats
    <3>1. At("mismatch") \/ (At("loop") /\ mem["CFG_RESTART"] = 0)
      BY <1>6, <2>2 DEF HandshakeInv, Beats, At
    <3> QED
      BY <1>1, <1>2, <3>1 DEF CpuFlow, Restarted, Steady, CpuPcs, At
  <2> QED
    BY <1>2, <1>4, <1>6, <2>1, <2>2
<1> QED
  BY <1>1, <1>2, <1>3, <1>5, <1>6 DEF HandshakeInv, In, At

\* The host leaves the sleep after two laps, and trades on the version it read.
LEMMA HandshakeHost ==
    ASSUME SleepLaps >= 2, FabricTypeOK, HandshakeInv, HostStep
    PROVE  HandshakeInv'
<1>1. cpu' = cpu /\ HostLoads
  BY HostEffects DEF HostEffect
<1>2. Probed'
  BY <1>1 DEF HostLoads, HandshakeInv, Probed, At
<1>3. host.pc \in {"sleep", "version", "beat"} \cup Live =>
         (Restarted => Restarted')
  BY <1>1 DEF HostLoads, Restarted, At, Live, RunPcs, Adopting
<1>4. host'.pc = "sleep" => obs'.laps = 0
  BY <1>1 DEF HostLoads
<1>5. ASSUME host'.pc \in {"version", "beat"}
      PROVE  cpu'.fabric = "held" \/ Restarted'
  <2>1. CASE In("sleep") /\ SleptEnough
    BY <1>1, <1>3, <2>1, BoundsAssumption DEF HandshakeInv, SleptEnough, In
  <2>2. CASE In("version")
    BY <1>1, <1>3, <2>2 DEF HandshakeInv, In
  <2> QED
    BY <1>1, <1>5, <2>1, <2>2 DEF HostLoads
<1>6. host'.pc = "beat" /\ host'.ver # 0 =>
         cpu'.fabric = "current" /\ host'.ver = cpu'.image
  BY <1>1 DEF HostLoads, HandshakeInv, Probed
<1>7. ASSUME host'.pc \in Live
      PROVE  /\ cpu'.fabric = "current" /\ cpu'.image = PROTOCOL_VERSION
             /\ Restarted'
  <2>1. CASE host.pc \in Live
    BY <1>1, <1>3, <2>1 DEF HandshakeInv
  <2>2. CASE In("beat") /\ host.ver = PROTOCOL_VERSION
    BY <1>1, <1>3, <2>2 DEF HandshakeInv, In, PROTOCOL_VERSION
  <2> QED
    BY <1>1, <1>7, <2>1, <2>2 DEF HostLoads
<1> QED
  BY <1>2, <1>4, <1>5, <1>6, <1>7 DEF HandshakeInv, In

\* The handshake invariant holds throughout.
LEMMA HandshakeAlways ==
    ASSUME "reset" \notin Ops, SleepLaps >= 2
    PROVE  Spec => []HandshakeInv
<1>1. Init => HandshakeInv
  BY DEF Init, RamInit, Words, OutputWords, CpuInit, HostInit, NewHost,
     HandshakeInv, Probed, Steady, At, In, Live, RunPcs, Adopting
<1>2. FabricTypeOK /\ HandshakeInv /\ [Next]_vars => HandshakeInv'
  <2>1. ASSUME HandshakeInv, UNCHANGED vars PROVE HandshakeInv'
    BY <2>1 DEF vars, HandshakeInv, Probed, Restarted, In, At
  <2> QED
    BY <2>1, HandshakeCpu, HandshakeHost DEF Next, PressKey0
<1> QED
  BY <1>1, <1>2, TypeCorrect, PTL DEF Spec

\* The host trades only against a CPU that this very load has restarted, that
\* passed the datapath probe and that speaks this protocol version, whatever
\* bitstream and program the board holds and wherever earlier hosts died.
\* usleep(100000) spans two passes of the CPU loop (SleepLaps), and nobody
\* presses KEY[0], which restarts the CPU behind the host's back.
THEOREM HandshakeHolds ==
    ASSUME "reset" \notin Ops, SleepLaps >= 2
    PROVE  Spec => []TradesOnlyAfterHandshake
<1>1. HandshakeInv => TradesOnlyAfterHandshake
  BY DEF HandshakeInv, Restarted, Probed, Steady, TradesOnlyAfterHandshake, Live,
     Adopting, At
<1> QED
  BY <1>1, HandshakeAlways, PTL

-----------------------------------------------------------------------------
(* The count of missed decisions *)

\* Counting on by one, and the distance between two numbers.
LEMMA DistanceFacts ==
    ASSUME NEW a \in SeqNumbers, NEW b \in SeqNumbers
    PROVE  /\ Minus(a, b) \in SeqNumbers
           /\ Minus(a, b) # WordMod - 1 => Minus(Bump(a), b) = Minus(a, b) + 1
           /\ Minus(a, a) = 0
           /\ Minus(a, b) = 0 => a = b
           /\ a # 0 => Minus(a, 1) = a - 1
BY WordAssumption DEF SeqNumbers, Minus, Bump

\* The decisions announced since the host last read SIGNAL_SEQ are the distance
\* between that word and what the host remembers of it: sigSeq, or seq while
\* a poll is under way.
MissedInv ==
    /\ host.pc \in Live \ {"adopt_sig", "poll_side", "poll_tick"} =>
          Minus(mem["SIGNAL_SEQ"], host.sigSeq) = obs.lag
    /\ host.pc \in {"poll_side", "poll_tick"} =>
          /\ Minus(mem["SIGNAL_SEQ"], host.seq) = obs.lag
          /\ Minus(host.seq, host.sigSeq) = obs.dueLag
          /\ obs.dueLag # 0
    /\ MissedIsExact

\* The sequence numbers and the count the distances are about.
LEMMA SequenceTypes ==
    ASSUME FabricTypeOK
    PROVE  /\ mem["SIGNAL_SEQ"] \in SeqNumbers /\ mem["FILL_SEQ"] \in SeqNumbers
           /\ host.sigSeq \in SeqNumbers /\ host.seq \in SeqNumbers
           /\ host.fillSeq \in SeqNumbers /\ obs.lag \in Nat
<1>1. /\ mem["SIGNAL_SEQ"] \in SeqNumbers /\ mem["FILL_SEQ"] \in SeqNumbers
  BY DEF FabricTypeOK, MemTypeOK, Fits, SeqWords, Words, InputWords, OutputWords
<1> QED
  BY <1>1 DEF FabricTypeOK, HostTypeOK, HostRecords, ObsRecords

\* An announcement moves SIGNAL_SEQ and the count by one; it is never cleared
\* under a host that trades.
LEMMA MissedCpu ==
    ASSUME FabricTypeOK, HandshakeInv, MissedInv, CpuStep
    PROVE  MissedInv'
<1>1. CpuStores /\ CpuCounts /\ host' = host /\ SignalPaced
  BY CpuWrites, CpuCounted DEF CpuStep
<1>2. /\ obs'.lag = IF At("signal_seq") THEN obs.lag + 1 ELSE obs.lag
      /\ obs'.dueLag = obs.dueLag
  BY <1>1 DEF CpuCounts
<1>3. ASSUME host.pc \in Live
      PROVE  mem'["SIGNAL_SEQ"] = IF At("signal_seq")
                                  THEN Bump(mem["SIGNAL_SEQ"])
                                  ELSE mem["SIGNAL_SEQ"]
  <2>1. ~At("init_clear")
    BY <1>3 DEF HandshakeInv, Restarted, Steady, At
  <2> QED
    BY <1>1, <2>1 DEF CpuStores
<1>4. ASSUME host.pc \in Live, NEW b \in SeqNumbers,
             Minus(mem["SIGNAL_SEQ"], b) = obs.lag
      PROVE  Minus(mem'["SIGNAL_SEQ"], b) = obs'.lag
  <2>1. At("signal_seq") => obs.lag # WordMod - 1
    BY <1>1, WordAssumption, SequenceTypes DEF SignalPaced
  <2> QED
    BY <1>2, <1>3, <1>4, <2>1, DistanceFacts, SequenceTypes
<1> QED
  BY <1>1, <1>2, <1>4, SequenceTypes
  DEF MissedInv, MissedIsExact, Live, RunPcs, In

\* A poll takes the distance over from SIGNAL_SEQ to seq, and from seq to sigSeq.
LEMMA MissedHost ==
    ASSUME FabricTypeOK, MissedInv, HostStep
    PROVE  MissedInv'
<1>1. HostPolls
  BY HostEffects DEF HostEffect
<1>2. CASE host'.pc = "adopt_fill"
  BY <1>1, <1>2, DistanceFacts, SequenceTypes
  DEF HostPolls, MissedInv, MissedIsExact, In
<1>3. CASE host'.pc = "poll_side"
  <2>1. /\ Minus(mem["SIGNAL_SEQ"], host.sigSeq) = obs.lag
        /\ mem["SIGNAL_SEQ"] # host.sigSeq
        /\ host'.seq = mem["SIGNAL_SEQ"] /\ host'.sigSeq = host.sigSeq
        /\ obs'.dueLag = obs.lag /\ obs'.lag = 0
        /\ mem'["SIGNAL_SEQ"] = mem["SIGNAL_SEQ"]
    BY <1>1, <1>3 DEF HostPolls, MissedInv, Live, RunPcs, In
  <2>2. obs.lag # 0 /\ Minus(mem["SIGNAL_SEQ"], mem["SIGNAL_SEQ"]) = 0
    BY <2>1, DistanceFacts, SequenceTypes
  <2> QED
    BY <1>3, <2>1, <2>2 DEF MissedInv, MissedIsExact, In
<1>4. CASE host'.pc = "poll_tick"
  BY <1>1, <1>4 DEF HostPolls, MissedInv, MissedIsExact, In
<1>5. CASE host'.pc = "act"
  <2>1. /\ Minus(mem["SIGNAL_SEQ"], host.seq) = obs.lag
        /\ Minus(host.seq, host.sigSeq) = obs.dueLag /\ obs.dueLag # 0
        /\ host'.sigSeq = host.seq
        /\ host'.missed = Minus(Minus(host.seq, host.sigSeq), 1)
        /\ obs'.lag = obs.lag /\ obs'.dueLag = obs.dueLag
        /\ mem'["SIGNAL_SEQ"] = mem["SIGNAL_SEQ"]
    BY <1>1, <1>5 DEF HostPolls, MissedInv, In
  <2>2. Minus(obs.dueLag, 1) = obs.dueLag - 1
    BY <2>1, DistanceFacts, SequenceTypes
  <2> QED
    BY <1>5, <2>1, <2>2 DEF MissedInv, MissedIsExact, In
<1>6. CASE host'.pc \in Live \ {"adopt_sig", "adopt_fill", "poll_side",
                                "poll_tick", "act"}
  BY <1>1, <1>6 DEF HostPolls, MissedInv, MissedIsExact, In
<1>7. CASE host'.pc \notin Live \ {"adopt_sig"}
  BY <1>7 DEF MissedInv, MissedIsExact, Live, RunPcs, In
<1> QED
  BY <1>2, <1>3, <1>4, <1>5, <1>6, <1>7

\* The count of missed decisions is exact although the host reads the number,
\* the side and the tick of a decision in three accesses and the CPU may
\* announce further ones between them; the number may wrap.
THEOREM MissedExactly ==
    ASSUME "reset" \notin Ops, SleepLaps >= 2
    PROVE  Spec => []MissedIsExact
<1>1. Init => MissedInv
  BY DEF Init, HostInit, NewHost, MissedInv, MissedIsExact, In, Live, RunPcs,
     Adopting
<1>2. FabricTypeOK /\ HandshakeInv /\ MissedInv /\ [Next]_vars => MissedInv'
  <2>1. ASSUME MissedInv, UNCHANGED vars PROVE MissedInv'
    BY <2>1 DEF vars, MissedInv, MissedIsExact, In
  <2> QED
    BY <2>1, MissedCpu, MissedHost DEF Next, PressKey0
<1>3. MissedInv => MissedIsExact
  BY DEF MissedInv
<1> QED
  BY <1>1, <1>2, <1>3, HandshakeAlways, TypeCorrect, PTL DEF Spec

-----------------------------------------------------------------------------
(* The fills *)

\* The fill the CPU has yet to apply is on the RAM.
OnTheRam == mem["FILL_SEQ"] # cpu.seen \/ cpu.pc \in {"fill_side", "fill_qty"}

\* FillsConserved by cases: the fill is in the host's hands, on the RAM, or
\* applied.
FillsKept ==
    /\ host.pc \in {"fill_qty", "fill_seq"} =>
          cpu.pos + Signed(host.fill[1], host.fill[2]) = obs.truth
    /\ host.pc \in Live \ {"fill_qty", "fill_seq"} =>
          /\ OnTheRam =>
                cpu.pos + Signed(mem["FILL_SIDE"], mem["FILL_QTY"]) = obs.truth
          /\ ~OnTheRam => cpu.pos = obs.truth

\* After the loader's request was acknowledged the CPU holds, or is about to
\* read, the inventory the loader configured, and has no fill to apply.
Synced ==
    /\ cpu.pc \notin {"halt", "restart_ack", "fill_side", "fill_qty"}
    /\ ~At("init_pos") => cpu.pos = obs.truth
    /\ cpu.pc \notin {"init_pos", "init_fill"} => mem["FILL_SEQ"] = cpu.seen

FillInv ==
    /\ In("load") => host.start = obs.truth
    /\ host.pc \in Configured => mem["CFG_POSITION"] = obs.truth
    /\ host.pc \in Waiting /\ mem["CFG_RESTART"] = 0 => Synced
    /\ host.pc \in Live =>
          /\ cpu.pc \in {"fill_side", "fill_qty"} => mem["FILL_SEQ"] = cpu.seen
          /\ At("fill_qty") => cpu.fside = mem["FILL_SIDE"]
    /\ host.pc \in Live \ {"adopt_sig", "adopt_fill"} =>
          host.fillSeq = mem["FILL_SEQ"]
    /\ host.pc \in {"fill_qty", "fill_seq"} =>
          FillPaced /\ mem["FILL_SIDE"] = host.fill[1]
    /\ In("fill_seq") => mem["FILL_QTY"] = host.fill[2]
    /\ FillsKept

\* The quantities that are added up are integers.
LEMMA FillTypes ==
    ASSUME FabricTypeOK
    PROVE  /\ cpu.pos \in Int /\ obs.truth \in Int
           /\ mem["FILL_QTY"] \in Int /\ mem["FILL_SIDE"] \in Int
           /\ Signed(mem["FILL_SIDE"], mem["FILL_QTY"]) \in Int
           /\ Signed(host.fill[1], host.fill[2]) \in Int
<1>1. /\ cpu.pos \in Int /\ obs.truth \in Int /\ host.fill \in FillReports
  BY DEF FabricTypeOK, CpuTypeOK, CpuRegisters, ObsRecords, HostTypeOK, HostRecords
<1>2. mem["FILL_QTY"] \in Int /\ mem["FILL_SIDE"] \in Int
  BY WordNames DEF FabricTypeOK, MemTypeOK
<1>3. host.fill[1] \in Int /\ host.fill[2] \in Int
  BY <1>1, HostRanges
<1> QED
  BY <1>1, <1>2, <1>3 DEF Signed

\* The CPU applies a fill once, and none while it re-initialises.
LEMMA FillsCpu ==
    ASSUME FabricTypeOK, HandshakeInv, FillInv, CpuStep
    PROVE  FillInv'
<1>1. CpuFlow /\ CpuKeeps /\ CpuStores /\ CpuCounts /\ host' = host
  BY CpuFlows, CpuWrites, CpuCounted DEF CpuStep
<1>2. /\ cpu.pc \in CpuPcs /\ obs'.truth = obs.truth
      /\ mem'["CFG_POSITION"] = mem["CFG_POSITION"]
      /\ mem'["FILL_SEQ"] = mem["FILL_SEQ"]
      /\ mem'["FILL_SIDE"] = mem["FILL_SIDE"]
      /\ mem'["FILL_QTY"] = mem["FILL_QTY"]
      /\ mem'["CFG_RESTART"] = IF At("restart_ack") THEN 0
                                                    ELSE mem["CFG_RESTART"]
  BY <1>1
  DEF FabricTypeOK, CpuTypeOK, CpuRegisters, CpuCounts, CpuStores, InputWords
<1>3. ASSUME host.pc \in Waiting, mem'["CFG_RESTART"] = 0
      PROVE  Synced'
  <2>1. CASE At("restart_ack")
    BY <1>1, <2>1 DEF CpuFlow, Synced, At
  <2>2. CASE At("init_pos")
    <3>1. mem["CFG_POSITION"] = obs.truth
      BY <1>3 DEF FillInv, Configured
    <3> QED
      BY <1>1, <1>2, <2>2, <3>1 DEF CpuFlow, Synced, At
  <2>3. CASE At("init_fill") \/ At("restart") \/ At("fill")
    BY <1>1, <1>2, <1>3, <2>3 DEF FillInv, CpuFlow, CpuKeeps, Synced, At
  <2>4. CASE cpu.pc \notin {"restart_ack", "init_pos", "init_fill", "restart",
                            "fill"}
    <3>1. Synced
      BY <1>2, <1>3, <2>4 DEF FillInv, At
    <3>2. cpu'.pc \notin {"halt", "restart_ack", "fill_side", "fill_qty",
                          "init_pos", "init_fill"}
      BY <1>1, <1>2, <2>4, <3>1 DEF CpuFlow, CpuPcs, Synced, At
    <3> QED
      BY <1>1, <1>2, <2>4, <3>1, <3>2 DEF CpuKeeps, Synced, At
  <2> QED
    BY <2>1, <2>2, <2>3, <2>4 DEF At
<1>4. CASE host.pc \notin Live
  <2>1. host.pc \notin {"fill_qty", "fill_seq"}
    BY <1>4 DEF Live, RunPcs
  <2> QED
    BY <1>1, <1>2, <1>3, <1>4, <2>1 DEF FillInv, FillsKept, In
<1>5. CASE host.pc \in Live
  <2>0. /\ cpu.pc \in Steady /\ cpu'.pc \in Steady
        /\ host.pc \notin Waiting /\ ~In("load") /\ host.pc \notin Configured
    <3>1. Restarted /\ ~At("mismatch")
      BY <1>5 DEF HandshakeInv, Probed
    <3>2. Restarted'
      BY <3>1, RestartedCpu
    <3>3. cpu.pc \in Steady
      BY <3>1 DEF Restarted
    <3>4. cpu'.pc # "mismatch"
      BY <1>1, <3>3 DEF CpuFlow, Steady, CpuPcs, At
    <3> QED
      BY <1>5, <3>2, <3>3, <3>4
      DEF Restarted, At, Live, RunPcs, Adopting, Waiting, Configured, In
  <2> HIDE DEF Steady
  <2>1. CASE At("fill")
    BY <1>1, <1>2, <1>5, <2>0, <2>1
    DEF CpuFlow, CpuKeeps, FillInv, FillsKept, OnTheRam, FillPaced, At, In
  <2>2. CASE At("fill_side")
    BY <1>1, <1>2, <1>5, <2>0, <2>2
    DEF CpuFlow, CpuKeeps, FillInv, FillsKept, OnTheRam, FillPaced, At, In
  <2>3. CASE At("fill_qty")
    <3>1. host.pc \in Live \ {"fill_qty", "fill_seq"} /\ OnTheRam
      BY <1>5, <2>3 DEF FillInv, FillPaced, OnTheRam, At
    <3>2. cpu.pos + Signed(mem["FILL_SIDE"], mem["FILL_QTY"]) = obs.truth
      BY <3>1 DEF FillInv, FillsKept
    <3>3. /\ cpu'.pos = obs.truth /\ cpu'.pc = "fill_pos"
          /\ cpu'.seen = cpu.seen /\ mem["FILL_SEQ"] = cpu.seen
      BY <1>1, <1>5, <2>3, <3>2, FillTypes
      DEF CpuFlow, CpuKeeps, FillInv, Signed, At
    <3> QED
      BY <1>1, <1>2, <1>5, <2>0, <3>1, <3>3
      DEF FillInv, FillsKept, OnTheRam, At, In
  <2>4. CASE cpu.pc \notin {"fill", "fill_side", "fill_qty"}
    <3>1. /\ cpu'.pos = cpu.pos /\ cpu'.seen = cpu.seen
          /\ cpu'.pc \notin {"fill_side", "fill_qty"}
      BY <1>1, <1>2, <2>0, <2>4 DEF CpuFlow, CpuKeeps, CpuPcs, Steady, At
    <3> QED
      BY <1>1, <1>2, <1>5, <2>0, <2>4, <3>1
      DEF FillInv, FillsKept, OnTheRam, FillPaced, At, In
  <2> QED
    BY <2>1, <2>2, <2>3, <2>4 DEF At
<1> QED
  BY <1>4, <1>5

\* The host hands a fill over when the CPU has none, and a load hands over the
\* whole position.
LEMMA FillsHost ==
    ASSUME FabricTypeOK, HandshakeInv, FillInv, HostStep
    PROVE  FillInv'
<1>1. cpu' = cpu /\ HostLoads /\ HostFills
  BY HostEffects DEF HostEffect
<1>2. CASE host'.pc \notin Live
  <2>1. host'.pc \notin {"fill_qty", "fill_seq"} /\ obs'.truth = obs.truth
    BY <1>1, <1>2 DEF HostFills, Live, RunPcs
  <2>2. host'.pc = "load" => host'.start = obs'.truth
    BY <1>1, <2>1 DEF HostLoads, FillInv, In
  <2>3. ASSUME host'.pc \in Configured
        PROVE  mem'["CFG_POSITION"] = obs'.truth
    <3>1. CASE host.pc \in Configured
      BY <1>1, <2>1, <3>1 DEF HostLoads, FillInv, Configured, Waiting, In
    <3>2. CASE In("load") /\ mem'["CFG_POSITION"] = host.start
      BY <2>1, <3>2 DEF FillInv
    <3> QED
      BY <1>1, <2>3, <3>1, <3>2 DEF HostLoads
  <2>4. ASSUME host'.pc \in Waiting, mem'["CFG_RESTART"] = 0
        PROVE  Synced'
    <3>1. host.pc \in Waiting
      BY <1>1, <2>4 DEF HostLoads
    <3>2. mem["CFG_RESTART"] = 0 /\ FillWordsKept
      BY <1>1, <2>1, <2>4, <3>1 DEF HostLoads, HostFills, Waiting, In
    <3> QED
      BY <1>1, <2>1, <3>1, <3>2 DEF FillInv, Synced, FillWordsKept, At
  <2> QED
    BY <1>2, <2>1, <2>2, <2>3, <2>4 DEF FillInv, FillsKept, In
<1>3. CASE host'.pc = "adopt_sig"
  <2>1. /\ obs'.truth = obs.truth /\ FillWordsKept /\ In("beat")
        /\ host.ver = PROTOCOL_VERSION
    BY <1>1, <1>3 DEF HostFills, HostLoads, In
  <2>2. cpu.fabric = "current" /\ Restarted
    BY <2>1 DEF HandshakeInv, In, PROTOCOL_VERSION
  <2>3. mem["CFG_RESTART"] = 0 /\ cpu.pc \in Steady
    BY <2>2 DEF Restarted, HandshakeInv, Probed
  <2>4. /\ cpu.pos = obs.truth /\ mem["FILL_SEQ"] = cpu.seen
        /\ cpu.pc \notin {"fill_side", "fill_qty"}
    BY <2>1, <2>3 DEF FillInv, Synced, Waiting, Steady, At, In
  <2> QED
    BY <1>1, <1>3, <2>1, <2>4
    DEF FillInv, FillsKept, OnTheRam, FillWordsKept, Configured, Waiting, At, In
<1>4. CASE host'.pc \in Live /\ host'.pc # "adopt_sig"
  <2>0. /\ host.pc \in Live
        /\ host'.pc \notin Configured \cup Waiting \cup {"load"}
    BY <1>1, <1>4 DEF HostLoads, Live, RunPcs, Adopting, Configured, Waiting
  <2>1. CASE host'.pc = "fill_qty"
    <3>1. /\ In("idle") /\ FillPaced /\ cpu.pos = obs.truth
          /\ host.fillSeq = mem["FILL_SEQ"]
      BY <1>1, <2>1
      DEF HostFills, FillInv, FillsKept, OnTheRam, FillPaced, Live, RunPcs, In
    <3> QED
      BY <1>1, <2>0, <2>1, <3>1
      DEF HostFills, FillInv, FillsKept, FillPaced, At, In
  <2>2. CASE host'.pc = "fill_seq"
    <3>1. In("fill_qty") /\ obs'.truth = obs.truth
      BY <1>1, <2>2 DEF HostFills
    <3>2. /\ FillPaced /\ mem["FILL_SIDE"] = host.fill[1]
          /\ host.fillSeq = mem["FILL_SEQ"]
          /\ cpu.pos + Signed(host.fill[1], host.fill[2]) = obs.truth
      BY <3>1 DEF FillInv, FillsKept, Live, RunPcs, In
    <3> QED
      BY <1>1, <2>0, <2>2, <3>1, <3>2
      DEF HostFills, FillInv, FillsKept, FillPaced, At, In
  <2>3. CASE In("fill_seq") /\ host'.pc \notin {"fill_qty", "fill_seq"}
    <3>1. /\ host'.pc = "idle" /\ host'.fillSeq = Bump(host.fillSeq)
          /\ mem'["FILL_SEQ"] = Bump(host.fillSeq)
          /\ mem'["FILL_SIDE"] = mem["FILL_SIDE"]
          /\ mem'["FILL_QTY"] = mem["FILL_QTY"] /\ obs'.truth = obs.truth
      BY <1>1, <1>4, <2>3 DEF HostFills, Live, RunPcs, Adopting
    <3>2. /\ FillPaced /\ mem["FILL_SIDE"] = host.fill[1]
          /\ mem["FILL_QTY"] = host.fill[2]
          /\ host.fillSeq = mem["FILL_SEQ"]
          /\ cpu.pos + Signed(host.fill[1], host.fill[2]) = obs.truth
      BY <2>3 DEF FillInv, FillsKept, Live, RunPcs, In
    <3>3. Bump(host.fillSeq) # host.fillSeq
      BY SequenceTypes, WordAssumption DEF Bump, SeqNumbers
    <3>4. OnTheRam'
      BY <1>1, <3>1, <3>2, <3>3 DEF OnTheRam, FillPaced
    <3> QED
      BY <1>1, <2>0, <3>1, <3>2, <3>4
      DEF FillInv, FillsKept, FillPaced, At, In
  <2>4. CASE ~In("fill_seq") /\ host'.pc \notin {"fill_qty", "fill_seq"}
    <3>1. /\ ~In("fill_qty") /\ FillWordsKept /\ obs'.truth = obs.truth
          /\ host'.pc \in Live \ {"adopt_sig", "adopt_fill"} =>
                host'.fillSeq = mem'["FILL_SEQ"]
      BY <1>1, <1>4, <2>4
      DEF HostFills, FillInv, FillWordsKept, Live, RunPcs, Adopting, In
    <3>2. OnTheRam' = OnTheRam
      BY <1>1, <3>1 DEF OnTheRam, FillWordsKept
    <3> QED
      BY <1>1, <1>4, <2>0, <2>4, <3>1, <3>2
      DEF FillInv, FillsKept, FillWordsKept, At, In
  <2> QED
    BY <2>1, <2>2, <2>3, <2>4
<1> QED
  BY <1>2, <1>3, <1>4

\* The fill invariant holds throughout.
LEMMA FillsAlways ==
    ASSUME "reset" \notin Ops, SleepLaps >= 2
    PROVE  Spec => []FillInv
<1>1. Init => FillInv
  BY DEF Init, HostInit, NewHost, FillInv, FillsKept, In, Live, RunPcs,
     Adopting, Configured, Waiting
<1>2. FabricTypeOK /\ HandshakeInv /\ FillInv /\ [Next]_vars => FillInv'
  <2>1. ASSUME FillInv, UNCHANGED vars PROVE FillInv'
    BY <2>1
    DEF vars, FillInv, FillsKept, OnTheRam, Synced, FillPaced, In, At
  <2> QED
    BY <2>1, FillsCpu, FillsHost DEF Next, PressKey0
<1> QED
  BY <1>1, <1>2, HandshakeAlways, TypeCorrect, PTL DEF Spec

\* No fill is lost and none is applied twice: while the host trades, what the
\* CPU holds and the fill under way add up to the broker's position, through
\* crashes in the middle of a report, reloads and wrapped fill numbers.
THEOREM FillsAddUp ==
    ASSUME "reset" \notin Ops, SleepLaps >= 2
    PROVE  Spec => []FillsConserved
<1>1. FabricTypeOK /\ FillInv => FillsConserved
  <2> SUFFICES ASSUME FabricTypeOK, FillInv PROVE FillsConserved
    OBVIOUS
  <2>1. cpu.pos + 0 = cpu.pos
    BY FillTypes
  <2> QED
    BY <2>1, Zenon
    DEF FillInv, FillsKept, OnTheRam, FillsConserved, Live, Adopting, RunPcs
<1> QED
  BY <1>1, FillsAlways, TypeCorrect, PTL

\* KEY[0] is the only way to lose the position: without it the inventory the
\* CPU limits itself by is the broker's between passes, also after any number
\* of crashes and reloads (trading.asm on the init section: "A restart must
\* not make the CPU forget a position that really exists at the broker").
THEOREM PositionKeptWithoutKey0 ==
    ASSUME "reset" \notin Ops, SleepLaps >= 2
    PROVE  Spec => []PositionIsTruth
<1>1. FillInv => PositionIsTruth
  BY DEF FillInv, FillsKept, OnTheRam, PositionIsTruth, Live, At
<1> QED
  BY <1>1, FillsAlways, PTL

-----------------------------------------------------------------------------
(* A load comes to its end *)

\* What LoadIsBounded says of a step.
LoadFalls ==
    /\ In("down") => LoadStepsLeft' <= 3 * MaxWaits + 13
    /\ host.pc \in LoadPcs /\ host' # host =>
          LoadStepsLeft' < LoadStepsLeft \/ host'.pc \in {"idle", "down"}

\* The steps left from each access of fmma_fpga_load.
LEMMA StepsLeft ==
    /\ In("load") => LoadStepsLeft = 3 * (MaxWaits - host.waits) + 14 - host.i
    /\ In("program") => LoadStepsLeft = 3 * (MaxWaits - host.waits) + 8
    /\ In("version0") => LoadStepsLeft = 3 * (MaxWaits - host.waits) + 7
    /\ In("restart1") => LoadStepsLeft = 3 * (MaxWaits - host.waits) + 6
    /\ In("beat0") => LoadStepsLeft = 3 * (MaxWaits - host.waits) + 5
    /\ In("sleep") => LoadStepsLeft = 3 * (MaxWaits - host.waits) + 4
    /\ In("version") => LoadStepsLeft = 3 * (MaxWaits - host.waits) + 3
    /\ In("beat") => LoadStepsLeft = 3 * (MaxWaits - host.waits) + 2
    /\ In("adopt_sig") => LoadStepsLeft = 4
    /\ In("adopt_fill") => LoadStepsLeft = 3
    /\ In("adopt_tick") => LoadStepsLeft = 2
    /\ In("enable") => LoadStepsLeft = 1
    /\ host.pc \notin LoadPcs \/ In("fail") => LoadStepsLeft = 0
BY DEF LoadStepsLeft, In, LoadPcs

\* The same after a step.
LEMMA StepsLeftAfter ==
    /\ host'.pc = "load" => LoadStepsLeft' = 3 * (MaxWaits - host'.waits) + 14 - host'.i
    /\ host'.pc = "program" => LoadStepsLeft' = 3 * (MaxWaits - host'.waits) + 8
    /\ host'.pc = "version0" => LoadStepsLeft' = 3 * (MaxWaits - host'.waits) + 7
    /\ host'.pc = "restart1" => LoadStepsLeft' = 3 * (MaxWaits - host'.waits) + 6
    /\ host'.pc = "beat0" => LoadStepsLeft' = 3 * (MaxWaits - host'.waits) + 5
    /\ host'.pc = "sleep" => LoadStepsLeft' = 3 * (MaxWaits - host'.waits) + 4
    /\ host'.pc = "version" => LoadStepsLeft' = 3 * (MaxWaits - host'.waits) + 3
    /\ host'.pc = "beat" => LoadStepsLeft' = 3 * (MaxWaits - host'.waits) + 2
    /\ host'.pc = "adopt_sig" => LoadStepsLeft' = 4
    /\ host'.pc = "adopt_fill" => LoadStepsLeft' = 3
    /\ host'.pc = "adopt_tick" => LoadStepsLeft' = 2
    /\ host'.pc = "enable" => LoadStepsLeft' = 1
    /\ host'.pc \notin LoadPcs \/ host'.pc = "fail" => LoadStepsLeft' = 0
BY DEF LoadStepsLeft, In, LoadPcs

\* Every step of the host, and the steps of the others, which leave it alone.
LEMMA LoadFallsStep ==
    ASSUME FabricTypeOK, [Next]_vars
    PROVE  LoadFalls
<1>1. /\ host \in HostRecords /\ host.i \in 1 .. 5 /\ Len(LoadStores) = 5
      /\ host.waits \in 0 .. MaxWaits - 1 /\ MaxWaits \in Nat
  BY HostAssumption DEF FabricTypeOK, HostTypeOK, HostRecords, LoadStores
<1>2. CASE host' = host
  BY <1>1, <1>2, StepsLeftAfter DEF LoadFalls, In, LoadPcs
<1>3. CASE HostLaunch
  <2>1. In("down") /\ host'.pc = "load" /\ host'.waits = host.waits /\ host'.i = host.i
    BY <1>1, <1>3 DEF HostLaunch, Launch, HostRecords
  <2>2. LoadStepsLeft' = 3 * (MaxWaits - host'.waits) + 14 - host'.i
    BY <2>1, StepsLeftAfter
  <2> QED BY <1>1, <2>1, <2>2 DEF LoadFalls, In, LoadPcs
<1>4. CASE HostClose \/ HostCrash
  <2>1. host'.pc = "down" /\ ~In("down")
    BY <1>1, <1>4 DEF HostClose, HostCrash, Close, Crash, NewHost, In
  <2> QED BY <2>1 DEF LoadFalls
<1>5. CASE HostPublish \/ HostFill \/ HostFillRest \/ HostPoll \/ HostPollRest \/ HostHalt
  <2>1. host.pc \in RunPcs
    BY <1>5 DEF HostPublish, HostFill, HostFillRest, HostPoll, HostPollRest, HostHalt,
       PublishBegin, PublishBid, PublishAsk, PublishEnd, FillBegin, FillQty, FillEnd,
       PollBegin, PollSide, PollTick, Act, ActHalted, In, RunPcs
  <2> QED BY <2>1 DEF LoadFalls, In, LoadPcs, RunPcs
<1>6. CASE HostLoad
  <2> USE <1>1 DEF In, Goto, HostRecords
  <2> SUFFICES ~In("down") /\ (LoadStepsLeft' < LoadStepsLeft \/ host'.pc \in {"idle", "down"})
    BY DEF LoadFalls
  <2>1. CASE LoadConfig
    <3>1. CASE host.i < 5
      <4>1. /\ In("load") /\ host'.pc = "load" /\ host'.waits = host.waits
            /\ host'.i = host.i + 1
        BY <2>1, <3>1 DEF LoadConfig
      <4> QED BY <4>1, StepsLeft, StepsLeftAfter
    <3>2. CASE ~(host.i < 5)
      <4>1. In("load") /\ host'.pc = "program" /\ host'.waits = host.waits
        BY <2>1, <3>2 DEF LoadConfig
      <4> QED BY <4>1, StepsLeft, StepsLeftAfter
    <3> QED BY <3>1, <3>2
  <2>2. CASE WriteProgram(cpu.fabric # "absent")
    <3>1. /\ In("program") /\ host'.pc \in {"version0", "fail"} /\ host'.waits = host.waits
      BY <2>2 DEF WriteProgram
    <3> QED BY <3>1, StepsLeft, StepsLeftAfter
  <2>3. CASE ClearVersion
    <3>1. In("version0") /\ host'.pc = "restart1" /\ host'.waits = host.waits
      BY <2>3 DEF ClearVersion
    <3> QED BY <3>1, StepsLeft, StepsLeftAfter
  <2>4. CASE AskRestart
    <3>1. In("restart1") /\ host'.pc = "beat0" /\ host'.waits = host.waits
      BY <2>4 DEF AskRestart
    <3> QED BY <3>1, StepsLeft, StepsLeftAfter
  <2>5. CASE ReadBeat0
    <3>1. In("beat0") /\ host'.pc = "sleep" /\ host'.waits = host.waits
      BY <2>5 DEF ReadBeat0
    <3> QED BY <3>1, StepsLeft, StepsLeftAfter
  <2>6. CASE Wake
    <3>1. In("sleep") /\ host'.pc = "version" /\ host'.waits = host.waits
      BY <2>6 DEF Wake
    <3> QED BY <3>1, StepsLeft, StepsLeftAfter
  <2>7. CASE ReadVersion
    <3>1. In("version") /\ host'.pc = "beat" /\ host'.waits = host.waits
      BY <2>7 DEF ReadVersion
    <3> QED BY <3>1, StepsLeft, StepsLeftAfter
  <2>8. CASE ReadBeat
    <3>1. /\ In("beat")
          /\ \/ host'.pc \in {"adopt_sig", "fail"}
             \/ host'.pc = "sleep" /\ host'.waits = host.waits + 1
      BY <2>8 DEF ReadBeat
    <3> QED BY <3>1, StepsLeft, StepsLeftAfter
  <2>9. CASE AdoptSignalSeq \/ AdoptFillSeq \/ AdoptTickSeq
    <3>1. \/ In("adopt_sig") /\ host'.pc = "adopt_fill"
          \/ In("adopt_fill") /\ host'.pc = "adopt_tick"
          \/ In("adopt_tick") /\ host'.pc = "enable"
      BY <2>9 DEF AdoptSignalSeq, AdoptFillSeq, AdoptTickSeq
    <3> QED BY <3>1, StepsLeft, StepsLeftAfter
  <2>10. CASE EnableTrading
    <3>1. In("enable") /\ host'.pc = "idle"
      BY <2>10 DEF EnableTrading, Return
    <3> QED BY <3>1
  <2> QED
    BY <1>6, <2>1, <2>2, <2>3, <2>4, <2>5, <2>6, <2>7, <2>8, <2>9, <2>10 DEF HostLoad
<1> QED
  BY <1>2, <1>3, <1>4, <1>5, <1>6
  DEF Next, CpuStep, PressKey0, HostStep, HostProgress, vars

\* fmma_fpga_load and wait_for_cpu: whatever the board holds and whatever the CPU
\* does, a load has at most 3 * MaxWaits + 13 steps before it and every one it takes
\* leaves fewer; the half of LoadTerminates that needs no fairness.
THEOREM LoadBounded == Spec => LoadIsBounded
<1>1. FabricTypeOK /\ [Next]_vars => [LoadFalls]_vars
  BY LoadFallsStep
<1> QED BY <1>1, TypeCorrect, PTL DEF Spec, LoadIsBounded, LoadFalls
=============================================================================
