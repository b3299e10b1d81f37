------------------------------- MODULE Fabric -------------------------------
(***************************************************************************)
(* The host and the fabric CPU at work on the shared RAM: HostFpga and     *)
(* TradingCpu, interleaved access by access.                               *)
(*                                                                         *)
(* board, taken and obs watch the two and are read by no action of either; *)
(* the guards that read them are the bounds and the timing facts named     *)
(* below.                                                                  *)
(***************************************************************************)
EXTENDS TradingCpu, HostFpga

CONSTANTS
    Ops,           \* what the host does once it runs, and what may go wrong:
                   \* "publish", "fill", "poll", "crash", "reset"
    MaxSessions,   \* how often the host process is started
    MaxResets,     \* how often KEY[0] is pressed
    MaxInventory,  \* the broker's position stays within +-MaxInventory
    SleepLaps      \* passes of the CPU loop that fit in the loader's usleep

ASSUME BoundsAssumption ==
    /\ Ops \subseteq {"publish", "fill", "poll", "crash", "reset"}
    /\ MaxSessions \in Nat /\ MaxResets \in Nat /\ MaxInventory \in Nat
    /\ SleepLaps \in Nat

VARIABLES
    board,   \* the last quote whose publication was completed
    taken,   \* the last quote the CPU accepted since it last initialised
    obs      \* counters of what has happened, see ObsInit

vars == <<mem, cpu, host, board, taken, obs>>

(***************************************************************************)
(* truth    the position at the broker: every fill the host was told of    *)
(* ann      the side and tick of the last decision announced by SIGNAL_SEQ *)
(* due      ann when the host last read a new SIGNAL_SEQ                   *)
(* lag      decisions announced since the host last read SIGNAL_SEQ        *)
(* dueLag   lag when the host last read a new SIGNAL_SEQ                   *)
(* late     decisions announced since CFG_ENABLE was last cleared          *)
(* orphan   decisions announced since the host process went away           *)
(* laps     heartbeats since the loader went to sleep, up to SleepLaps     *)
(***************************************************************************)
ObsInit == [truth |-> 0, ann |-> <<SIGNAL_NONE, 0>>, due |-> <<SIGNAL_NONE, 0>>,
            lag |-> 0, dueLag |-> 0, late |-> 0, orphan |-> 0,
            laps |-> 0, sessions |-> 0, resets |-> 0]

Init ==
    /\ RamInit /\ CpuInit /\ HostInit
    /\ board = NoQuote /\ taken = NoQuote
    /\ obs = ObsInit

-----------------------------------------------------------------------------
(* Timing facts.  A CPU pass takes 0.8 to 4 microseconds. *)

ReadWindow == {"bid", "ask", "again"}

\* The host does not go once round the 2^32 numbers while the CPU is between
\* its two reads of TICK_SEQ.
TickPaced == cpu.pc \in ReadWindow => Bump(Bump(host.tickSeq)) # cpu.tick

\* Two fills are further apart than a CPU pass: each is the answer to an HTTP
\* request of its own.
FillPaced == /\ mem["FILL_SEQ"] = cpu.seen
             /\ cpu.pc \notin {"fill_side", "fill_qty"}

\* The host reads SIGNAL_SEQ before 2^32 decisions have piled up.
SignalPaced == At("signal_seq") => obs.lag < WordMod - 1

\* usleep(100000) is thousands of passes of a CPU that is running.
SleptEnough == obs.laps = SleepLaps \/ cpu.fabric = "held"

-----------------------------------------------------------------------------
Beats == At("loop") \/ At("mismatch")
Accepts == At("again") /\ SnapshotStable

ObserveCpu ==
    /\ taken' = IF Accepts THEN <<cpu.bid, cpu.ask>>
                ELSE IF At("init_pos") THEN NoQuote ELSE taken
    /\ obs' = [obs EXCEPT
         !.laps = IF Beats /\ In("sleep") /\ @ < SleepLaps THEN @ + 1 ELSE @,
         !.lag = IF At("signal_seq") THEN @ + 1 ELSE @,
         !.ann = IF At("signal_seq") THEN <<cpu.side, cpu.last>> ELSE @,
         !.late = IF At("signal_seq") /\ mem["CFG_ENABLE"] = 0 THEN @ + 1 ELSE @,
         !.orphan = IF At("signal_seq") /\ In("down") THEN @ + 1 ELSE @]

CpuStep ==
    /\ CpuNext
    /\ SignalPaced
    /\ ObserveCpu
    /\ UNCHANGED <<host, board>>

PressKey0 ==
    /\ "reset" \in Ops /\ obs.resets < MaxResets
    /\ CpuReset
    /\ taken' = NoQuote
    /\ obs' = [obs EXCEPT !.resets = @ + 1]
    /\ UNCHANGED <<host, board>>

-----------------------------------------------------------------------------
HostLaunch ==
    /\ obs.sessions < MaxSessions
    /\ Launch(obs.truth)
    /\ obs' = [obs EXCEPT !.sessions = @ + 1]
    /\ UNCHANGED <<cpu, board, taken>>

HostLoad ==
    /\ \/ LoadConfig \/ WriteProgram(cpu.fabric # "absent") \/ ClearVersion
       \/ AskRestart \/ ReadBeat0 \/ (SleptEnough /\ Wake) \/ ReadVersion
       \/ ReadBeat \/ AdoptSignalSeq \/ AdoptFillSeq \/ AdoptTickSeq
       \/ EnableTrading
    /\ obs' = [obs EXCEPT !.laps = IF In("sleep") THEN @ ELSE 0,
                          !.lag = IF In("adopt_sig") THEN 0 ELSE @,
                          !.late = IF In("enable") THEN 0 ELSE @,
                          !.orphan = IF In("enable") THEN 0 ELSE @]
    /\ UNCHANGED <<cpu, board, taken>>

HostPublish ==
    /\ "publish" \in Ops
    /\ \/ TickPaced /\ \E q \in Quotes : PublishBegin(q)
       \/ PublishBid \/ PublishAsk \/ PublishEnd
    /\ board' = IF In("pub_end") THEN host.quote ELSE board
    /\ UNCHANGED <<cpu, taken, obs>>

Signed(side, qty) == IF side = FILL_BOUGHT THEN qty ELSE -qty

\* The broker filled an order: the truth changes before the host says so.
HostFill ==
    /\ "fill" \in Ops /\ FillPaced
    /\ \E side \in {FILL_BOUGHT, FILL_SOLD}, qty \in FillQtys :
          LET t == obs.truth + Signed(side, qty)
          IN  /\ -MaxInventory <= t /\ t <= MaxInventory
              /\ FillBegin(side, qty)
              /\ obs' = [obs EXCEPT !.truth = t]
    /\ UNCHANGED <<cpu, board, taken>>

HostFillRest ==
    /\ FillQty \/ FillEnd
    /\ UNCHANGED <<cpu, board, taken, obs>>

HostPoll ==
    /\ "poll" \in Ops
    /\ PollBegin
    /\ obs' = [obs EXCEPT !.due = obs.ann, !.dueLag = obs.lag, !.lag = 0]
    /\ UNCHANGED <<cpu, board, taken>>

HostPollRest ==
    /\ PollSide \/ PollTick \/ Act
    /\ UNCHANGED <<cpu, board, taken, obs>>

HostHalt ==
    /\ ActHalted
    /\ obs' = [obs EXCEPT !.late = IF mem["CFG_ENABLE"] = 0 THEN @ ELSE 0]
    /\ UNCHANGED <<cpu, board, taken>>

HostClose ==
    /\ Close
    /\ obs' = [obs EXCEPT !.late = IF mem["CFG_ENABLE"] = 0 THEN @ ELSE 0,
                          !.orphan = 0]
    /\ UNCHANGED <<cpu, board, taken>>

HostCrash ==
    /\ "crash" \in Ops
    /\ Crash
    /\ obs' = [obs EXCEPT !.orphan = 0]
    /\ UNCHANGED <<cpu, board, taken>>

HostProgress == HostLoad \/ HostPublish \/ HostFillRest \/ HostPoll
                  \/ HostPollRest \/ HostHalt
HostStep == HostProgress \/ HostLaunch \/ HostFill \/ HostClose \/ HostCrash

Next == CpuStep \/ HostStep \/ PressKey0

Spec == Init /\ [][Next]_vars

(***************************************************************************)
(* The CPU is clocked, and the host finishes a call it has begun unless    *)
(* the process dies; nobody has to start a process, publish or fill.       *)
(***************************************************************************)
FairSpec == /\ Spec
            /\ WF_vars(CpuStep)
            /\ WF_vars(HostLoad) /\ WF_vars(HostFillRest)
            /\ WF_vars(HostPollRest \/ HostHalt)
            /\ WF_vars(HostPublish /\ ~In("idle"))
            /\ WF_vars(HostPoll)
            /\ WF_vars(HostClose /\ In("fail"))

-----------------------------------------------------------------------------
(* Properties *)

Decisions == Sides \X SeqNumbers
LapCounts == 0 .. SleepLaps

ObsRecords ==
    [truth : Int, ann : Decisions, due : Decisions, lag : Nat, dueLag : Nat,
     late : Nat, orphan : Nat, laps : LapCounts, sessions : Nat, resets : Nat]

\* Type correctness of the RAM, the CPU's registers, the host's structure and
\* the observers.
FabricTypeOK ==
    /\ MemTypeOK /\ CpuTypeOK /\ HostTypeOK
    /\ board \in QuoteOrNone
    /\ taken \in Int \X Int
    /\ obs \in ObsRecords

Publishing == {"pub_bid", "pub_ask", "pub_end"}

\* Why the seqlock works, as an inductive invariant.  While TICK_SEQ is even
\* the two words are the quote last completed; while the host writes them it
\* is odd, and will not become the number a CPU in mid-read remembers; and a
\* CPU whose number still stands has copied the words as they are.
SeqlockInv ==
    /\ host.tickSeq % 2 = 0
    /\ mem["TICK_SEQ"] % 2 = 0 => board = <<mem["BID"], mem["ASK"]>>
    /\ host.pc \in Publishing =>
          /\ mem["TICK_SEQ"] = Bump(host.tickSeq)
          /\ host.quote \in Quotes
          /\ TickPaced
    /\ In("pub_ask") => mem["BID"] = host.quote[1]
    /\ In("pub_end") => host.quote = <<mem["BID"], mem["ASK"]>>
    /\ cpu.pc \in ReadWindow => cpu.tick % 2 = 0
    /\ cpu.pc \in ReadWindow /\ mem["TICK_SEQ"] = cpu.tick =>
          /\ ~At("bid") => cpu.bid = mem["BID"]
          /\ At("again") => cpu.ask = mem["ASK"]

Channel == INSTANCE QuoteBoard

\* The seqlock of publish_tick and trading.asm implements a board that changes
\* and is read in one step: whatever the CPU commits to is one whole quote,
\* the newest one completed, also when the host dies in the middle of a
\* publication and a new one continues from the odd number it left.
SnapshotsAreWhole == Channel!Spec

\* What the CPU holds plus the fill it has yet to apply is the position at the
\* broker, at any point of a CPU pass, through host crashes in the middle of
\* report_fill, reloads and wrapped fill numbers: no fill is lost, none is
\* applied twice.
FillsConserved ==
    (host.pc \in RunPcs \cup {"adopt_sig", "adopt_fill", "adopt_tick", "enable"})
    => cpu.pos + (IF \/ host.pc \in {"fill_qty", "fill_seq"}
                  THEN Signed(host.fill[1], host.fill[2])
                  ELSE IF mem["FILL_SEQ"] # cpu.seen
                          \/ cpu.pc \in {"fill_side", "fill_qty"}
                  THEN Signed(mem["FILL_SIDE"], mem["FILL_QTY"]) ELSE 0)
       = obs.truth

\* Clearing CFG_ENABLE (a halt, a shutdown, a reload) lets at most the one
\* decision through whose CFG_ENABLE test had already been made.
AtMostOneLateDecision == obs.late <= 1

\* A host that dies leaves CFG_ENABLE set.  The CPU then announces at most the
\* decision it was making and one on the last quote it had not read yet.
AtMostTwoOrphanDecisions == obs.orphan <= 2

\* drain_fpga's count of decisions it never saw is exact, whatever the CPU
\* announces while the three words of a decision are being read.
MissedIsExact == In("act") => host.missed = obs.dueLag - 1

\* The host trades only against a CPU that has been restarted by this very
\* load, passed the datapath probe and speaks this protocol version.
TradesOnlyAfterHandshake ==
    (host.pc \in RunPcs \cup {"adopt_sig", "adopt_fill", "adopt_tick", "enable"})
    => /\ cpu.fabric = "current" /\ cpu.image = PROTOCOL_VERSION
       /\ mem["CFG_RESTART"] = 0
       /\ cpu.pc \notin {"halt", "init_pos", "init_fill", "init_clear",
                         "init_version", "restart_ack", "mismatch"}

\* What a load may still have before it: the accesses up to the wait loop, three
\* steps (sleep, version, heartbeat) for each attempt left, the accesses after it.
LoadStepsLeft ==
    LET attempts == 3 * (MaxWaits - host.waits)
    IN  CASE In("load")       -> attempts + 14 - host.i
          [] In("program")    -> attempts + 8
          [] In("version0")   -> attempts + 7
          [] In("restart1")   -> attempts + 6
          [] In("beat0")      -> attempts + 5
          [] In("sleep")      -> attempts + 4
          [] In("version")    -> attempts + 3
          [] In("beat")       -> attempts + 2
          [] In("adopt_sig")  -> 4
          [] In("adopt_fill") -> 3
          [] In("adopt_tick") -> 2
          [] In("enable")     -> 1
          [] OTHER            -> 0

\* Whatever the CPU does meanwhile, a load begins with a fixed number of steps
\* before it and every step it takes leaves fewer, until it trades, has failed or
\* is gone: wait_for_cpu never starts over.
LoadIsBounded ==
    [][/\ In("down") => LoadStepsLeft' <= 3 * MaxWaits + 13
       /\ host.pc \in LoadPcs /\ host' # host =>
             LoadStepsLeft' < LoadStepsLeft \/ host'.pc \in {"idle", "down"}]_vars

\* Whatever the board holds, a load ends: trading starts or the host gives up.
LoadTerminates == (host.pc \in LoadPcs) ~> (host.pc \in {"idle", "down"})

\* A running CPU reads every quote completed on the board unless a newer one
\* replaces it: the retries of the seqlock end, also after a KEY[0] in the
\* middle of a read and on the board that a killed host left.
QuoteIsRead ==
    \A s \in {n \in SeqNumbers : n % 2 = 0} :
       (In("idle") /\ mem["TICK_SEQ"] = s)
          ~> (cpu.last = s \/ mem["TICK_SEQ"] # s \/ In("down"))

-----------------------------------------------------------------------------
(* What comments and documents say that the code does not do *)

\* fmma_fpga.c on poll_signal: a new SIGNAL_SEQ "guarantees the words it
\* describes are already in memory".
SignalMatchesItsNumber == In("act") => <<host.side, host.tick>> = obs.due

\* trading.asm on the init section: "A restart must not make the CPU forget a
\* position that really exists at the broker".  Between CPU passes, with no
\* fill under way, the inventory the CPU limits itself by is the broker's, also
\* after KEY[0].
PositionIsTruth ==
    (host.pc \in RunPcs \ {"fill_qty", "fill_seq"} /\ At("loop")
       /\ mem["FILL_SEQ"] = cpu.seen)
    => cpu.pos = obs.truth
=============================================================================
