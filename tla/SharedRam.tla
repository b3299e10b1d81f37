----------------------------- MODULE SharedRam -----------------------------
(***************************************************************************)
(* The 4 KB dual-port RAM that the ARM host and the fabric CPU share, and  *)
(* the word names of protocol version 2 (Software/fmma_protocol.h).        *)
(* Every word is 32 bits and a single access is atomic; nothing else is.   *)
(*                                                                         *)
(* Left out: BID_SIZE, ASK_SIZE, CFG_HALF_SPREAD and CFG_SKEW (written by  *)
(* the host, never read by trading.asm) and QUOTE_BID, QUOTE_ASK (cleared  *)
(* once by trading.asm).  The program area is one word, ENTRY, because the *)
(* CPU idles on the zero word at its entry point and the loader stores     *)
(* that word last.                                                         *)
(***************************************************************************)
EXTENDS FixedPoint, Sequences, FiniteSets

CONSTANTS
    WordMod,     \* the sequence words wrap at this value (2^32 in the code)
    CountMod     \* so do HEARTBEAT and REJECTS (2^32); their own bound for TLC

ASSUME WordAssumption ==
    /\ WordMod \in Nat /\ WordMod >= 4 /\ WordMod % 2 = 0
    /\ CountMod \in Nat /\ CountMod >= 2

VARIABLE mem

InputWords == {"ENTRY", "TICK_SEQ", "BID", "ASK", "CFG_THRESH", "CFG_MAX_POS",
               "CFG_ENABLE", "CFG_RESTART", "CFG_POSITION", "FILL_SEQ",
               "FILL_SIDE", "FILL_QTY"}
OutputWords == {"HEARTBEAT", "SIGNAL", "SIGNAL_TICK", "SIGNAL_SEQ", "POSITION",
                "STATUS", "REJECTS", "FW_VERSION"}
Words == InputWords \cup OutputWords

PROTOCOL_VERSION == 2
FILL_BOUGHT == 1
FILL_SOLD   == 2
STATUS_RUNNING      == 1
STATUS_RISK_BLOCKED == 4
STATUS_DISABLED     == 8

\* A 32-bit sequence counter plus one.
Bump(s) == IF s = WordMod - 1 THEN 0 ELSE s + 1

\* a - b in unsigned 32-bit arithmetic, for a and b below WordMod.
Minus(a, b) == IF a >= b THEN a - b ELSE a - b + WordMod

\* s & ~1: the even number at or below s.
ClearLowBit(s) == s - (s % 2)

SeqNumbers == 0 .. WordMod - 1

\* The FPGA configures with every word zero.
RamInit == mem = [w \in Words |-> 0]

\* What each word may hold.
SeqWords == {"TICK_SEQ", "FILL_SEQ", "SIGNAL_SEQ", "SIGNAL_TICK"}

Fits(w, v) ==
    /\ v \in Int
    /\ w \in SeqWords => v \in SeqNumbers
    /\ w = "SIGNAL" => v \in Sides
    /\ w \in {"HEARTBEAT", "REJECTS"} => v \in 0 .. CountMod - 1
    /\ w = "FW_VERSION" => v \in Nat

MemTypeOK == /\ mem \in [Words -> Int]
             /\ \A w \in Words : Fits(w, mem[w])

\* One store; a load is just mem[w].
Store(w, v) == mem' = [mem EXCEPT ![w] = v]
=============================================================================
