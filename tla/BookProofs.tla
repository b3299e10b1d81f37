---------------------------- MODULE BookProofs ----------------------------
(***************************************************************************)
(* The bank implements Book for every number of levels, word width, range  *)
(* of quantities and set of changes: the two-stage search finds the best   *)
(* price (SearchMax, SearchMin), the registers stay coherent (BankSafe),   *)
(* and each clock edge is one step of Book (BookImplemented).              *)
(***************************************************************************)
EXTENDS BookBank, NaturalsInduction, WellFoundedInduction, TLAPS

USE DEF Idx, Addr, Words, Bits

\* A non-empty set of naturals has a least element.
LEMMA LeastNat ==
  ASSUME NEW S, S \subseteq Nat, S # {}
  PROVE  \E x \in S : \A y \in S : x <= y
<1>1. \E x \in S : \A y \in S : ~(<<y, x>> \in OpToRel(<, Nat))
  BY NatLessThanWellFounded, WFMin
<1>2. PICK x \in S : \A y \in S : ~(<<y, x>> \in OpToRel(<, Nat))
  BY <1>1
<1>3. ASSUME NEW y \in S PROVE x <= y
  <2>1. x \in Nat /\ y \in Nat
    OBVIOUS
  <2>2. ~(y < x)
    BY <1>2, <2>1 DEF OpToRel
  <2> QED BY <2>1, <2>2
<1> QED BY <1>3

\* The minimum of a non-empty set of indices belongs to it and bounds it.
LEMMA MinIsLeast ==
  ASSUME NEW S, S \subseteq Nat, S # {}
  PROVE  Min(S) \in S /\ \A y \in S : Min(S) <= y
BY LeastNat DEF Min

\* The same for the maximum of a bounded one.
LEMMA MaxIsGreatest ==
  ASSUME NEW n \in Nat, NEW S, S \subseteq 0 .. n, S # {}
  PROVE  Max(S) \in S /\ \A y \in S : y <= Max(S)
<1> DEFINE T == {n - x : x \in S}
<1>1. T \subseteq Nat /\ T # {}
  <2>1. PICK z \in S : TRUE
    OBVIOUS
  <2>2. n - z \in T
    BY <2>1
  <2>3. ASSUME NEW x \in S PROVE n - x \in Nat
    OBVIOUS
  <2> QED BY <2>2, <2>3
<1>2. PICK t \in T : \A u \in T : t <= u
  BY <1>1, LeastNat
<1>3. PICK x \in S : t = n - x
  OBVIOUS
<1>4. ASSUME NEW y \in S PROVE x >= y
  <2>1. n - y \in T
    OBVIOUS
  <2>2. n - x <= n - y
    BY <1>2, <1>3, <2>1
  <2> QED BY <2>2
<1>5. \E z \in S : \A y \in S : z >= y
  BY <1>4
<1>6. Max(S) \in S /\ \A y \in S : Max(S) >= y
  BY <1>5 DEF Max
<1> QED BY <1>6

-----------------------------------------------------------------------------
\* Every level is one bit of one word.
LEMMA SplitIndex ==
  ASSUME NEW i \in Idx
  PROVE  \E w \in Words, b \in Bits : i = w * WordBits + b
<1> DEFINE w == i \div WordBits
           b == i % WordBits
           n == LEVELS \div WordBits
<1>1. i \in Nat /\ WordBits \in Nat /\ WordBits > 0 /\ LEVELS \in Nat
  BY BankAssumption
<1>2. w \in Nat /\ b \in Bits /\ i = w * WordBits + b
  BY <1>1, Z3
<1>3. n \in Nat /\ LEVELS = n * WordBits
  BY <1>1, BankAssumption, Z3
<1>4. w < n
  <2>1. SUFFICES ASSUME n <= w PROVE FALSE
    BY <1>2, <1>3
  <2>2. n * WordBits <= w * WordBits
    BY <1>1, <1>2, <1>3, <2>1, Z3
  <2> QED BY <1>1, <1>2, <1>3, <2>2
<1> QED BY <1>2, <1>3, <1>4

\* Words, bits and the positions they make are naturals.
LEMMA Positions ==
  /\ WordBits \in Nat /\ LEVELS \in Nat /\ LEVELS \div WordBits \in Nat
  /\ \A w \in Words : w \in Nat /\ w * WordBits \in Nat
  /\ \A b \in Bits : b \in Nat
<1>1. WordBits \in Nat /\ WordBits > 0 /\ LEVELS \in Nat
  BY BankAssumption
<1>2. LEVELS \div WordBits \in Nat
  BY <1>1, Z3
<1>3. ASSUME NEW w \in Words PROVE w \in Nat /\ w * WordBits \in Nat
  <2>1. w \in Nat
    BY <1>2
  <2> QED BY <1>1, <2>1, Z3
<1> QED BY <1>1, <1>2, <1>3

\* A bit of a higher word is a higher level.
LEMMA WordOrder ==
  ASSUME NEW v \in Words, NEW w \in Words, NEW b \in Bits, NEW c \in Bits, v < w
  PROVE  v * WordBits + b < w * WordBits + c
<1>1. WordBits \in Nat /\ v \in Nat /\ w \in Nat /\ LEVELS \div WordBits \in Int
  BY BankAssumption, Z3
<1>2. (v + 1) * WordBits <= w * WordBits
  BY <1>1, Z3
<1>3. (v + 1) * WordBits = v * WordBits + WordBits
  BY <1>1, Z3
<1>4. v * WordBits \in Int /\ w * WordBits \in Int
  BY <1>1
<1> QED BY <1>1, <1>2, <1>3, <1>4

-----------------------------------------------------------------------------
\* Both stages of the search together, for the bids: present iff some level
\* is occupied, and then the highest one.
LEMMA SearchMax ==
  ASSUME NEW map, map \subseteq Idx
  PROVE  LET s == Search(Encode(map, Max), Max)
         IN  /\ s.present <=> map # {}
             /\ map # {} => s.best = Max(map)
<1> DEFINE e == Encode(map, Max)
           s == Search(e, Max)
<1>1. e.any = {w \in Words : Word(map, w) # {}}
  BY DEF Encode
<1>2. e.any = {} <=> map = {}
  <2>1. ASSUME NEW i \in map PROVE e.any # {}
    BY <1>1, SplitIndex DEF Word
  <2>2. ASSUME NEW w \in e.any PROVE map # {}
    BY <1>1 DEF Word
  <2> QED BY <2>1, <2>2
<1>3. s.present <=> map # {}
  BY <1>2 DEF Search
<1>4. ASSUME map # {} PROVE s.best = Max(map)
  <2> DEFINE w == Max(e.any)
             b == Max(Word(map, w))
  <2>1. map \subseteq Nat /\ map \subseteq 0 .. LEVELS
    BY Positions
  <2>2. \A v \in Words : Word(map, v) \subseteq Bits
    BY DEF Word
  <2>3. w \in e.any /\ \A v \in e.any : v <= w
    <3>1. e.any \subseteq 0 .. (LEVELS \div WordBits)
      BY <1>1, Positions
    <3> QED BY <3>1, Positions, <1>2, <1>4, MaxIsGreatest
  <2>4. w \in Words /\ Word(map, w) # {}
    BY <1>1, <2>3
  <2>5. b \in Word(map, w) /\ \A c \in Word(map, w) : c <= b
    <3>1. Word(map, w) \subseteq 0 .. WordBits
      <4>1. Bits \subseteq 0 .. WordBits
        BY Positions
      <4> HIDE DEF w, e, Bits, Words
      <4> QED BY <2>2, <2>4, <4>1
    <3> QED BY <3>1, Positions, <2>4, MaxIsGreatest
  <2>6. s.best = w * WordBits + b
    BY <1>2, <1>4, <2>4 DEF Search, Encode
  <2>7. s.best \in map
    BY <2>5, <2>6 DEF Word
  <2> HIDE DEF w, b, e, s
  <2>8. ASSUME NEW i \in map PROVE i <= s.best
    <3>1. PICK v \in Words, c \in Bits : i = v * WordBits + c
      BY SplitIndex
    <3>2. v \in e.any /\ c \in Word(map, v)
      BY <1>1, <3>1 DEF Word
    <3>3. v <= w
      BY <2>3, <3>2
    <3>4. CASE v < w
      <4>1. b \in Bits
        BY <2>5 DEF Word
      <4>2. v * WordBits + c < w * WordBits + b
        BY <2>4, <3>4, <4>1, WordOrder
      <4>3. v * WordBits + c \in Int /\ w * WordBits + b \in Int
        BY <2>4, <4>1, Positions
      <4> QED BY <3>1, <2>6, <4>2, <4>3
    <3>5. CASE v = w
      <4>1. c <= b /\ b \in Bits
        BY <2>5, <3>2, <3>5 DEF Word
      <4>2. w * WordBits \in Int
        BY <2>4, Positions
      <4> QED BY <3>1, <3>5, <2>6, <4>1, <4>2, Positions
    <3> QED BY <3>3, <3>4, <3>5, <2>4, Positions
  <2>9. Max(map) \in map /\ \A i \in map : i <= Max(map)
    BY <2>1, <1>4, Positions, MaxIsGreatest
  <2>10. s.best <= Max(map) /\ Max(map) <= s.best
    BY <2>7, <2>8, <2>9
  <2>11. s.best \in Nat /\ Max(map) \in Nat
    BY <2>1, <2>7, <2>9, Zenon
  <2> QED BY <2>10, <2>11
<1> QED BY <1>3, <1>4

\* And for the asks: the lowest occupied one.
LEMMA SearchMin ==
  ASSUME NEW map, map \subseteq Idx
  PROVE  LET s == Search(Encode(map, Min), Min)
         IN  /\ s.present <=> map # {}
             /\ map # {} => s.best = Min(map)
<1> DEFINE e == Encode(map, Min)
           s == Search(e, Min)
<1>1. e.any = {w \in Words : Word(map, w) # {}}
  BY DEF Encode
<1>2. e.any = {} <=> map = {}
  <2>1. ASSUME NEW i \in map PROVE e.any # {}
    BY <1>1, SplitIndex DEF Word
  <2>2. ASSUME NEW w \in e.any PROVE map # {}
    BY <1>1 DEF Word
  <2> QED BY <2>1, <2>2
<1>3. s.present <=> map # {}
  BY <1>2 DEF Search
<1>4. ASSUME map # {} PROVE s.best = Min(map)
  <2> DEFINE w == Min(e.any)
             b == Min(Word(map, w))
  <2>1. map \subseteq Nat /\ map \subseteq 0 .. LEVELS
    BY Positions
  <2>2. \A v \in Words : Word(map, v) \subseteq Bits
    BY DEF Word
  <2>3. w \in e.any /\ \A v \in e.any : w <= v
    <3>1. e.any \subseteq Nat
      BY <1>1, Positions
    <3> QED BY <3>1, <1>2, <1>4, MinIsLeast
  <2>4. w \in Words /\ Word(map, w) # {}
    BY <1>1, <2>3
  <2>5. b \in Word(map, w) /\ \A c \in Word(map, w) : b <= c
    <3>1. Word(map, w) \subseteq Nat
      BY <2>2, <2>4, Positions
    <3> QED BY <3>1, <2>4, MinIsLeast
  <2>6. s.best = w * WordBits + b
    BY <1>2, <1>4, <2>4 DEF Search, Encode
  <2>7. s.best \in map
    BY <2>5, <2>6 DEF Word
  <2> HIDE DEF w, b, e, s
  <2>8. ASSUME NEW i \in map PROVE s.best <= i
    <3>1. PICK v \in Words, c \in Bits : i = v * WordBits + c
      BY SplitIndex
    <3>2. v \in e.any /\ c \in Word(map, v)
      BY <1>1, <3>1 DEF Word
    <3>3. w <= v
      BY <2>3, <3>2
    <3>4. CASE w < v
      <4>1. b \in Bits
        BY <2>5 DEF Word
      <4>2. w * WordBits + b < v * WordBits + c
        BY <2>4, <3>4, <4>1, WordOrder
      <4>3. v * WordBits + c \in Int /\ w * WordBits + b \in Int
        BY <2>4, <4>1, Positions
      <4> QED BY <3>1, <2>6, <4>2, <4>3
    <3>5. CASE v = w
      <4>1. b <= c /\ b \in Bits
        BY <2>5, <3>2, <3>5 DEF Word
      <4>2. w * WordBits \in Int
        BY <2>4, Positions
      <4> QED BY <3>1, <3>5, <2>6, <4>1, <4>2, Positions
    <3> QED BY <3>3, <3>4, <3>5, <2>4, Positions
  <2>9. Min(map) \in map /\ \A i \in map : Min(map) <= i
    BY <2>1, <1>4, MinIsLeast
  <2>10. s.best <= Min(map) /\ Min(map) <= s.best
    BY <2>7, <2>8, <2>9
  <2>11. s.best \in Nat /\ Min(map) \in Nat
    BY <2>1, <2>7, <2>9, Zenon
  <2> QED BY <2>10, <2>11
<1> QED BY <1>3, <1>4

\* A bank whose bitmaps are coherent will show the top of its book.
LEMMA WillShowTop ==
  ASSUME NEW bids, bids \subseteq Idx, NEW asks, asks \subseteq Idx
  PROVE  WillShow(bids, asks) = Ideal!TopOf(bids, asks)
<1> DEFINE sb == Search(Encode(bids, Max), Max)
           sa == Search(Encode(asks, Min), Min)
<1>1. (sb.present <=> bids # {}) /\ (bids # {} => sb.best = Max(bids))
  BY SearchMax
<1>2. (sa.present <=> asks # {}) /\ (asks # {} => sa.best = Min(asks))
  BY SearchMin
<1>3. WillShow(bids, asks) = Shown(sb, sa)
  BY DEF WillShow
<1>4. Ideal!Max(bids) = Max(bids) /\ Ideal!Min(asks) = Min(asks)
  BY DEF Ideal!Max, Ideal!Min, Max, Min
<1> HIDE DEF sb, sa
<1> QED BY <1>1, <1>2, <1>3, <1>4 DEF Shown, Ideal!TopOf, Ideal!NoLevel

-----------------------------------------------------------------------------
\* The changed quantity stays in the range of a RAM word.
LEMMA NewQtyType ==
  ASSUME NEW q \in 0 .. QtyMax, NEW d \in Int
  PROVE  NewQty(q, d) \in 0 .. QtyMax
BY BankAssumption DEF NewQty

\* The sets an update may come from, seen as records.
LEMMA MessageType ==
  /\ None.valid = FALSE
  /\ \A m \in Message : m.valid = TRUE /\ m.addr \in Addr /\ m.delta \in Int
BY BankAssumption DEF None, Message

\* The word written on an edge, and the RAM after it.
LEMMA RamAfterType ==
  ASSUME BankTypeOK
  PROVE  /\ s1.valid => new_qty \in 0 .. QtyMax /\ s1.addr \in Addr
         /\ RamAfter \in [Addr -> 0 .. QtyMax]
<1>1. ASSUME s1.valid PROVE new_qty \in 0 .. QtyMax /\ s1.addr \in Addr
  <2>1. s1 \in Message
    BY <1>1, MessageType DEF BankTypeOK
  <2>2. ASSUME wb.valid PROVE wb.qty \in 0 .. QtyMax
    BY <2>2, MessageType DEF BankTypeOK
  <2>3. Forward(s1.addr) \in 0 .. QtyMax
    BY <2>2 DEF Forward, BankTypeOK
  <2> QED BY <2>1, <2>3, MessageType, NewQtyType DEF new_qty
<1>2. 0 \in 0 .. QtyMax
  BY BankAssumption
<1> QED BY <1>1, <1>2 DEF RamAfter, BankTypeOK


\* A bitmap that marks the occupied levels of its side still does after the
\* edge that writes the RAM.
LEMMA MapStep ==
  ASSUME BankTypeOK, ~clr_busy, NEW base \in {0, LEVELS}, NEW map,
         map = {i \in Idx : level_qty[base + i] # 0}
  PROVE  MapAfter(map, base) = {i \in Idx : RamAfter[base + i] # 0}
<1>1. LEVELS \in Nat /\ (s1.valid => s1.addr \in Addr)
  BY BankAssumption, RamAfterType
<1>2. RamAfter = IF s1.valid THEN [level_qty EXCEPT ![s1.addr] = new_qty] ELSE level_qty
  BY DEF RamAfter
<1>3. MapAfter(map, base) \subseteq Idx
  BY DEF MapAfter
<1>4. ASSUME NEW i \in Idx PROVE i \in MapAfter(map, base) <=> RamAfter[base + i] # 0
  <2>1. base + i \in Addr /\ (s1.valid => (s1.addr - base = i <=> s1.addr = base + i))
    BY <1>1
  <2>2. i \in map <=> level_qty[base + i] # 0
    OBVIOUS
  <2>3. CASE s1.valid /\ s1.addr = base + i
    <3>1. RamAfter[base + i] = new_qty
      BY <1>2, <2>1, <2>3 DEF BankTypeOK
    <3>2. i \in MapAfter(map, base) <=> new_qty # 0
      BY <2>1, <2>3 DEF MapAfter
    <3> QED BY <3>1, <3>2
  <2>4. CASE ~(s1.valid /\ s1.addr = base + i)
    <3>1. RamAfter[base + i] = level_qty[base + i]
      BY <1>1, <1>2, <2>1, <2>4 DEF BankTypeOK
    <3>2. i \in MapAfter(map, base) <=> i \in map
      BY <2>1, <2>4 DEF MapAfter
    <3> QED BY <3>1, <3>2, <2>2
  <2> QED BY <2>3, <2>4
<1> QED BY <1>3, <1>4

\* Type correctness of one edge.
LEMMA TypeStep ==
  ASSUME BankTypeOK, [Next]_vars
  PROVE  BankTypeOK'
<1> USE MessageType
<1>1. /\ LEVELS \in Nat /\ LEVELS > 0 /\ QtyMax \in Nat
      /\ HostReads \subseteq Addr
  BY BankAssumption
<1>2. ASSUME NEW a, Datapath(a)
      PROVE  level_qty' \in [Addr -> 0 .. QtyMax] /\ rd_qty' \in 0 .. QtyMax
  <2>1. RamAfter \in [Addr -> 0 .. QtyMax]
    BY RamAfterType
  <2>2. level_qty \in [Addr -> 0 .. QtyMax] /\ 0 \in 0 .. QtyMax
    BY <1>1 DEF BankTypeOK
  <2> HIDE DEF Addr
  <2> QED BY <1>2, <2>1, <2>2 DEF Datapath
<1>3. CASE ResetEdge
  <2>1. level_qty' \in [Addr -> 0 .. QtyMax] /\ rd_qty' \in 0 .. QtyMax
    BY <1>2, <1>3 DEF ResetEdge
  <2>2. host' \in [st : {"idle", "reply"}]
    BY <1>3 DEF ResetEdge
  <2>3. clr_busy' \in BOOLEAN /\ clr_addr' \in Addr
    BY <1>1, <1>3 DEF ResetEdge
  <2>4. /\ s1' = None /\ wb' = None /\ h1' = None /\ bid_map' = {} /\ ask_map' = {}
        /\ v_map' \in BOOLEAN /\ v_b1' \in BOOLEAN /\ tob_valid' \in BOOLEAN
    BY <1>3 DEF ResetEdge
  <2> QED BY <2>1, <2>2, <2>3, <2>4 DEF BankTypeOK
<1>4. ASSUME NEW upd \in Message \union {None}, Edge(upd) PROVE BankTypeOK'
  <2>1. level_qty' \in [Addr -> 0 .. QtyMax] /\ rd_qty' \in 0 .. QtyMax
    BY <1>2, <1>4 DEF Edge
  <2>2. clr_busy' \in BOOLEAN /\ clr_addr' \in Addr
    BY <1>1, <1>4 DEF Edge, BankTypeOK
  <2>3. s1' \in Message \union {None}
    BY <1>4 DEF Edge
  <2>4. wb' \in [valid : {TRUE}, addr : Addr, qty : 0 .. QtyMax] \union {None}
    BY <1>4, RamAfterType DEF Edge
  <2>5. h1' \in [valid : {TRUE}, addr : Addr, ready : BOOLEAN] \union {None}
    <3>1. host.st = "req" => host.addr \in Addr
      BY DEF BankTypeOK
    <3>2. (~clr_busy) \in BOOLEAN
      OBVIOUS
    <3> QED BY <1>4, <3>1, <3>2 DEF Edge
  <2>6. \A map, base : map \subseteq Idx => MapAfter(map, base) \subseteq Idx
    BY DEF MapAfter
  <2>7. bid_map' \subseteq Idx /\ ask_map' \subseteq Idx
    BY <1>4, <2>6 DEF Edge, BankTypeOK
  <2>8. v_map' \in BOOLEAN /\ v_b1' \in BOOLEAN /\ tob_valid' \in BOOLEAN
    <3>1. s1.valid \in BOOLEAN
      BY DEF BankTypeOK
    <3> QED BY <1>4, <3>1 DEF Edge, BankTypeOK
  <2>9. host' \in [st : {"idle", "reply"}] \union [st : {"req"}, addr : Addr]
    BY <1>1, <1>4 DEF Edge, HostEdge, BankTypeOK
  <2> QED BY <2>1, <2>2, <2>3, <2>4, <2>5, <2>7, <2>8, <2>9 DEF BankTypeOK
<1>5. CASE FeedEdge
  BY <1>4, <1>5 DEF FeedEdge
<1>6. CASE IdleEdge
  BY <1>4, <1>6 DEF IdleEdge
<1>7. CASE UNCHANGED vars
  BY <1>7 DEF vars, BankTypeOK
<1> QED BY <1>3, <1>5, <1>6, <1>7 DEF Next

\* The initial state is typed and coherent.
LEMMA BankInitially == Init => BankTypeOK /\ BankInv
<1> SUFFICES ASSUME Init PROVE BankTypeOK /\ BankInv
  OBVIOUS
<1>1. LEVELS \in Nat /\ LEVELS > 0 /\ QtyMax \in Nat /\ PowerOn \subseteq 0 .. QtyMax
  BY BankAssumption
<1>2. BankTypeOK
  <2>1. level_qty \in [Addr -> 0 .. QtyMax] /\ rd_qty \in 0 .. QtyMax
    BY <1>1 DEF Init
  <2>2. clr_busy \in BOOLEAN /\ clr_addr \in Addr /\ host \in [st : {"idle", "reply"}]
    BY <1>1 DEF Init
  <2>3. /\ s1 = None /\ wb = None /\ h1 = None /\ bid_map = {} /\ ask_map = {}
        /\ v_map \in BOOLEAN /\ v_b1 \in BOOLEAN /\ tob_valid \in BOOLEAN
    BY DEF Init
  <2> QED BY <2>1, <2>2, <2>3 DEF BankTypeOK
<1>3. BankInv
  BY <1>1, MessageType DEF Init, BankInv, ClearIsQuiet, MapsMatchRam, ForwardIsFresh
<1> QED BY <1>2, <1>3

\* An edge keeps the registers coherent.
LEMMA InvStep ==
  ASSUME BankTypeOK, BankInv, [Next]_vars, BankTypeOK'
  PROVE  BankInv'
<1> USE MessageType
<1>1. LEVELS \in Nat /\ LEVELS > 0 /\ QtyMax \in Nat
  BY BankAssumption
<1>2. CASE ResetEdge
  BY <1>1, <1>2 DEF ResetEdge, BankInv, ClearIsQuiet, MapsMatchRam, ForwardIsFresh
<1>3. ASSUME NEW upd \in Message \union {None}, Edge(upd) PROVE BankInv'
  <2>1. CASE clr_busy
    <3>1. /\ ~s1.valid /\ ~wb.valid /\ ~v_map /\ ~v_b1 /\ ~tob_valid
          /\ bid_map = {} /\ ask_map = {}
          /\ \A a \in Addr : a < clr_addr => level_qty[a] = 0
      BY <2>1 DEF BankInv, ClearIsQuiet
    <3>2. /\ ~s1'.valid /\ ~wb'.valid /\ ~v_map' /\ ~v_b1' /\ ~tob_valid'
          /\ bid_map' = {} /\ ask_map' = {}
      BY <1>3, <2>1, <3>1 DEF Edge, MapAfter
    <3>3. level_qty' = [level_qty EXCEPT ![clr_addr] = 0]
      BY <1>3, <2>1 DEF Edge, Datapath, RamAfter
    <3>4. CASE clr_addr = 2 * LEVELS - 1
      <4>1. \A a \in Addr : level_qty'[a] = 0
        BY <1>1, <3>1, <3>3, <3>4 DEF BankTypeOK
      <4>2. ~clr_busy'
        BY <1>3, <3>4 DEF Edge
      <4>3. MapsMatchRam'
        BY <1>1, <3>2, <4>1 DEF MapsMatchRam
      <4>4. ~(h1.valid /\ h1.ready)'
        BY <1>3, <2>1 DEF Edge
      <4> QED BY <3>2, <4>2, <4>3, <4>4 DEF BankInv, ClearIsQuiet, ForwardIsFresh
    <3>5. CASE clr_addr # 2 * LEVELS - 1
      <4>1. clr_busy' /\ clr_addr' = clr_addr + 1
        <5>1. clr_addr \in Nat /\ clr_addr + 1 < 2 * LEVELS
          BY <1>1, <3>5 DEF BankTypeOK
        <5>2. (clr_addr + 1) % (2 * LEVELS) = clr_addr + 1
          BY <1>1, <5>1, Z3
        <5> QED BY <1>3, <2>1, <3>5, <5>2 DEF Edge
      <4>2. \A a \in Addr : a < clr_addr' => level_qty'[a] = 0
        BY <1>1, <3>1, <3>3, <4>1 DEF BankTypeOK
      <4>3. ~(h1.valid /\ h1.ready)'
        BY <1>3, <2>1 DEF Edge
      <4> QED BY <3>2, <4>1, <4>2, <4>3 DEF BankInv, ClearIsQuiet, MapsMatchRam, ForwardIsFresh
    <3> QED BY <3>4, <3>5
  <2>2. CASE ~clr_busy
    <3>1. ~clr_busy'
      BY <1>3, <2>2 DEF Edge
    <3>2. level_qty' = IF s1.valid THEN [level_qty EXCEPT ![s1.addr] = new_qty] ELSE level_qty
      BY <1>3, <2>2 DEF Edge, Datapath, RamAfter
    <3>3. s1.valid => s1.addr \in Addr /\ new_qty \in 0 .. QtyMax
      BY RamAfterType
    <3>4. MapsMatchRam'
      <4>1. /\ bid_map = {i \in Idx : level_qty[i] # 0}
            /\ ask_map = {i \in Idx : level_qty[LEVELS + i] # 0}
        BY <2>2 DEF BankInv, MapsMatchRam
      <4>2. bid_map' = MapAfter(bid_map, 0) /\ ask_map' = MapAfter(ask_map, LEVELS)
        BY <1>3 DEF Edge
      <4>3. level_qty' = RamAfter
        BY <1>3 DEF Edge, Datapath
      <4>4. bid_map' = {i \in Idx : level_qty'[i] # 0}
        BY <1>1, <2>2, <4>1, <4>2, <4>3, MapStep
      <4>5. ask_map' = {i \in Idx : level_qty'[LEVELS + i] # 0}
        BY <1>1, <2>2, <4>1, <4>2, <4>3, MapStep
      <4> QED BY <4>4, <4>5 DEF MapsMatchRam
    <3>5. wb' = IF s1.valid THEN [valid |-> TRUE, addr |-> s1.addr, qty |-> new_qty] ELSE None
      BY <1>3 DEF Edge
    <3>6. ASSUME NEW a \in Addr, rd_qty' = level_qty[a]
          PROVE  (IF wb'.valid /\ wb'.addr = a THEN wb'.qty ELSE rd_qty') = level_qty'[a]
      BY <3>2, <3>3, <3>5, <3>6 DEF BankTypeOK
    <3>7. ASSUME s1'.valid PROVE (Forward(s1.addr) = level_qty[s1.addr])'
      <4>1. s1' = upd /\ upd \in Message /\ rd_qty' = level_qty[upd.addr]
        BY <1>3, <2>2, <3>7 DEF Edge, Datapath
      <4> QED BY <3>6, <4>1 DEF Forward
    <3>8. ASSUME h1'.valid
          PROVE  ~s1'.valid /\ (Forward(h1.addr) = level_qty[h1.addr])'
      <4>1. /\ ~s1'.valid /\ host.st = "req" /\ h1'.addr = host.addr
            /\ ~(upd.valid /\ ~clr_busy) /\ ~h1.valid
        BY <1>3, <3>8 DEF Edge
      <4>2. host.addr \in Addr
        BY <4>1 DEF BankTypeOK
      <4>3. rd_qty' = level_qty[host.addr]
        BY <1>3, <4>1, <4>2 DEF Edge, Datapath
      <4> QED BY <3>6, <4>1, <4>2, <4>3 DEF Forward
    <3> QED BY <3>1, <3>4, <3>7, <3>8 DEF BankInv, ClearIsQuiet, ForwardIsFresh
  <2> QED BY <2>1, <2>2
<1>4. CASE FeedEdge
  BY <1>3, <1>4 DEF FeedEdge
<1>5. CASE IdleEdge
  BY <1>3, <1>5 DEF IdleEdge
<1>6. CASE UNCHANGED vars
  BY <1>6 DEF vars, BankInv, ClearIsQuiet, MapsMatchRam, ForwardIsFresh, Forward
<1> QED BY <1>2, <1>4, <1>5, <1>6 DEF Next

\* The registers are typed and coherent in every reachable state: book_bank.v
\* never forwards a wrong word and never loses an occupied level from a bitmap.
THEOREM BankSafe == Spec => [](BankTypeOK /\ BankInv)
<1>1. Init => BankTypeOK /\ BankInv
  BY BankInitially
<1>2. BankTypeOK /\ BankInv /\ [Next]_vars => (BankTypeOK /\ BankInv)'
  BY TypeStep, InvStep
<1> QED BY <1>1, <1>2, PTL DEF Spec

\* What the host reads after the clear is the book (lines 162-171).
THEOREM HostReadsSafe == Spec => []HostReadsTheBook
<1>1. BankTypeOK /\ BankInv => HostReadsTheBook
  BY DEF BankInv, ForwardIsFresh, HostReadsTheBook, host_rd_data, BookNow, RamAfter
<1> QED BY <1>1, BankSafe, PTL

-----------------------------------------------------------------------------
\* The book the registers stand for moves with an edge as Book says.
LEMMA BookMoves ==
  ASSUME BankTypeOK, BankInv, BankTypeOK', BankInv', NEW upd \in Message \union {None}, Edge(upd)
  PROVE  IF upd.valid /\ ~clr_busy
         THEN BookNow' = [BookNow EXCEPT ![upd.addr] = Ideal!Clamp(@ + upd.delta)]
         ELSE BookNow' = BookNow
<1> USE MessageType
<1>1. LEVELS \in Nat /\ LEVELS > 0 /\ QtyMax \in Nat
  BY BankAssumption
<1>2. level_qty' = RamAfter
  BY DEF Edge, Datapath
<1>3. CASE clr_busy
  <2>1. level_qty' = [level_qty EXCEPT ![clr_addr] = 0] /\ ~s1'.valid
    BY <1>3, <1>2 DEF RamAfter, Edge
  <2>2. CASE clr_busy'
    BY <1>3, <2>2 DEF BookNow
  <2>3. CASE ~clr_busy'
    <3>1. clr_addr = 2 * LEVELS - 1
      BY <1>3, <2>3 DEF Edge
    <3>2. level_qty' = [a \in Addr |-> 0]
      <4>1. \A a \in Addr : a < clr_addr => level_qty[a] = 0
        BY <1>3 DEF BankInv, ClearIsQuiet
      <4>2. level_qty' \in [Addr -> 0 .. QtyMax] /\ level_qty \in [Addr -> 0 .. QtyMax]
        BY DEF BankTypeOK
      <4>3. \A a \in Addr : level_qty'[a] = 0
        BY <1>1, <2>1, <3>1, <4>1, <4>2
      <4> QED BY <4>2, <4>3
    <3> QED BY <1>3, <2>1, <2>3, <3>2 DEF BookNow, RamAfter
  <2> QED BY <1>3, <2>2, <2>3
<1>4. CASE ~clr_busy /\ upd.valid
  <2>1. ~clr_busy' /\ s1' = upd /\ upd \in Message
    BY <1>4 DEF Edge
  <2>2. BookNow = level_qty'
    BY <1>2, <1>4 DEF BookNow
  <2>3. BookNow' = [level_qty' EXCEPT ![upd.addr] = new_qty']
    BY <2>1 DEF BookNow, RamAfter
  <2>4. new_qty' = NewQty(level_qty'[upd.addr], upd.delta)
    <3>1. (Forward(s1.addr) = level_qty[s1.addr])'
      BY <2>1 DEF BankInv, ForwardIsFresh
    <3> QED BY <2>1, <3>1 DEF new_qty
  <2>5. \A n \in Int, d \in Int : NewQty(n, d) = Ideal!Clamp(n + d)
    BY DEF NewQty, Ideal!Clamp
  <2>6. upd.addr \in Addr /\ level_qty'[upd.addr] \in Int /\ upd.delta \in Int
    BY <1>1, <2>1 DEF BankTypeOK
  <2> QED BY <1>4, <2>2, <2>3, <2>4, <2>5, <2>6 DEF BankTypeOK
<1>5. CASE ~clr_busy /\ ~upd.valid
  BY <1>2, <1>5 DEF BookNow, RamAfter, Edge
<1> QED BY <1>3, <1>4, <1>5

\* The bitmaps, with the update in S1 applied, mark the levels of the book.
MapsAreBook ==
  s1.valid => /\ MapAfter(bid_map, 0) = Ideal!Bids(BookNow)
              /\ MapAfter(ask_map, LEVELS) = Ideal!Asks(BookNow)
              /\ MapAfter(bid_map, 0) \subseteq Idx /\ MapAfter(ask_map, LEVELS) \subseteq Idx

\* They do in every coherent state.
LEMMA MapsAreTheBook == BankTypeOK /\ BankInv => MapsAreBook
<1> SUFFICES ASSUME BankTypeOK, BankInv, s1.valid PROVE MapsAreBook
  BY DEF MapsAreBook
<1>1. ~clr_busy
  BY DEF BankInv, ClearIsQuiet
<1>2. LEVELS \in Nat
  BY BankAssumption
<1>3. /\ bid_map = {i \in Idx : level_qty[i] # 0}
      /\ ask_map = {i \in Idx : level_qty[LEVELS + i] # 0}
  BY <1>1 DEF BankInv, MapsMatchRam
<1>4. MapAfter(bid_map, 0) = {i \in Idx : RamAfter[i] # 0}
  BY <1>1, <1>2, <1>3, MapStep
<1>5. MapAfter(ask_map, LEVELS) = {i \in Idx : RamAfter[LEVELS + i] # 0}
  BY <1>1, <1>2, <1>3, MapStep
<1>6. BookNow = RamAfter
  BY <1>1 DEF BookNow
<1> QED BY <1>4, <1>5, <1>6 DEF MapsAreBook, Ideal!Bids, Ideal!Asks, Ideal!Idx

\* The tops of book under way move one stage on, and the one that enters is
\* the top of the book as the new update leaves it.
LEMMA LineMoves ==
  ASSUME BankTypeOK, BankInv, BankTypeOK', BankInv', MapsAreBook',
         NEW upd \in Message \union {None}, Edge(upd)
  PROVE  /\ OnOutputs' = UnderWay[1]
         /\ UnderWay' = [k \in 1 .. 3 |->
              IF k = 3 THEN IF upd.valid /\ ~clr_busy
                            THEN Ideal!TopOf(Ideal!Bids(BookNow'), Ideal!Asks(BookNow'))
                            ELSE Nothing
              ELSE UnderWay[k + 1]]
<1> USE MessageType
<1>1. /\ v_map' = s1.valid /\ v_b1' = v_map /\ tob_valid' = v_b1
      /\ bid_map' = MapAfter(bid_map, 0) /\ ask_map' = MapAfter(ask_map, LEVELS)
      /\ b1' = [bid |-> Encode(bid_map, Max), ask |-> Encode(ask_map, Min)]
      /\ tob' = [bid |-> Search(b1.bid, Max), ask |-> Search(b1.ask, Min)]
      /\ s1' = IF upd.valid /\ ~clr_busy THEN upd ELSE None
  BY DEF Edge, Datapath
<1> DEFINE U1 == IF v_b1 THEN Shown(Search(b1.bid, Max), Search(b1.ask, Min)) ELSE Nothing
           U2 == IF v_map THEN WillShow(bid_map, ask_map) ELSE Nothing
           U3 == IF s1.valid THEN WillShow(MapAfter(bid_map, 0), MapAfter(ask_map, LEVELS))
                 ELSE Nothing
<1>2. UnderWay = [k \in 1 .. 3 |-> IF k = 1 THEN U1 ELSE IF k = 2 THEN U2 ELSE U3]
  BY DEF UnderWay
<1>3. UnderWay' = [k \in 1 .. 3 |-> IF k = 1 THEN U1' ELSE IF k = 2 THEN U2' ELSE U3']
  BY DEF UnderWay
<1>4. OnOutputs' = U1
  BY <1>1 DEF OnOutputs
<1>5. U1' = U2
  BY <1>1 DEF WillShow
<1>6. U2' = U3
  BY <1>1
<1>7. U3' = IF upd.valid /\ ~clr_busy
            THEN Ideal!TopOf(Ideal!Bids(BookNow'), Ideal!Asks(BookNow')) ELSE Nothing
  <2>1. CASE upd.valid /\ ~clr_busy
    <3>1. s1'.valid
      BY <1>1, <2>1
    <3>2. /\ MapAfter(bid_map, 0)' = Ideal!Bids(BookNow')
          /\ MapAfter(ask_map, LEVELS)' = Ideal!Asks(BookNow')
          /\ MapAfter(bid_map, 0)' \subseteq Idx /\ MapAfter(ask_map, LEVELS)' \subseteq Idx
      BY <3>1 DEF MapsAreBook
    <3> QED BY <2>1, <3>1, <3>2, WillShowTop
  <2>2. CASE ~(upd.valid /\ ~clr_busy)
    BY <1>1, <2>2
  <2> QED BY <2>1, <2>2
<1> HIDE DEF U1, U2, U3
<1> QED BY <1>2, <1>3, <1>4, <1>5, <1>6, <1>7

\* Every edge of the bank is a step of Book or leaves the book alone.
LEMMA BookStep ==
  ASSUME BankTypeOK, BankInv, BankTypeOK', BankInv', MapsAreBook', [Next]_vars
  PROVE  [Ideal!BookNext]_<<BookNow, UnderWay, OnOutputs>>
<1> USE MessageType
<1>1. CASE ResetEdge
  <2>1. clr_busy' /\ ~v_map' /\ ~v_b1' /\ ~tob_valid' /\ ~s1'.valid
    BY <1>1 DEF ResetEdge
  <2>2. BookNow' = Ideal!Empty
    BY <2>1 DEF BookNow, Ideal!Empty, Ideal!Addr
  <2>3. UnderWay' = Ideal!Idle
    BY <2>1 DEF UnderWay, Ideal!Idle, Ideal!Latency, Ideal!Nothing, Nothing
  <2>4. OnOutputs' = Ideal!Nothing
    BY <2>1 DEF OnOutputs, Ideal!Nothing, Nothing
  <2> QED BY <2>2, <2>3, <2>4 DEF Ideal!BookNext, Ideal!Reset
<1>2. ASSUME NEW upd \in Message \union {None}, Edge(upd)
      PROVE  Ideal!BookNext
  <2> DEFINE last == IF upd.valid /\ ~clr_busy
                     THEN Ideal!TopOf(Ideal!Bids(BookNow'), Ideal!Asks(BookNow')) ELSE Nothing
  <2>1. /\ OnOutputs' = UnderWay[1]
        /\ UnderWay' = [k \in 1 .. 3 |-> IF k = 3 THEN last ELSE UnderWay[k + 1]]
    BY <1>2, LineMoves
  <2>2. Ideal!Advance(last)
    BY <2>1 DEF Ideal!Advance, Ideal!Latency
  <2>3. CASE upd.valid /\ ~clr_busy
    <3>1. upd \in Message /\ upd.addr \in Ideal!Addr /\ upd.delta \in Deltas
      BY <2>3 DEF Message, Ideal!Addr
    <3>2. BookNow' = [BookNow EXCEPT ![upd.addr] = Ideal!Clamp(@ + upd.delta)]
      BY <1>2, <2>3, BookMoves
    <3>3. Ideal!Update(upd.addr, upd.delta)
      BY <2>2, <2>3, <3>2 DEF Ideal!Update
    <3> QED BY <3>1, <3>3 DEF Ideal!BookNext
  <2>4. CASE ~(upd.valid /\ ~clr_busy)
    <3>1. BookNow' = BookNow
      BY <1>2, <2>4, BookMoves
    <3>2. Ideal!Pass
      BY <2>2, <2>4, <3>1 DEF Ideal!Pass, Ideal!Nothing, Nothing
    <3> QED BY <3>2 DEF Ideal!BookNext
  <2> QED BY <2>3, <2>4
<1>3. CASE FeedEdge
  BY <1>2, <1>3 DEF FeedEdge
<1>4. CASE IdleEdge
  BY <1>2, <1>4 DEF IdleEdge
<1>5. CASE UNCHANGED vars
  BY <1>5 DEF vars, BookNow, UnderWay, OnOutputs, RamAfter, new_qty, Forward, MapAfter
<1> QED BY <1>1, <1>3, <1>4, <1>5 DEF Next

\* book_bank.v implements Book: every update is applied exactly once and its
\* own top of book appears Latency clocks later, for every size of the book.
THEOREM BookImplemented == Spec => ImplementsBook
<1>1. Init => Ideal!BookInit
  BY MessageType DEF Init, Ideal!BookInit, Ideal!Empty, Ideal!Addr, Ideal!Idle, Ideal!Latency,
     Ideal!Nothing, Nothing, BookNow, UnderWay, OnOutputs
<1>2. BankTypeOK /\ BankInv /\ (BankTypeOK /\ BankInv /\ MapsAreBook)' /\ [Next]_vars
      => [Ideal!BookNext]_<<BookNow, UnderWay, OnOutputs>>
  BY BookStep
<1> QED BY <1>1, <1>2, BankSafe, MapsAreTheBook, PTL DEF Spec, ImplementsBook, Ideal!BookSpec
=============================================================================
