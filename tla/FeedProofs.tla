----------------------------- MODULE FeedProofs -----------------------------
(***************************************************************************)
(* The feed is never stranded, its delay follows the failures, the quotes  *)
(* it hands on can be added without overflow, and each is the price its    *)
(* text names: for every width of the registers and integers, every pair of*)
(* delays and every set of texts, of any length.                           *)
(*                                                                         *)
(* The parser's loops are recursive functions.  That each has a value and  *)
(* follows its own equation is shown first (Recursion), from induction over*)
(* sets of numbers; what the loops compute follows by induction digit by   *)
(* digit (The parser).                                                     *)
(***************************************************************************)
EXTENDS QuoteFeed, NaturalsInduction, WellFoundedInduction, TLAPS

-----------------------------------------------------------------------------
(* Recursion on the natural numbers *)

\* Induction for a set of numbers.
LEMMA Induction ==
    ASSUME NEW T, 0 \in T, \A n \in Nat : n \in T => n + 1 \in T
    PROVE  Nat \subseteq T
<1> DEFINE S == Nat \ T
<1> SUFFICES ASSUME S # {} PROVE FALSE
  OBVIOUS
<1>1. PICK x \in S : \A y \in S : ~(<<y, x>> \in OpToRel(<, Nat))
  BY NatLessThanWellFounded, WFMin
<1>2. x \in Nat /\ x # 0 /\ x \notin T
  BY <1>1
<1>3. x - 1 \in Nat /\ x - 1 < x /\ (x - 1) + 1 = x
  BY <1>2
<1>4. x - 1 \notin S
  BY <1>1, <1>2, <1>3 DEF OpToRel
<1>5. x - 1 \in T
  BY <1>3, <1>4
<1>6. (x - 1) + 1 \in T
  BY <1>3, <1>5
<1> QED BY <1>2, <1>3, <1>6

\* The same up to a number.
LEMMA InductionUpTo ==
    ASSUME NEW L \in Nat, NEW T, 0 \in T, \A n \in 0 .. L : n < L /\ n \in T => n + 1 \in T
    PROVE  0 .. L \subseteq T
<1> DEFINE U == {n \in Nat : n <= L => n \in T}
<1>1. 0 \in U
  OBVIOUS
<1>2. \A n \in Nat : n \in U => n + 1 \in U
  OBVIOUS
<1>3. Nat \subseteq U
  <2> HIDE DEF U
  <2> QED BY <1>1, <1>2, Induction
<1> QED BY <1>3

\* A sequence that starts with a and follows the rule F up to its end.
Follows(n, L, a, F) == n[0] = a /\ \A i \in 1 .. L : n[i] = F[<<n[i - 1], i>>]

\* The same without an end.
FollowsAll(g, a, F) == g[0] = a /\ \A i \in Nat \ {0} : g[i] = F[<<g[i - 1], i>>]

\* Such sequences exist.
LEMMA FollowsExists ==
    ASSUME NEW S, NEW a \in S, NEW F \in [S \X Nat -> S]
    PROVE  \A L \in Nat : \E n \in [0 .. L -> S] : Follows(n, L, a, F)
<1> DEFINE T == {L \in Nat : \E n \in [0 .. L -> S] : Follows(n, L, a, F)}
<1>1. 0 \in T
  <2> DEFINE n == [i \in 0 .. 0 |-> a]
  <2>1. n \in [0 .. 0 -> S] /\ Follows(n, 0, a, F)
    BY DEF Follows
  <2> QED BY <2>1
<1>2. ASSUME NEW L \in Nat, L \in T PROVE L + 1 \in T
  <2>1. PICK m \in [0 .. L -> S] : Follows(m, L, a, F)
    BY <1>2
  <2> DEFINE n == [i \in 0 .. L + 1 |-> IF i = L + 1 THEN F[<<m[L], L + 1>>] ELSE m[i]]
  <2>2. m[L] \in S /\ F[<<m[L], L + 1>>] \in S
    OBVIOUS
  <2>3. n \in [0 .. L + 1 -> S]
    BY <2>2
  <2>4. Follows(n, L + 1, a, F)
    <3>1. n[0] = a
      BY <2>1 DEF Follows
    <3>2. ASSUME NEW i \in 1 .. L + 1 PROVE n[i] = F[<<n[i - 1], i>>]
      <4>1. CASE i = L + 1
        <5>1. i - 1 = L /\ L \in 0 .. L + 1 /\ L # L + 1 /\ i \in 0 .. L + 1
          BY <4>1
        <5>2. n[L] = m[L] /\ n[i] = F[<<m[L], L + 1>>]
          BY <4>1, <5>1
        <5> QED BY <4>1, <5>1, <5>2
      <4>2. CASE i \in 1 .. L
        BY <2>1, <4>2 DEF Follows
      <4> QED BY <4>1, <4>2
    <3> QED BY <3>1, <3>2 DEF Follows
  <2> QED BY <2>3, <2>4
<1>3. Nat \subseteq T
  <2> HIDE DEF T
  <2> QED BY <1>1, <1>2, Induction
<1> QED BY <1>3

\* There is one for all the natural numbers: two of them agree as far as both go.
LEMMA FollowsForever ==
    ASSUME NEW S, NEW a \in S, NEW F \in [S \X Nat -> S]
    PROVE  \E g \in [Nat -> S] : FollowsAll(g, a, F)
<1> DEFINE R(n, L) == n \in [0 .. L -> S] /\ Follows(n, L, a, F)
           run(L) == CHOOSE n : R(n, L)
           g == [L \in Nat |-> run(L)[L]]
<1>1. ASSUME NEW L \in Nat PROVE R(run(L), L)
  <2>1. \E n : R(n, L)
    BY FollowsExists
  <2> HIDE DEF R
  <2> QED BY <2>1
<1>2. ASSUME NEW L \in Nat, NEW n, NEW m, R(n, L + 1), R(m, L) PROVE n[L] = m[L]
  <2> DEFINE T == {i \in Nat : n[i] = m[i]}
  <2>1. 0 \in T
    BY <1>2 DEF Follows
  <2>2. ASSUME NEW i \in 0 .. L, i < L, i \in T PROVE i + 1 \in T
    <3>1. i + 1 \in 1 .. L + 1 /\ i + 1 \in 1 .. L /\ (i + 1) - 1 = i
      BY <2>2
    <3>2. n[i + 1] = F[<<n[i], i + 1>>] /\ m[i + 1] = F[<<m[i], i + 1>>]
      BY <1>2, <3>1 DEF Follows
    <3> QED BY <2>2, <3>2
  <2>3. 0 .. L \subseteq T
    <3> HIDE DEF T
    <3> QED BY <2>1, <2>2, InductionUpTo
  <2> QED BY <2>3
<1> HIDE DEF run
<1>3. ASSUME NEW L \in Nat PROVE run(L)[L] \in S
  BY <1>1
<1>4. g \in [Nat -> S]
  BY <1>3
<1>5. g[0] = a
  BY <1>1 DEF Follows
<1>6. ASSUME NEW i \in Nat \ {0} PROVE g[i] = F[<<g[i - 1], i>>]
  <2>1. i - 1 \in Nat /\ (i - 1) + 1 = i
    OBVIOUS
  <2>2. run(i)[i - 1] = run(i - 1)[i - 1]
    <3>1. R(run(i), (i - 1) + 1) /\ R(run(i - 1), i - 1)
      BY <1>1, <2>1
    <3> HIDE DEF R
    <3> QED BY <1>2, <2>1, <3>1
  <2>3. run(i)[i] = F[<<run(i)[i - 1], i>>]
    BY <1>1 DEF Follows
  <2> QED BY <2>1, <2>2, <2>3
<1>7. FollowsAll(g, a, F)
  BY <1>5, <1>6 DEF FollowsAll
<1> QED BY <1>4, <1>7

\* The same for a rule that speaks of the numbers up to L only.
LEMMA FollowsTo ==
    ASSUME NEW S, NEW a \in S, NEW L \in Nat, NEW F \in [S \X (1 .. L) -> S]
    PROVE  \E n \in [0 .. L -> S] : Follows(n, L, a, F)
<1> DEFINE G == [x \in S \X Nat |-> IF x[2] \in 1 .. L THEN F[x] ELSE x[1]]
<1>1. G \in [S \X Nat -> S]
  OBVIOUS
<1>2. \E n \in [0 .. L -> S] : Follows(n, L, a, G)
  <2> HIDE DEF G
  <2> QED BY <1>1, FollowsExists
<1>3. PICK n \in [0 .. L -> S] : Follows(n, L, a, G)
  BY <1>2
<1>4. ASSUME NEW i \in 1 .. L PROVE n[i] = F[<<n[i - 1], i>>]
  <2>1. i - 1 \in 0 .. L
    OBVIOUS
  <2>2. n[i - 1] \in S
    BY <2>1
  <2>3. n[i] = G[<<n[i - 1], i>>]
    <3> HIDE DEF G
    <3> QED BY <1>3 DEF Follows
  <2>4. G[<<n[i - 1], i>>] = F[<<n[i - 1], i>>]
    BY <2>1, <2>2
  <2> QED BY <2>3, <2>4
<1>5. n[0] = a
  BY <1>3 DEF Follows
<1>6. Follows(n, L, a, F)
  BY <1>4, <1>5 DEF Follows
<1> QED BY <1>6

\* What holds at the start of a sequence and goes on from each member to the next
\* holds all along it.
LEMMA AllAlong ==
    ASSUME NEW S, NEW L \in Nat, NEW n, n[0] \in S,
           \A i \in 1 .. L : n[i - 1] \in S => n[i] \in S
    PROVE  \A i \in 0 .. L : n[i] \in S
<1> DEFINE T == {i \in 0 .. L : n[i] \in S}
<1>1. 0 \in T
  OBVIOUS
<1>2. ASSUME NEW i \in 0 .. L, i < L, i \in T PROVE i + 1 \in T
  <2>1. i + 1 \in 1 .. L /\ (i + 1) - 1 = i
    BY <1>2
  <2> QED BY <1>2, <2>1
<1>3. 0 .. L \subseteq T
  <2> HIDE DEF T
  <2> QED BY <1>1, <1>2, InductionUpTo
<1> QED BY <1>3

\* Powers.
LEMMA PowerLaw ==
    ASSUME NEW b \in Nat
    PROVE  /\ Power(b) \in [Nat -> Nat] /\ Power(b)[0] = 1
           /\ \A k \in Nat : Power(b)[k + 1] = b * Power(b)[k]
<1> DEFINE R(p) == p = [k \in Nat |-> IF k = 0 THEN 1 ELSE b * p[k - 1]]
           F == [x \in Nat \X Nat |-> b * x[1]]
<1>1. PICK g \in [Nat -> Nat] : FollowsAll(g, 1, F)
  <2>1. F \in [Nat \X Nat -> Nat] /\ 1 \in Nat
    OBVIOUS
  <2> HIDE DEF F
  <2> QED BY <2>1, FollowsForever
<1>2. R(g)
  <2>1. ASSUME NEW i \in Nat PROVE g[i] = IF i = 0 THEN 1 ELSE b * g[i - 1]
    <3>1. CASE i = 0
      BY <1>1, <3>1 DEF FollowsAll
    <3>2. CASE i # 0
      <4>0. i - 1 \in Nat /\ i \in Nat \ {0}
        BY <3>2
      <4>1. g[i - 1] \in Nat /\ g[i] = F[<<g[i - 1], i>>]
        <5> HIDE DEF F
        <5> QED BY <1>1, <4>0 DEF FollowsAll
      <4>2. F[<<g[i - 1], i>>] = b * g[i - 1]
        BY <4>0, <4>1
      <4> QED BY <3>2, <4>1, <4>2
    <3> QED BY <3>1, <3>2
  <2> QED BY <2>1
<1>3. Power(b) = CHOOSE p : R(p)
  BY DEF Power
<1>4. R(Power(b))
  <2> HIDE DEF R
  <2> QED BY <1>2, <1>3
<1>5. \A k \in Nat : Power(b)[k] = IF k = 0 THEN 1 ELSE b * Power(b)[k - 1]
  BY <1>4
<1>6. Power(b)[0] = 1 /\ \A k \in Nat : Power(b)[k + 1] = b * Power(b)[k]
  <2>1. ASSUME NEW k \in Nat PROVE Power(b)[k + 1] = b * Power(b)[k]
    <3>1. k + 1 \in Nat /\ k + 1 # 0 /\ (k + 1) - 1 = k
      OBVIOUS
    <3> QED BY <1>5, <3>1
  <2> QED BY <1>5, <2>1
<1>7. Nat \subseteq {k \in Nat : Power(b)[k] \in Nat}
  <2> DEFINE T == {k \in Nat : Power(b)[k] \in Nat}
  <2>1. 0 \in T /\ \A n \in Nat : n \in T => n + 1 \in T
    BY <1>6
  <2> HIDE DEF T
  <2>2. Nat \subseteq T
    BY <2>1, Induction
  <2> QED BY <2>2 DEF T
<1>8. Power(b) = [k \in Nat |-> Power(b)[k]]
  BY <1>4
<1> QED BY <1>6, <1>7, <1>8

-----------------------------------------------------------------------------
(* The connection *)

FeedRec == [conn : BOOLEAN, timer : {"off", "set", "due"},
            backoff : BackoffMin .. BackoffMax, connected : BOOLEAN, started : BOOLEAN]

\* The part NeverStranded leaves out: before the start there is nothing.
Unstarted ==
    ~feed.started => ~feed.conn /\ ~feed.connected /\ feed.timer = "off" /\ link = "none"

\* NeverStranded by cases.
Stranding ==
    feed.started =>
      /\ feed.conn => feed.timer = "off" /\ link # "none"
      /\ ~feed.conn => feed.timer # "off" /\ link = "none" /\ ~feed.connected

FeedInv ==
    /\ feed \in FeedRec /\ link \in {"none", "opening", "open", "failed"}
    /\ Unstarted /\ Stranding

\* schedule_reconnect.
LEMMA ScheduledRecord ==
    ASSUME NEW f \in FeedRec
    PROVE  /\ Scheduled(f) \in FeedRec /\ Scheduled(f).started = f.started
           /\ ~Scheduled(f).conn /\ ~Scheduled(f).connected /\ Scheduled(f).timer = "set"
<1> DEFINE b == IF 2 * f.backoff > BackoffMax THEN BackoffMax ELSE 2 * f.backoff
<1>1. b \in BackoffMin .. BackoffMax
  BY FeedAssumption DEF FeedRec
<1>2. Scheduled(f) = [f EXCEPT !.conn = FALSE, !.connected = FALSE, !.timer = "set",
                               !.backoff = b]
  BY DEF Scheduled
<1> HIDE DEF b
<1> QED BY <1>1, <1>2 DEF FeedRec

\* fmma_feed_start, from a feed without connection and timer.
LEMMA ConnectStep ==
    ASSUME NEW f \in FeedRec, f.started, ~f.conn, ~f.connected, f.timer = "off", Connect(f)
    PROVE  FeedInv'
<1>1. CASE feed' = [f EXCEPT !.conn = TRUE] /\ link' = "opening"
  <2>1. /\ feed' \in FeedRec /\ feed'.conn = TRUE /\ feed'.timer = f.timer
        /\ feed'.started = f.started
    BY <1>1 DEF FeedRec
  <2> QED BY <1>1, <2>1 DEF FeedInv, Unstarted, Stranding
<1>2. CASE feed' = Scheduled(f) /\ link' = "none"
  BY <1>2, ScheduledRecord DEF FeedInv, Unstarted, Stranding
<1> QED BY <1>1, <1>2 DEF Connect

\* Every event keeps a connection or a reconnect behind a started feed.
LEMMA FeedStep == FeedInv /\ [FeedNext]_feedVars => FeedInv'
<1> SUFFICES ASSUME FeedInv, [FeedNext]_feedVars PROVE FeedInv'
  OBVIOUS
<1>1. feed \in FeedRec /\ link \in {"none", "opening", "open", "failed"}
  BY DEF FeedInv
<1>2. CASE Start
  <2> DEFINE f == [feed EXCEPT !.started = TRUE]
  <2>1. /\ f \in FeedRec /\ f.started /\ f.conn = feed.conn /\ f.connected = feed.connected
        /\ f.timer = feed.timer
    BY <1>1 DEF FeedRec
  <2>2. Connect(f) /\ ~feed.started
    BY <1>2 DEF Start
  <2> HIDE DEF f
  <2> QED BY <2>1, <2>2, ConnectStep DEF FeedInv, Unstarted
<1>3. CASE TimerDue
  <2>1. /\ feed' \in FeedRec /\ feed'.conn = feed.conn /\ feed'.connected = feed.connected
        /\ feed'.started = feed.started /\ feed'.timer = "due" /\ feed.timer = "set"
        /\ link' = link
    BY <1>1, <1>3 DEF TimerDue, FeedRec
  <2> QED BY <1>1, <2>1 DEF FeedInv, Unstarted, Stranding
<1>4. CASE FeedPoll
  <2> DEFINE f == [feed EXCEPT !.timer = "off"]
  <2>1. /\ f \in FeedRec /\ f.started = feed.started /\ f.conn = feed.conn
        /\ f.connected = feed.connected /\ f.timer = "off"
    BY <1>1 DEF FeedRec
  <2>2. Connect(f) /\ ~feed.conn /\ feed.timer = "due"
    BY <1>4 DEF FeedPoll
  <2> HIDE DEF f
  <2> QED BY <2>1, <2>2, ConnectStep DEF FeedInv, Unstarted, Stranding
<1>5. CASE WsOpen
  <2>1. BackoffMin \in BackoffMin .. BackoffMax
    BY FeedAssumption
  <2>2. /\ feed' \in FeedRec /\ feed'.conn = feed.conn
        /\ feed'.started = feed.started /\ feed'.timer = feed.timer
        /\ link = "opening" /\ link' = "open"
    BY <1>1, <1>5, <2>1 DEF WsOpen, FeedRec
  <2> QED BY <1>1, <2>2 DEF FeedInv, Unstarted, Stranding
<1>6. CASE WsError
  BY <1>1, <1>6 DEF WsError, FeedInv, Unstarted, Stranding
<1>7. CASE WsClose
  <2>1. link # "none" /\ link' = "none" /\ feed' = Scheduled(feed)
    BY <1>7 DEF WsClose
  <2> QED BY <1>1, <2>1, ScheduledRecord DEF FeedInv, Unstarted, Stranding
<1>8. CASE UNCHANGED <<feed, link>>
  BY <1>1, <1>8 DEF FeedInv, Unstarted, Stranding
<1> QED
  BY <1>2, <1>3, <1>4, <1>5, <1>6, <1>7, <1>8 DEF FeedNext, WsTicker, feedVars

\* The feed starts unstarted.
LEMMA FeedStarts == FeedInit => FeedInv
  BY FeedAssumption DEF FeedInit, FeedInv, FeedRec, Unstarted, Stranding

\* fmma_feed.c: whatever fails, and in whatever order errors and closes come,
\* a feed that was started has a connection or a reconnect scheduled.
THEOREM FeedNeverStranded == FeedSpec => []NeverStranded
<1>1. ASSUME FeedInv PROVE NeverStranded
  <2>1. /\ feed.conn \in BOOLEAN /\ feed.connected \in BOOLEAN
    BY <1>1 DEF FeedInv, FeedRec
  <2> QED BY <1>1, <2>1 DEF FeedInv, Stranding, NeverStranded
<1> QED BY <1>1, FeedStarts, FeedStep, PTL DEF FeedSpec

-----------------------------------------------------------------------------
(* The parser *)

\* Powers of ten are positive.
LEMMA Tens ==
    /\ \A k \in Nat : Power(10)[k] \in Nat /\ Power(10)[k] > 0
    /\ \A k \in Nat : Power(10)[k + 1] = 10 * Power(10)[k]
    /\ Power(10)[0] = 1
<1>1. /\ Power(10) \in [Nat -> Nat] /\ Power(10)[0] = 1
      /\ \A k \in Nat : Power(10)[k + 1] = 10 * Power(10)[k]
  <2>1. 10 \in Nat
    OBVIOUS
  <2> QED BY <2>1, PowerLaw
<1> DEFINE P == Power(10)
<1>2. P \in [Nat -> Nat] /\ P[0] = 1 /\ \A k \in Nat : P[k + 1] = 10 * P[k]
  BY <1>1
<1> HIDE DEF P
<1> DEFINE T == {k \in Nat : P[k] > 0}
<1>3. 0 \in T /\ \A n \in Nat : n \in T => n + 1 \in T
  BY <1>2
<1>4. Nat \subseteq T
  <2> HIDE DEF T
  <2> QED BY <1>3, Induction
<1>5. \A k \in Nat : P[k] \in Nat /\ P[k] > 0
  BY <1>2, <1>4
<1> QED BY <1>2, <1>5 DEF P

\* The constants of the parser: the integers are wide enough for ten times the
\* largest integer part.
LEMMA Sizes ==
    /\ Scale \in Nat /\ Scale > 0 /\ Places \in Nat /\ Scale = Power(10)[Places]
    /\ WHOLE_SATURATE \in Nat /\ WHOLE_SATURATE > 0 /\ WideMod \in Nat /\ WideMod > 0
    /\ FMMA_PRICE_MAX \in Nat /\ FMMA_PRICE_MAX < WHOLE_SATURATE * Scale
    /\ WHOLE_SATURATE * Scale \in Nat /\ WHOLE_SATURATE <= WHOLE_SATURATE * Scale
    /\ Scale <= WHOLE_SATURATE * Scale
    /\ 20 * (WHOLE_SATURATE * Scale) <= WideMod
<1>1. Scale \in Nat /\ Scale > 0 /\ Places \in Nat
  BY DecimalAssumption, Tens
<1>2. FMMA_PRICE_MAX \in Nat
  BY SignedAssumption DEF FMMA_PRICE_MAX
<1>3. /\ WHOLE_SATURATE \in Nat /\ WHOLE_SATURATE > 0 /\ WideMod \in Nat
      /\ FMMA_PRICE_MAX < WHOLE_SATURATE * Scale /\ Scale = Power(10)[Places]
      /\ 2 * (10 * WHOLE_SATURATE * Scale) <= WideMod
  BY DecimalAssumption
<1> DEFINE a == WHOLE_SATURATE
           b == Scale
<1>4. ASSUME NEW x \in Nat, NEW y \in Nat, x > 0, y > 0
      PROVE  x * y \in Nat /\ x <= x * y /\ y <= x * y /\ 2 * (10 * x * y) = 20 * (x * y)
  BY <1>4
<1>5. /\ a * b \in Nat /\ a <= a * b /\ b <= a * b /\ 2 * (10 * a * b) = 20 * (a * b)
  BY <1>1, <1>3, <1>4
<1> QED BY <1>1, <1>2, <1>3, <1>5

\* Integers stay integers, and small ones are not wrapped.
LEMMA WideIsExact ==
    /\ \A x \in Int : Wide(x) \in Int
    /\ \A x \in Nat : x < 10 * (WHOLE_SATURATE * Scale) => Wide(x) = x
<1> DEFINE h == WideMod \div 2
           z == WHOLE_SATURATE * Scale
<1>1. WideMod \in Nat /\ WideMod > 0 /\ z \in Nat /\ 20 * z <= WideMod
  BY Sizes
<1> HIDE DEF z
<1>2. h \in Nat /\ 10 * z <= h /\ 2 * h <= WideMod
  BY <1>1
<1>3. \A x \in Int : Wide(x) = ((x + h) % WideMod) - h
  BY DEF Wide
<1> HIDE DEF h
<1>4. \A x \in Int : Wide(x) \in Int
  BY <1>1, <1>2, <1>3
<1>5. ASSUME NEW x \in Nat, x < 10 * z PROVE Wide(x) = x
  <2>1. x + h \in 0 .. WideMod - 1
    BY <1>1, <1>2, <1>5
  <2>2. (x + h) % WideMod = x + h
    BY <1>1, <2>1
  <2> QED BY <1>2, <1>3, <2>2
<1> QED BY <1>4, <1>5 DEF z

\* The digits of a text.
LEMMA DigitsLaw ==
    ASSUME NEW text \in Text
    PROVE  /\ Digits(text) \in Seq(0 .. 9)
           /\ Len(text.whole) \in Nat /\ Len(text.frac) \in Nat
           /\ Len(Digits(text)) = Len(text.whole) + Len(text.frac)
           /\ \A i \in 1 .. Len(text.whole) : Digits(text)[i] = text.whole[i]
           /\ \A i \in 1 .. Len(text.frac) : Digits(text)[Len(text.whole) + i] = text.frac[i]
<1> DEFINE w == text.whole
           f == text.frac
<1>1. w \in Seq(0 .. 9) /\ f \in Seq(0 .. 9)
  BY DEF Text
<1>2. Digits(text) = w \o f
  BY DEF Digits
<1> HIDE DEF w, f
<1>3. /\ Len(w) \in Nat /\ Len(f) \in Nat /\ w \o f \in Seq(0 .. 9)
      /\ Len(w \o f) = Len(w) + Len(f)
      /\ \A i \in 1 .. Len(w) : (w \o f)[i] = w[i]
      /\ \A i \in 1 .. Len(f) : (w \o f)[Len(w) + i] = f[i]
  BY <1>1
<1> QED BY <1>2, <1>3 DEF w, f

\* n is whole after each of W digits, f is frac after each place of a text with F
\* digits behind the point, s the sum of the first W of L digits with their powers.
WholeRun(n, d, W) ==
    n[0] = 0 /\ \A i \in 1 .. W : n[i] = IF n[i - 1] < WHOLE_SATURATE
                                         THEN Shifted(n[i - 1], d[i]) ELSE n[i - 1]
FractionRun(f, d, F) ==
    f[0] = 0 /\ \A i \in 1 .. Places : f[i] = Shifted(f[i - 1], IF i <= F THEN d[i] ELSE 0)
SumRun(s, d, W, L) ==
    /\ s[0] = 0 /\ \A i \in 0 .. W : s[i] \in Int
    /\ \A i \in 1 .. W : s[i] = s[i - 1] + d[i] * Power(10)[L - i]

\* fmma_parse_scaled, first loop: whole after every digit.
LEMMA WholeLaw ==
    ASSUME NEW d \in Seq(0 .. 9)
    PROVE  \E n : WholeRun(n, d, Len(d)) /\ Whole(d) = n[Len(d)]
<1> DEFINE L == Len(d)
           D(i) == d[i]
           Step(x, i) == IF x < WHOLE_SATURATE THEN Shifted(x, D(i)) ELSE x
           R(n) == n = [i \in 0 .. L |-> IF i = 0 THEN 0 ELSE Step(n[i - 1], i)]
           F == [x \in Int \X (1 .. L) |-> Step(x[1], x[2])]
           c == CHOOSE n : R(n)
<1>1. Whole(d) = c[L]
  BY DEF Whole
<1>2. L \in Nat /\ \A i \in 1 .. L : D(i) \in Int
  OBVIOUS
<1>3. ASSUME NEW x \in Int, NEW i \in 1 .. L PROVE Step(x, i) \in Int
  <2>1. 10 * x + D(i) \in Int
    BY <1>2
  <2>2. Shifted(x, D(i)) \in Int
    BY <2>1, WideIsExact DEF Shifted
  <2> QED BY <2>2
<1> HIDE DEF L, Step
<1>4. PICK n \in [0 .. L -> Int] : Follows(n, L, 0, F)
  <2>1. F \in [Int \X (1 .. L) -> Int] /\ 0 \in Int
    BY <1>3
  <2> HIDE DEF F
  <2> QED BY <1>2, <2>1, FollowsTo
<1>5. ASSUME NEW i \in 0 .. L PROVE n[i] = IF i = 0 THEN 0 ELSE Step(n[i - 1], i)
  <2>1. CASE i = 0
    BY <1>4, <2>1 DEF Follows
  <2>2. CASE i # 0
    <3>1. i \in 1 .. L /\ i - 1 \in 0 .. L /\ n[i - 1] \in Int
      BY <1>2, <2>2
    <3>2. n[i] = F[<<n[i - 1], i>>]
      <4> HIDE DEF F
      <4> QED BY <1>4, <3>1 DEF Follows
    <3> QED BY <2>2, <3>1, <3>2
  <2> QED BY <2>1, <2>2
<1>6. R(c)
  <2>1. R(n)
    BY <1>5
  <2> HIDE DEF R
  <2> QED BY <2>1
<1> HIDE DEF c
<1>7. c[0] = 0 /\ \A i \in 1 .. L : c[i] = Step(c[i - 1], i)
  <2>1. \A i \in 0 .. L : c[i] = IF i = 0 THEN 0 ELSE Step(c[i - 1], i)
    BY <1>6
  <2> QED BY <1>2, <2>1
<1>8. WholeRun(c, d, L)
  BY <1>7 DEF WholeRun, L, Step
<1> QED BY <1>1, <1>8 DEF L

\* fmma_parse_scaled, second loop and the loop that fills up: frac after every place.
LEMMA FractionLaw ==
    ASSUME NEW d \in Seq(0 .. 9)
    PROVE  \E f : FractionRun(f, d, Len(d)) /\ Fraction(d) = f[Places]
<1> DEFINE L == Places
           D(i) == IF i <= Len(d) THEN d[i] ELSE 0
           Step(x, i) == Shifted(x, D(i))
           R(n) == n = [i \in 0 .. L |-> IF i = 0 THEN 0 ELSE Step(n[i - 1], i)]
           F == [x \in Int \X (1 .. L) |-> Step(x[1], x[2])]
           c == CHOOSE n : R(n)
<1>1. Fraction(d) = c[L]
  BY DEF Fraction
<1>2. L \in Nat /\ \A i \in 1 .. L : D(i) \in Int
  BY DecimalAssumption
<1>3. ASSUME NEW x \in Int, NEW i \in 1 .. L PROVE Step(x, i) \in Int
  <2>1. 10 * x + D(i) \in Int
    BY <1>2
  <2>2. Shifted(x, D(i)) \in Int
    BY <2>1, WideIsExact DEF Shifted
  <2> QED BY <2>2
<1> HIDE DEF L, Step
<1>4. PICK n \in [0 .. L -> Int] : Follows(n, L, 0, F)
  <2>1. F \in [Int \X (1 .. L) -> Int] /\ 0 \in Int
    BY <1>3
  <2> HIDE DEF F
  <2> QED BY <1>2, <2>1, FollowsTo
<1>5. ASSUME NEW i \in 0 .. L PROVE n[i] = IF i = 0 THEN 0 ELSE Step(n[i - 1], i)
  <2>1. CASE i = 0
    BY <1>4, <2>1 DEF Follows
  <2>2. CASE i # 0
    <3>1. i \in 1 .. L /\ i - 1 \in 0 .. L /\ n[i - 1] \in Int
      BY <1>2, <2>2
    <3>2. n[i] = F[<<n[i - 1], i>>]
      <4> HIDE DEF F
      <4> QED BY <1>4, <3>1 DEF Follows
    <3> QED BY <2>2, <3>1, <3>2
  <2> QED BY <2>1, <2>2
<1>6. R(c)
  <2>1. R(n)
    BY <1>5
  <2> HIDE DEF R
  <2> QED BY <2>1
<1> HIDE DEF c
<1>7. c[0] = 0 /\ \A i \in 1 .. L : c[i] = Step(c[i - 1], i)
  <2>1. \A i \in 0 .. L : c[i] = IF i = 0 THEN 0 ELSE Step(c[i - 1], i)
    BY <1>6
  <2> QED BY <1>2, <2>1
<1>8. FractionRun(c, d, Len(d))
  BY <1>7 DEF FractionRun, L, Step
<1> QED BY <1>1, <1>8 DEF L

\* The sum of the digits times their powers of ten, digit by digit.
LEMMA NumeralLaw ==
    ASSUME NEW text \in Text
    PROVE  LET L == Len(Digits(text))
           IN  \E s : SumRun(s, Digits(text), L, L) /\ Numeral(text) = s[L]
<1> DEFINE d == Digits(text)
           L == Len(d)
           Step(x, i) == x + d[i] * Power(10)[L - i]
           R(n) == n = [i \in 0 .. L |-> IF i = 0 THEN 0 ELSE Step(n[i - 1], i)]
           F == [x \in Int \X (1 .. L) |-> Step(x[1], x[2])]
           c == CHOOSE n : R(n)
<1>1. Numeral(text) = c[L]
  BY DEF Numeral
<1>2. L \in Nat /\ \A i \in 1 .. L : d[i] \in Int
  <2>1. d \in Seq(0 .. 9)
    BY DigitsLaw
  <2> HIDE DEF d
  <2> QED BY <2>1
<1> HIDE DEF d
<1>3. ASSUME NEW x \in Int, NEW i \in 1 .. L PROVE Step(x, i) \in Int
  <2>1. L - i \in Nat /\ d[i] \in Int
    BY <1>2
  <2>2. Power(10)[L - i] \in Nat
    BY <2>1, Tens
  <2> QED BY <2>1, <2>2
<1> HIDE DEF L, Step
<1>4. PICK n \in [0 .. L -> Int] : Follows(n, L, 0, F)
  <2>1. F \in [Int \X (1 .. L) -> Int] /\ 0 \in Int
    BY <1>3
  <2> HIDE DEF F
  <2> QED BY <1>2, <2>1, FollowsTo
<1>5. ASSUME NEW i \in 0 .. L PROVE n[i] = IF i = 0 THEN 0 ELSE Step(n[i - 1], i)
  <2>1. CASE i = 0
    BY <1>4, <2>1 DEF Follows
  <2>2. CASE i # 0
    <3>1. i \in 1 .. L /\ i - 1 \in 0 .. L /\ n[i - 1] \in Int
      BY <1>2, <2>2
    <3>2. n[i] = F[<<n[i - 1], i>>]
      <4> HIDE DEF F
      <4> QED BY <1>4, <3>1 DEF Follows
    <3> QED BY <2>2, <3>1, <3>2
  <2> QED BY <2>1, <2>2
<1>6. R(c)
  <2>1. R(n)
    BY <1>5
  <2> HIDE DEF R
  <2> QED BY <2>1
<1> HIDE DEF c
<1>7. c[0] = 0 /\ \A i \in 1 .. L : c[i] = Step(c[i - 1], i)
  <2>1. \A i \in 0 .. L : c[i] = IF i = 0 THEN 0 ELSE Step(c[i - 1], i)
    BY <1>6
  <2> QED BY <1>2, <2>1
<1>8. \A i \in 0 .. L : c[i] \in Int
  <2>1. c[0] \in Int /\ \A i \in 1 .. L : c[i - 1] \in Int => c[i] \in Int
    <3>1. ASSUME NEW i \in 1 .. L, c[i - 1] \in Int PROVE c[i] \in Int
      <4>1. c[i] = Step(c[i - 1], i)
        BY <1>7
      <4> QED BY <1>3, <3>1, <4>1
    <3> QED BY <1>7, <3>1
  <2> HIDE DEF R
  <2> QED BY <1>2, <2>1, AllAlong
<1>9. SumRun(c, d, L, L)
  BY <1>7, <1>8 DEF SumRun, Step
<1> QED BY <1>1, <1>9 DEF L, d

\* Powers multiply.
LEMMA TensAdd == \A a, b \in Nat : Power(10)[a + b] = Power(10)[a] * Power(10)[b]
<1> DEFINE P == Power(10)
<1>1. /\ P[0] = 1 /\ \A k \in Nat : P[k] \in Nat /\ P[k + 1] = 10 * P[k]
  BY Tens
<1> HIDE DEF P
<1> SUFFICES ASSUME NEW a \in Nat PROVE \A b \in Nat : P[a + b] = P[a] * P[b]
  BY DEF P
<1> DEFINE T == {b \in Nat : P[a + b] = P[a] * P[b]}
<1>2. 0 \in T
  BY <1>1
<1>3. ASSUME NEW b \in Nat, b \in T PROVE b + 1 \in T
  <2>1. P[a + (b + 1)] = 10 * P[a + b] /\ P[b + 1] = 10 * P[b] /\ a + (b + 1) = (a + b) + 1
    BY <1>1
  <2>2. \A x, y, z \in Nat : x = y * z => 10 * x = y * (10 * z)
    OBVIOUS
  <2>3. P[a + b] = P[a] * P[b] /\ P[a] \in Nat /\ P[b] \in Nat /\ P[a + b] \in Nat
    BY <1>1, <1>3
  <2>4. 10 * P[a + b] = P[a] * (10 * P[b])
    BY <2>2, <2>3
  <2> QED BY <2>1, <2>4
<1>4. Nat \subseteq T
  <2> HIDE DEF T
  <2> QED BY <1>2, <1>3, Induction
<1> QED BY <1>4

\* x is whole after some digits, y the sum of these, p the power of ten of the last
\* of them: equal while x has not saturated, not more afterwards.
Tracks(x, y, p) ==
    /\ x \in Nat /\ x < 10 * WHOLE_SATURATE /\ x * p <= y
    /\ x < WHOLE_SATURATE => y = x * p

\* One digit of the integer part: x and y are whole and the sum so far, p the
\* power of ten of the digit.
LEMMA WholeDigit ==
    ASSUME NEW x \in Nat, NEW y \in Int, NEW p \in Nat, NEW D \in 0 .. 9, NEW x2,
           Tracks(x, y, 10 * p),
           x2 = IF x < WHOLE_SATURATE THEN Shifted(x, D) ELSE x
    PROVE  Tracks(x2, y + D * p, p)
<1>0. /\ WHOLE_SATURATE \in Nat /\ x < 10 * WHOLE_SATURATE /\ x * (10 * p) <= y
      /\ x < WHOLE_SATURATE => y = x * (10 * p)
  BY Sizes DEF Tracks
<1>1. x * (10 * p) = 10 * (x * p) /\ x * p \in Nat /\ D * p \in Nat
  OBVIOUS
<1>2. CASE x < WHOLE_SATURATE
  <2>1. 10 * x + D \in Nat /\ 10 * x + D < 10 * WHOLE_SATURATE
    BY <1>0, <1>2
  <2>2. 10 * x + D < 10 * (WHOLE_SATURATE * Scale)
    BY <1>0, <2>1, Sizes
  <2>3. x2 = 10 * x + D
    BY <1>2, <2>1, <2>2, WideIsExact DEF Shifted
  <2>4. (10 * x + D) * p = 10 * (x * p) + D * p
    OBVIOUS
  <2> QED BY <1>0, <1>1, <1>2, <2>1, <2>3, <2>4 DEF Tracks
<1>3. CASE ~(x < WHOLE_SATURATE)
  BY <1>0, <1>1, <1>3 DEF Tracks
<1> QED BY <1>2, <1>3

\* whole never exceeds the sum of its digits, and is that sum while it has not
\* saturated: n and s are whole and the sum after every digit, L the number of all
\* digits of the text.
LEMMA WholeAgainstSum ==
    ASSUME NEW W \in Nat, NEW L \in Nat, W <= L, NEW d, NEW n, NEW s,
           \A i \in 1 .. W : d[i] \in 0 .. 9, WholeRun(n, d, W), SumRun(s, d, W, L)
    PROVE  Tracks(n[W], s[W], Power(10)[L - W])
<1> DEFINE P == Power(10)
           T == {i \in 0 .. W : Tracks(n[i], s[i], P[L - i])}
<1>1. \A k \in Nat : P[k] \in Nat /\ P[k + 1] = 10 * P[k]
  BY Tens
<1>2. /\ n[0] = 0 /\ s[0] = 0 /\ \A i \in 0 .. W : s[i] \in Int
      /\ \A i \in 1 .. W : n[i] = IF n[i - 1] < WHOLE_SATURATE
                                  THEN Shifted(n[i - 1], d[i]) ELSE n[i - 1]
      /\ \A i \in 1 .. W : s[i] = s[i - 1] + d[i] * P[L - i]
  BY DEF WholeRun, SumRun
<1> HIDE DEF P
<1>3. 0 \in T
  <2>1. L - 0 \in Nat /\ 0 * P[L - 0] = 0 /\ WHOLE_SATURATE > 0 /\ WHOLE_SATURATE \in Nat
    BY <1>1, Sizes
  <2> QED BY <1>2, <2>1 DEF Tracks
<1>4. ASSUME NEW i \in 0 .. W, i < W, i \in T PROVE i + 1 \in T
  <2> DEFINE j == i + 1
             p == P[L - j]
  <2>1. /\ j \in 1 .. W /\ j - 1 = i /\ L - j \in Nat /\ L - i = (L - j) + 1 /\ j \in 0 .. W
    BY <1>4
  <2> HIDE DEF j
  <2>2. p \in Nat /\ P[L - i] = 10 * p
    BY <1>1, <2>1
  <2>3. /\ n[i] \in Nat /\ s[i] \in Int /\ d[j] \in 0 .. 9 /\ Tracks(n[i], s[i], 10 * p)
        /\ n[j] = IF n[i] < WHOLE_SATURATE THEN Shifted(n[i], d[j]) ELSE n[i]
    <3>1. Tracks(n[i], s[i], 10 * p)
      BY <1>4, <2>2
    <3>2. n[i] \in Nat
      BY <3>1 DEF Tracks
    <3> QED BY <1>2, <2>1, <3>1, <3>2
  <2>4. s[j] = s[i] + d[j] * p
    BY <1>2, <2>1
  <2> HIDE DEF p
  <2>5. Tracks(n[j], s[i] + d[j] * p, p)
    BY <2>2, <2>3, WholeDigit
  <2>6. Tracks(n[j], s[j], p)
    BY <2>4, <2>5
  <2> QED BY <2>1, <2>6 DEF j, p
<1>5. 0 .. W \subseteq T
  <2> HIDE DEF T
  <2> QED BY <1>3, <1>4, InductionUpTo
<1>6. W \in T
  BY <1>5
<1> QED BY <1>6 DEF P

\* frac is never wrapped: f is frac after every place, D the digits it takes in.
LEMMA FractionIsExact ==
    ASSUME NEW f, NEW D, f[0] = 0, \A i \in 1 .. Places : D[i] \in 0 .. 9,
           \A i \in 1 .. Places : f[i] = Shifted(f[i - 1], D[i])
    PROVE  /\ \A i \in 0 .. Places : f[i] \in Nat /\ f[i] < Power(10)[i]
           /\ \A i \in 1 .. Places : f[i] = 10 * f[i - 1] + D[i]
<1> DEFINE P == Power(10)
           T == {i \in 0 .. Places : f[i] \in Nat /\ f[i] < P[i]}
<1>1. P[0] = 1 /\ \A k \in Nat : P[k] \in Nat /\ P[k] > 0 /\ P[k + 1] = 10 * P[k]
  BY Tens
<1>2. Places \in Nat /\ \A k \in 0 .. Places : P[k] <= 10 * (WHOLE_SATURATE * Scale)
  <2>1. Places \in Nat /\ Scale = P[Places] /\ Scale \in Nat
    BY Sizes
  <2>2. Scale <= 10 * (WHOLE_SATURATE * Scale)
    BY Sizes
  <2>3. ASSUME NEW k \in 0 .. Places PROVE P[k] <= Scale
    <3>1. k \in Nat /\ Places - k \in Nat /\ k + (Places - k) = Places
      BY <2>1
    <3>2. P[Places] = P[k] * P[Places - k]
      BY <3>1, TensAdd
    <3>3. P[k] \in Nat /\ P[Places - k] \in Nat /\ P[Places - k] > 0
      BY <1>1, <3>1
    <3>4. \A x, y \in Nat : y > 0 => x <= x * y
      OBVIOUS
    <3>5. P[k] <= P[k] * P[Places - k]
      BY <3>3, <3>4
    <3> QED BY <2>1, <3>2, <3>5
  <2>4. ASSUME NEW k \in 0 .. Places PROVE P[k] <= 10 * (WHOLE_SATURATE * Scale)
    <3>1. P[k] \in Nat /\ WHOLE_SATURATE * Scale \in Nat
      BY <1>1, <2>1, Sizes
    <3> QED BY <2>1, <2>2, <2>3, <3>1
  <2> QED BY <2>1, <2>4
<1> HIDE DEF P
<1>3. ASSUME NEW i \in 1 .. Places, f[i - 1] \in Nat, f[i - 1] < P[i - 1]
      PROVE  f[i] \in Nat /\ f[i] < P[i] /\ f[i] = 10 * f[i - 1] + D[i]
  <2> DEFINE v == 10 * f[i - 1] + D[i]
  <2>1. i - 1 \in Nat /\ (i - 1) + 1 = i /\ i \in 0 .. Places /\ D[i] \in 0 .. 9
    BY <1>2
  <2>2. P[i] = 10 * P[i - 1] /\ P[i - 1] \in Nat /\ P[i] \in Nat
    BY <1>1, <2>1
  <2>3. v \in Nat /\ v < P[i]
    BY <1>3, <2>1, <2>2
  <2>4. P[i] <= 10 * (WHOLE_SATURATE * Scale) /\ WHOLE_SATURATE * Scale \in Nat
    BY <1>2, <2>1, Sizes
  <2> HIDE DEF v
  <2>5. v < 10 * (WHOLE_SATURATE * Scale)
    BY <2>2, <2>3, <2>4
  <2>6. Wide(v) = v
    BY <2>3, <2>5, WideIsExact
  <2>7. f[i] = Wide(v)
    BY DEF Shifted, v
  <2> QED BY <2>3, <2>6, <2>7 DEF v
<1>4. 0 \in T
  BY <1>1, <1>2
<1>5. ASSUME NEW i \in 0 .. Places, i < Places, i \in T PROVE i + 1 \in T
  <2>1. i + 1 \in 1 .. Places /\ (i + 1) - 1 = i /\ i + 1 \in 0 .. Places
    BY <1>2, <1>5
  <2>2. f[i + 1] \in Nat /\ f[i + 1] < P[i + 1]
    BY <1>3, <1>5, <2>1
  <2> QED BY <2>1, <2>2
<1>6. 0 .. Places \subseteq T
  <2> HIDE DEF T
  <2> QED BY <1>2, <1>4, <1>5, InductionUpTo
<1>7. \A i \in 0 .. Places : f[i] \in Nat /\ f[i] < P[i]
  BY <1>6
<1>8. \A i \in 1 .. Places : f[i] = 10 * f[i - 1] + D[i]
  <2> SUFFICES ASSUME NEW i \in 1 .. Places PROVE f[i] = 10 * f[i - 1] + D[i]
    OBVIOUS
  <2>1. i - 1 \in 0 .. Places
    BY <1>2
  <2> QED BY <1>3, <1>7, <2>1
<1> QED BY <1>7, <1>8 DEF P

\* The digits d behind the point, F of them, are added to the sum s from place a to
\* place b; W digits are before the point.
Added(s, W, d, F, a, b) ==
    /\ \A i \in a .. b : d[i] \in 0 .. 9
    /\ \A i \in a .. b : s[W + i] = s[W + (i - 1)] + d[i] * Power(10)[F - i]

\* f takes in the digits d one by one up to place M.
Gathered(f, d, M) ==
    /\ f[0] = 0 /\ \A i \in 0 .. M : f[i] \in Nat
    /\ \A i \in 1 .. M : f[i] = 10 * f[i - 1] + d[i]

\* As far as the text has digits behind the point, they are added up in frac: s is
\* the sum after every digit, the first W of them before the point, F behind it.
LEMMA FractionAgainstSum ==
    ASSUME NEW W \in Nat, NEW F \in Nat, NEW M \in Nat, M <= F, NEW f, NEW D, NEW s,
           s[W] \in Int, Gathered(f, D, M), Added(s, W, D, F, 1, M)
    PROVE  s[W + M] = s[W] + f[M] * Power(10)[F - M]
<1> DEFINE P == Power(10)
           T == {i \in 0 .. M : s[W + i] = s[W] + f[i] * P[F - i]}
<1>1. \A k \in Nat : P[k] \in Nat /\ P[k + 1] = 10 * P[k]
  BY Tens
<1>2. /\ \A i \in 1 .. M : D[i] \in 0 .. 9
      /\ \A i \in 1 .. M : s[W + i] = s[W + (i - 1)] + D[i] * P[F - i]
      /\ f[0] = 0 /\ \A i \in 0 .. M : f[i] \in Nat
      /\ \A i \in 1 .. M : f[i] = 10 * f[i - 1] + D[i]
  BY DEF Added, Gathered
<1> HIDE DEF P
<1>3. 0 \in T
  <2>1. F - 0 \in Nat /\ 0 * P[F - 0] = 0 /\ W + 0 = W
    BY <1>1
  <2> QED BY <1>2, <2>1
<1>4. ASSUME NEW i \in 0 .. M, i < M, i \in T PROVE i + 1 \in T
  <2> DEFINE j == i + 1
             p == P[F - j]
  <2>1. j \in 1 .. M /\ j - 1 = i /\ F - j \in Nat /\ F - i = (F - j) + 1 /\ j \in 0 .. M
    BY <1>4
  <2> HIDE DEF j
  <2>2. p \in Nat /\ P[F - i] = 10 * p
    BY <1>1, <2>1
  <2>3. s[W + j] = s[W + i] + D[j] * p /\ s[W + i] = s[W] + f[i] * (10 * p)
    BY <1>2, <1>4, <2>1, <2>2
  <2>4. f[i] \in Nat /\ D[j] \in 0 .. 9 /\ f[j] = 10 * f[i] + D[j]
    BY <1>2, <2>1
  <2> HIDE DEF p
  <2>5. \A x, y, q \in Nat : (10 * x + y) * q = x * (10 * q) + y * q
    OBVIOUS
  <2>6. f[j] * p = f[i] * (10 * p) + D[j] * p
    BY <2>2, <2>4, <2>5
  <2>7. f[i] * (10 * p) \in Nat /\ D[j] * p \in Nat
    <3>1. \A x, y \in Nat : x * y \in Nat
      OBVIOUS
    <3>2. 10 * p \in Nat /\ D[j] \in Nat
      BY <2>2, <2>4
    <3> QED BY <2>2, <2>4, <3>1, <3>2
  <2>8. s[W + j] = s[W] + f[j] * p
    BY <2>3, <2>6, <2>7
  <2> QED BY <2>1, <2>8 DEF j, p
<1>5. 0 .. M \subseteq T
  <2> HIDE DEF T
  <2> QED BY <1>3, <1>4, InductionUpTo
<1>6. M \in T
  BY <1>5
<1> QED BY <1>6 DEF P

\* A text with fewer digits than places: the places left over are zeros.
LEMMA FractionFilledUp ==
    ASSUME NEW F \in Nat, F <= Places, NEW f,
           \A i \in 0 .. Places : f[i] \in Nat,
           \A i \in F + 1 .. Places : f[i] = 10 * f[i - 1]
    PROVE  f[Places] = f[F] * Power(10)[Places - F]
<1> DEFINE P == Power(10)
           M == Places - F
           T == {i \in 0 .. M : f[F + i] = f[F] * P[i]}
<1>1. P[0] = 1 /\ \A k \in Nat : P[k] \in Nat /\ P[k + 1] = 10 * P[k]
  BY Tens
<1>2. Places \in Nat /\ M \in Nat /\ F + M = Places /\ F \in 0 .. Places
  BY Sizes
<1> HIDE DEF P, M
<1>3. 0 \in T
  BY <1>1, <1>2
<1>4. ASSUME NEW i \in 0 .. M, i < M, i \in T PROVE i + 1 \in T
  <2>1. /\ F + (i + 1) \in F + 1 .. Places /\ (F + (i + 1)) - 1 = F + i
        /\ i + 1 \in 0 .. M /\ i \in Nat
    BY <1>2, <1>4
  <2>2. f[F + (i + 1)] = 10 * f[F + i] /\ f[F + i] = f[F] * P[i]
    BY <1>4, <2>1
  <2>3. P[i] \in Nat /\ P[i + 1] = 10 * P[i] /\ f[F] \in Nat
    BY <1>1, <1>2, <2>1
  <2>4. \A x, y \in Nat : 10 * (x * y) = x * (10 * y)
    OBVIOUS
  <2>5. 10 * (f[F] * P[i]) = f[F] * (10 * P[i])
    BY <2>3, <2>4
  <2>6. f[F + (i + 1)] = f[F] * P[i + 1]
    BY <2>2, <2>3, <2>5
  <2> QED BY <2>1, <2>6
<1>5. 0 .. M \subseteq T
  <2> HIDE DEF T
  <2> QED BY <1>2, <1>3, <1>4, InductionUpTo
<1>6. M \in T
  BY <1>2, <1>5
<1> QED BY <1>2, <1>6 DEF P, M

\* A text with more digits than places: those cut off are less than one unit.
LEMMA FractionCutOff ==
    ASSUME NEW W \in Nat, NEW F \in Nat, NEW M \in Nat, M <= F, NEW D, NEW s,
           \A i \in M .. F : s[W + i] \in Int, Added(s, W, D, F, M + 1, F)
    PROVE  s[W + M] <= s[W + F] /\ s[W + F] < s[W + M] + Power(10)[F - M]
<1> DEFINE P == Power(10)
           a == s[W + M]
           b == a + P[F - M]
           T == {i \in 0 .. F - M : a <= s[W + (M + i)] /\ s[W + (M + i)] + P[F - (M + i)] <= b}
<1>1. P[0] = 1 /\ \A k \in Nat : P[k] \in Nat /\ P[k + 1] = 10 * P[k]
  BY Tens
<1>2. /\ \A i \in M + 1 .. F : D[i] \in 0 .. 9
      /\ \A i \in M + 1 .. F : s[W + i] = s[W + (i - 1)] + D[i] * P[F - i]
  BY DEF Added
<1> HIDE DEF P
<1>3. F - M \in Nat /\ a \in Int /\ b \in Int
  BY <1>1
<1>4. 0 \in T
  <2>1. M + 0 = M
    OBVIOUS
  <2> QED BY <1>3, <2>1
<1>5. ASSUME NEW i \in 0 .. F - M, i < F - M, i \in T PROVE i + 1 \in T
  <2> DEFINE j == M + (i + 1)
             p == P[F - j]
             x == s[W + (M + i)]
  <2>1. /\ j \in M + 1 .. F /\ j - 1 = M + i /\ F - j \in Nat /\ F - (M + i) = (F - j) + 1
        /\ i + 1 \in 0 .. F - M /\ M + i \in M .. F
    BY <1>5
  <2>2. p \in Nat /\ P[F - (M + i)] = 10 * p /\ x \in Int
    BY <1>1, <2>1
  <2>3. s[W + j] = x + D[j] * p /\ D[j] \in 0 .. 9
    BY <1>2, <2>1
  <2>4. a <= x /\ x + 10 * p <= b
    BY <1>5, <2>2
  <2> HIDE DEF j, p, x, a, b
  <2>5. ASSUME NEW e \in 0 .. 9, NEW q \in Nat PROVE e * q \in Nat /\ e * q + q <= 10 * q
    OBVIOUS
  <2>6. D[j] * p \in Nat /\ D[j] * p + p <= 10 * p
    BY <2>2, <2>3, <2>5
  <2>7. a <= s[W + j] /\ s[W + j] + p <= b
    BY <1>3, <2>2, <2>3, <2>4, <2>6
  <2> QED BY <2>1, <2>7 DEF j, p
<1>6. 0 .. F - M \subseteq T
  <2> HIDE DEF T
  <2> QED BY <1>3, <1>4, <1>5, InductionUpTo
<1>7. F - M \in T /\ M + (F - M) = F /\ F - F = 0
  BY <1>3, <1>6
<1>8. a <= s[W + F] /\ s[W + F] + 1 <= b
  BY <1>1, <1>7
<1>9. s[W + F] \in Int
  OBVIOUS
<1> QED BY <1>3, <1>8, <1>9 DEF P

\* The arithmetic of a text with no more digits than places: nothing is cut off.
LEMMA ShortText ==
    ASSUME NEW x \in Nat, NEW g \in Nat, NEW t \in Nat, NEW one \in Nat
    PROVE  (x * (one * t) + g * t) * one = (x * one + g) * (one * t)
<1>1. (x * (one * t) + g * t) * one = x * (one * t) * one + g * t * one
  OBVIOUS
<1>2. (x * one + g) * (one * t) = x * one * (one * t) + g * (one * t)
  OBVIOUS
<1> QED BY <1>1, <1>2

\* Of one with more: what is cut off is r units of the last digit, less than t.
LEMMA LongText ==
    ASSUME NEW x \in Nat, NEW g \in Nat, NEW t \in Nat, NEW z \in Nat, NEW r \in Nat,
           r < t, z > 0
    PROVE  /\ (x * z + g) * (z * t) <= (x * (z * t) + g * t + r) * z
           /\ (x * (z * t) + g * t + r) * z < (x * z + g + 1) * (z * t)
<1> DEFINE a == (x * z + g) * (z * t)
<1>1. (x * (z * t) + g * t + r) * z = a + r * z
  <2>1. (x * (z * t) + g * t + r) * z = x * (z * t) * z + g * t * z + r * z
    OBVIOUS
  <2>2. a = x * z * (z * t) + g * (z * t)
    OBVIOUS
  <2> QED BY <2>1, <2>2
<1>2. (x * z + g + 1) * (z * t) = a + z * t
  OBVIOUS
<1>3. a \in Nat /\ r * z \in Nat /\ r * z < z * t
  OBVIOUS
<1> HIDE DEF a
<1> QED BY <1>1, <1>2, <1>3 DEF a

\* Of an integer part that has saturated.
LEMMA LargeText ==
    ASSUME NEW x \in Nat, NEW z \in Nat, NEW one \in Nat, NEW N \in Int, NEW a \in Nat,
           NEW m \in Nat, one > 0, z > 0, x >= a, m < a * z, x * one <= N
    PROVE  m < x * z /\ m * one < N * z
<1>1. a * z <= x * z /\ a * z \in Nat /\ x * z \in Nat
  OBVIOUS
<1>2. x * one * z <= N * z
  <2>1. \A u, w \in Int : u <= w => u * z <= w * z
    OBVIOUS
  <2> QED BY <2>1
<1>3. m < x * z
  BY <1>1
<1>4. m * one < x * z * one
  <2>1. \A u, w \in Nat : u < w => u * one < w * one
    OBVIOUS
  <2> QED BY <1>1, <1>3, <2>1
<1>5. x * z * one = x * one * z
  OBVIOUS
<1>6. m * one \in Int /\ x * one * z \in Int /\ N * z \in Int
  OBVIOUS
<1> QED BY <1>2, <1>3, <1>4, <1>5, <1>6

\* The numeral behind its integer part: f is frac after every place, sW the sum of
\* the digits before the point.
LEMMA FractionInSum ==
    ASSUME NEW W \in Nat, NEW F \in Nat, NEW fd, NEW f, NEW s,
           \A i \in W .. W + F : s[i] \in Int, Added(s, W, fd, F, 1, F),
           FractionRun(f, fd, F)
    PROVE  /\ f[Places] \in Nat /\ f[Places] < Scale /\ s[W] <= s[W + F]
           /\ F <= Places => \E g \in Nat : /\ s[W + F] = s[W] + g
                                            /\ f[Places] = g * Power(10)[Places - F]
           /\ F > Places => \E r \in Nat : /\ r < Power(10)[F - Places]
                                           /\ s[W + F] = s[W] + f[Places] * Power(10)[F - Places] + r
<1> DEFINE D == [i \in 1 .. Places |-> IF i <= F THEN fd[i] ELSE 0]
           P == Power(10)
<1>1. Places \in Nat /\ Scale = P[Places]
  BY Sizes
<1>2. /\ \A i \in 1 .. Places : D[i] \in 0 .. 9
      /\ \A i \in 1 .. Places : f[i] = Shifted(f[i - 1], D[i])
      /\ \A i \in 1 .. Places : i <= F => D[i] = fd[i]
      /\ \A i \in 1 .. Places : ~(i <= F) => D[i] = 0
  <2>1. \A i \in 1 .. Places : i <= F => D[i] = fd[i]
    BY <1>1
  <2>2. \A i \in 1 .. Places : ~(i <= F) => D[i] = 0
    BY <1>1
  <2>3. \A i \in 1 .. Places : f[i] = Shifted(f[i - 1], D[i])
    BY DEF FractionRun
  <2>4. \A i \in 1 .. Places : D[i] \in 0 .. 9
    <3> HIDE DEF D
    <3> SUFFICES ASSUME NEW i \in 1 .. Places PROVE D[i] \in 0 .. 9
      OBVIOUS
    <3>1. CASE i <= F
      <4>1. i \in 1 .. F
        BY <1>1, <3>1
      <4> QED BY <2>1, <3>1, <4>1 DEF Added
    <3>2. CASE ~(i <= F)
      BY <2>2, <3>2
    <3> QED BY <3>1, <3>2
  <2> QED BY <2>1, <2>2, <2>3, <2>4
<1> HIDE DEF D
<1>3. /\ \A i \in 0 .. Places : f[i] \in Nat /\ f[i] < P[i]
      /\ \A i \in 1 .. Places : f[i] = 10 * f[i - 1] + D[i]
  BY <1>2, FractionIsExact DEF FractionRun
<1>4. P[0] = 1 /\ \A k \in Nat : P[k] \in Nat /\ P[k] > 0
  BY Tens
<1>5. \A i \in 0 .. F : s[W + i] \in Int
  OBVIOUS
<1>6. s[W] <= s[W + F]
  <2>1. 0 \in Nat /\ 0 <= F /\ W + 0 = W /\ 0 + 1 = 1
    OBVIOUS
  <2>2. Added(s, W, fd, F, 0 + 1, F)
    BY <2>1
  <2>3. s[W + 0] <= s[W + F]
    BY <1>5, <2>1, <2>2, FractionCutOff
  <2> QED BY <2>1, <2>3
<1>7. ASSUME NEW M \in Nat, M <= F, M <= Places PROVE s[W + M] = s[W] + f[M] * P[F - M]
  <2>1. \A i \in 1 .. M : i \in 1 .. Places /\ i \in 1 .. F
    BY <1>1, <1>7
  <2>2. \A i \in 0 .. M : i \in 0 .. Places
    BY <1>1, <1>7
  <2>3. \A i \in 1 .. M : fd[i] \in 0 .. 9 /\ f[i] = 10 * f[i - 1] + fd[i]
    <3> SUFFICES ASSUME NEW i \in 1 .. M PROVE fd[i] \in 0 .. 9 /\ f[i] = 10 * f[i - 1] + fd[i]
      OBVIOUS
    <3>1. D[i] = fd[i]
      BY <1>2, <2>1
    <3> QED BY <1>3, <2>1, <3>1 DEF Added
  <2>4. \A i \in 0 .. M : f[i] \in Nat
    BY <1>3, <2>2
  <2>5. s[W] \in Int
    OBVIOUS
  <2>6. Added(s, W, fd, F, 1, M)
    BY <2>1 DEF Added
  <2>7. Gathered(f, fd, M)
    BY <2>3, <2>4 DEF Gathered, FractionRun
  <2> QED BY <1>7, <2>5, <2>6, <2>7, FractionAgainstSum
<1>8. ASSUME F <= Places
      PROVE  \E g \in Nat : s[W + F] = s[W] + g /\ f[Places] = g * P[Places - F]
  <2>1. f[F] \in Nat /\ F - F = 0
    BY <1>1, <1>3, <1>8
  <2>2. s[W + F] = s[W] + f[F] * P[0]
    BY <1>7, <1>8, <2>1
  <2>3. s[W + F] = s[W] + f[F]
    BY <1>4, <2>1, <2>2
  <2>4. \A i \in F + 1 .. Places : f[i] = 10 * f[i - 1]
    <3> SUFFICES ASSUME NEW i \in F + 1 .. Places PROVE f[i] = 10 * f[i - 1]
      OBVIOUS
    <3>1. i \in 1 .. Places /\ ~(i <= F) /\ i - 1 \in 0 .. Places
      BY <1>1
    <3>2. f[i] = 10 * f[i - 1] + 0 /\ f[i - 1] \in Nat
      BY <1>2, <1>3, <3>1
    <3> QED BY <3>2
  <2>5. f[Places] = f[F] * P[Places - F]
    <3>1. \A i \in 0 .. Places : f[i] \in Nat
      BY <1>3
    <3> QED BY <1>8, <2>4, <3>1, FractionFilledUp
  <2> QED BY <2>1, <2>3, <2>5
<1>9. ASSUME F > Places
      PROVE  \E r \in Nat : r < P[F - Places] /\ s[W + F] = s[W] + f[Places] * P[F - Places] + r
  <2> DEFINE t == P[F - Places]
             a == s[W + Places]
             b == s[W + F]
  <2>1. a = s[W] + f[Places] * t
    BY <1>1, <1>7, <1>9
  <2>2. a <= b /\ b < a + t
    <3>1. \A i \in Places + 1 .. F : i \in 1 .. F
      BY <1>1
    <3>2. \A i \in Places .. F : s[W + i] \in Int
      BY <1>1
    <3>3. Added(s, W, fd, F, Places + 1, F)
      BY <3>1 DEF Added
    <3>4. Places <= F /\ Places \in Nat
      BY <1>1, <1>9
    <3> QED BY <3>2, <3>3, <3>4, FractionCutOff
  <2>3. a \in Int /\ b \in Int /\ t \in Nat
    BY <1>1, <1>4, <1>9
  <2> HIDE DEF t, a, b
  <2>4. b - a \in Nat /\ b - a < t /\ b = a + (b - a)
    BY <2>2, <2>3
  <2> QED BY <2>1, <2>4 DEF t, b
<1>10. f[Places] \in Nat /\ f[Places] < Scale
  BY <1>1, <1>3
<1> QED BY <1>6, <1>8, <1>9, <1>10 DEF P

\* The integer before its sign.
Magnitude(text) == Whole(text.whole) * Scale + Fraction(text.frac)

\* fmma_parse_scaled on any text: the price in units, cut off below a unit, unless
\* the integer part has saturated; then both are larger than every price.
LEMMA ParsedText ==
    ASSUME NEW text \in Text
    PROVE  /\ Magnitude(text) \in Nat
           /\ Wide(Magnitude(text)) = Magnitude(text)
           /\ Numeral(text) \in Int
           /\ \/ IsPriceOf(Magnitude(text), text)
              \/ /\ Magnitude(text) > FMMA_PRICE_MAX
                 /\ FMMA_PRICE_MAX * Power(10)[Len(text.frac)] < Numeral(text) * Scale
<1> DEFINE wd == text.whole
           fd == text.frac
           W == Len(wd)
           F == Len(fd)
           d == Digits(text)
           L == Len(d)
           P == Power(10)
           one == P[F]
           v == Magnitude(text)
<1>1. /\ wd \in Seq(0 .. 9) /\ fd \in Seq(0 .. 9) /\ d \in Seq(0 .. 9)
      /\ W \in Nat /\ F \in Nat /\ L = W + F
      /\ \A i \in 1 .. W : d[i] = wd[i]
      /\ \A i \in 1 .. F : d[W + i] = fd[i]
  BY DigitsLaw DEF Text
<1>2. PICK n : WholeRun(n, wd, W) /\ Whole(wd) = n[W]
  BY <1>1, WholeLaw
<1>3. PICK f : FractionRun(f, fd, F) /\ Fraction(fd) = f[Places]
  BY <1>1, FractionLaw
<1>4. PICK s : SumRun(s, d, L, L) /\ Numeral(text) = s[L]
  BY NumeralLaw
<1> HIDE DEF wd, fd, W, F, d, L, P
<1>5. \A i \in 1 .. W : wd[i] \in 0 .. 9
  BY <1>1 DEF W
<1>6. \A i \in 1 .. F : fd[i] \in 0 .. 9
  BY <1>1 DEF F
<1>7. Tracks(n[W], s[W], one)
  <2>1. W <= L /\ L \in Nat /\ L - W = F
    BY <1>1
  <2>2. SumRun(s, wd, W, L)
    <3>1. \A i \in 1 .. W : i \in 1 .. L /\ d[i] = wd[i]
      BY <1>1
    <3>2. \A i \in 0 .. W : i \in 0 .. L
      BY <1>1
    <3> QED BY <1>4, <3>1, <3>2 DEF SumRun
  <2>3. Tracks(n[W], s[W], Power(10)[L - W])
    BY <1>1, <1>2, <1>5, <2>1, <2>2, WholeAgainstSum
  <2> QED BY <2>1, <2>3 DEF P
<1>8. Added(s, W, fd, F, 1, F)
  <2> SUFFICES ASSUME NEW i \in 1 .. F
               PROVE  s[W + i] = s[W + (i - 1)] + fd[i] * P[F - i]
    BY <1>6 DEF Added, P
  <2>1. W + i \in 1 .. L /\ (W + i) - 1 = W + (i - 1) /\ L - (W + i) = F - i
    BY <1>1
  <2>2. d[W + i] = fd[i]
    BY <1>1
  <2>3. s[W + i] = s[(W + i) - 1] + d[W + i] * P[L - (W + i)]
    BY <1>4, <2>1 DEF SumRun, P
  <2> QED BY <2>1, <2>2, <2>3
<1>9. /\ f[Places] \in Nat /\ f[Places] < Scale /\ s[W] <= s[W + F]
      /\ F <= Places => \E g \in Nat : s[W + F] = s[W] + g /\ f[Places] = g * P[Places - F]
      /\ F > Places => \E r \in Nat : /\ r < P[F - Places]
                                      /\ s[W + F] = s[W] + f[Places] * P[F - Places] + r
  <2>1. \A i \in W .. W + F : s[i] \in Int
    BY <1>1, <1>4 DEF SumRun
  <2> QED BY <1>1, <1>3, <1>8, <2>1, FractionInSum DEF P
<1> DEFINE x == n[W]
           g == f[Places]
           N == Numeral(text)
<1>10. /\ v = x * Scale + g /\ N = s[W + F] /\ s[W] \in Int /\ N \in Int
       /\ x \in Nat /\ g \in Nat /\ g < Scale
  <2>1. v = x * Scale + g
    BY <1>2, <1>3 DEF Magnitude, wd, fd
  <2>2. 0 <= W /\ W <= L /\ L \in 0 .. L /\ W \in 0 .. L
    BY <1>1
  <2> QED BY <1>1, <1>4, <1>7, <1>9, <2>1, <2>2 DEF Tracks, SumRun
<1>11. /\ x < 10 * WHOLE_SATURATE /\ x * one <= s[W]
       /\ x < WHOLE_SATURATE => s[W] = x * one
  BY <1>7 DEF Tracks
<1>12. /\ one \in Nat /\ one > 0 /\ Scale \in Nat /\ Scale > 0 /\ WHOLE_SATURATE \in Nat
       /\ FMMA_PRICE_MAX \in Nat /\ FMMA_PRICE_MAX < WHOLE_SATURATE * Scale
       /\ Places \in Nat /\ Scale = P[Places]
  BY <1>1, Tens, Sizes DEF P
<1> HIDE DEF x, g, N, v, one
<1>13. v \in Nat /\ v < 10 * (WHOLE_SATURATE * Scale)
  <2>1. ASSUME NEW a \in Nat, NEW z \in Nat, NEW y \in Nat, NEW u \in Nat, y < 10 * a, u < z
        PROVE  y * z + u < 10 * (a * z) /\ y * z + u \in Nat
    <3>1. (y + 1) * z <= (10 * a) * z
      <4>1. \A p, q \in Nat : p <= q => p * z <= q * z
        OBVIOUS
      <4> QED BY <2>1, <4>1
    <3>2. (y + 1) * z = y * z + z /\ (10 * a) * z = 10 * (a * z)
      OBVIOUS
    <3>3. y * z \in Nat /\ a * z \in Nat
      OBVIOUS
    <3> QED BY <2>1, <3>1, <3>2, <3>3
  <2> QED BY <1>10, <1>11, <1>12, <2>1
<1>14. Wide(v) = v
  BY <1>13, WideIsExact
<1>15. CASE ~(x < WHOLE_SATURATE)
  <2>1. x * one <= N /\ x >= WHOLE_SATURATE
    <3>1. x * one \in Int
      BY <1>10, <1>12
    <3> QED BY <1>9, <1>10, <1>11, <1>12, <1>15, <3>1
  <2>2. FMMA_PRICE_MAX < x * Scale /\ FMMA_PRICE_MAX * one < N * Scale
    BY <1>10, <1>12, <2>1, LargeText
  <2>3. FMMA_PRICE_MAX < v
    <3>1. x * Scale \in Nat
      BY <1>10, <1>12
    <3> QED BY <1>10, <1>12, <2>2, <3>1
  <2> QED BY <1>10, <1>13, <1>14, <2>2, <2>3 DEF N, v, one, P, F, fd
<1>16. CASE x < WHOLE_SATURATE
  <2> SUFFICES v * one <= N * Scale /\ N * Scale < (v + 1) * one
    BY <1>10, <1>13, <1>14 DEF IsPriceOf, N, v, one, P, F, fd
  <2>1. s[W] = x * one
    BY <1>11, <1>16
  <2>2. CASE F <= Places
    <3>1. PICK h \in Nat : N = s[W] + h /\ g = h * P[Places - F]
      BY <1>9, <1>10, <2>2 DEF g
    <3> DEFINE t == P[Places - F]
    <3>2. t \in Nat /\ Scale = one * t
      <4>1. Places - F \in Nat /\ F + (Places - F) = Places
        BY <1>1, <1>12, <2>2
      <4>2. P[F + (Places - F)] = P[F] * P[Places - F]
        BY <1>1, <4>1, TensAdd DEF P
      <4>3. P[Places - F] \in Nat
        BY <4>1, Tens DEF P
      <4> QED BY <1>12, <4>1, <4>2, <4>3 DEF one
    <3> HIDE DEF t
    <3>3. v = x * (one * t) + h * t /\ N = x * one + h
      BY <1>10, <2>1, <3>1, <3>2 DEF t
    <3>4. v * one = N * Scale
      BY <1>10, <1>12, <3>2, <3>3, ShortText
    <3>5. (v + 1) * one = v * one + one /\ v * one \in Nat
      BY <1>12, <1>13
    <3> QED BY <1>12, <3>4, <3>5
  <2>3. CASE F > Places
    <3> DEFINE t == P[F - Places]
    <3>1. PICK r \in Nat : r < t /\ N = s[W] + g * t + r
      BY <1>9, <1>10, <2>3 DEF g
    <3>2. t \in Nat /\ one = Scale * t
      <4>1. F - Places \in Nat /\ Places + (F - Places) = F
        <5>1. F \in Nat /\ Places \in Nat /\ F > Places
          BY <1>1, <1>12, <2>3
        <5> QED BY <5>1
      <4>2. P[Places + (F - Places)] = P[Places] * P[F - Places]
        BY <1>12, <4>1, TensAdd DEF P
      <4>3. P[F - Places] \in Nat
        BY <4>1, Tens DEF P
      <4> QED BY <1>12, <4>1, <4>2, <4>3 DEF one
    <3> HIDE DEF t
    <3>3. N = x * (Scale * t) + g * t + r
      BY <2>1, <3>1, <3>2
    <3>4. /\ (x * Scale + g) * (Scale * t) <= (x * (Scale * t) + g * t + r) * Scale
          /\ (x * (Scale * t) + g * t + r) * Scale < (x * Scale + g + 1) * (Scale * t)
      BY <1>10, <1>12, <3>1, <3>2, LongText
    <3> QED BY <1>10, <3>2, <3>3, <3>4
  <2> QED BY <1>1, <1>12, <2>2, <2>3
<1> QED BY <1>15, <1>16

\* fmma_parse_scaled returns an integer.
LEMMA ParsedInteger == \A text \in Text : ParseScaled(text) \in Int
<1> SUFFICES ASSUME NEW text \in Text PROVE ParseScaled(text) \in Int
  OBVIOUS
<1>1. PARSE_ERROR \in Int
  BY Sizes DEF PARSE_ERROR
<1>2. Magnitude(text) \in Nat /\ Wide(Magnitude(text)) = Magnitude(text)
  BY ParsedText
<1> QED BY <1>1, <1>2 DEF ParseScaled, Magnitude

-----------------------------------------------------------------------------
(* Quotes *)

\* Two clamped prices that are not zero.
Quotable == quote = <<0, 0>> \/ quote \in (1 .. FMMA_PRICE_MAX) \X (1 .. FMMA_PRICE_MAX)

\* Two prices add up without wrapping.
LEMMA SumFits ==
    ASSUME NEW b \in 1 .. FMMA_PRICE_MAX, NEW a \in 1 .. FMMA_PRICE_MAX
    PROVE  Wrap(b + a) = b + a
<1> DEFINE h == SignedMod \div 2
<1>1. h \in Nat /\ SignedMod = 2 * h /\ 2 * FMMA_PRICE_MAX < h /\ FMMA_PRICE_MAX \in Nat
  BY SignedAssumption DEF FMMA_PRICE_MAX
<1>2. b + a + h \in 0 .. SignedMod - 1
  BY <1>1
<1>3. (b + a + h) % SignedMod = b + a + h
  BY <1>1, <1>2, SignedAssumption
<1> QED BY <1>1, <1>3 DEF Wrap

\* on_quote: what reaches the strategies can be compared in the fabric's signed
\* registers, whatever text the exchange sends.
THEOREM QuotesComparable == FeedSpec => []QuotesAreComparable
<1>1. FeedInit => Quotable
  BY DEF FeedInit, Quotable
<1>2. Quotable /\ [FeedNext]_feedVars => Quotable'
  <2> SUFFICES ASSUME Quotable, [FeedNext]_feedVars PROVE Quotable'
    OBVIOUS
  <2>1. ASSUME NEW bt \in Texts, NEW at \in Texts, WsTicker(bt, at) PROVE Quotable'
    <3>1. FMMA_PRICE_MAX \in Nat
      BY SignedAssumption DEF FMMA_PRICE_MAX
    <3>2. ASSUME NEW v \in Int, ClampPrice(v) # 0
          PROVE  ClampPrice(v) \in 1 .. FMMA_PRICE_MAX
      BY <3>1, <3>2 DEF ClampPrice
    <3>3. ParseScaled(bt) \in Int /\ ParseScaled(at) \in Int
      BY ParsedInteger, FeedAssumption
    <3> QED BY <2>1, <3>2, <3>3 DEF WsTicker, Quotable
  <2>2. CASE UNCHANGED quote
    BY <2>2 DEF Quotable
  <2> QED
    BY <2>1, <2>2 DEF FeedNext, Start, TimerDue, FeedPoll, WsOpen, WsError, WsClose, feedVars
<1>3. Quotable => QuotesAreComparable
  <2> SUFFICES ASSUME Quotable, quote # <<0, 0>> PROVE QuotesAreComparable
    BY DEF QuotesAreComparable
  <2>1. quote[1] \in 1 .. FMMA_PRICE_MAX /\ quote[2] \in 1 .. FMMA_PRICE_MAX
    BY DEF Quotable
  <2>2. FMMA_PRICE_MAX \in Nat
    BY SignedAssumption DEF FMMA_PRICE_MAX
  <2>3. Wrap(quote[1] + quote[2]) = quote[1] + quote[2]
    BY <2>1, SumFits
  <2> QED BY <2>1, <2>2, <2>3 DEF QuotesAreComparable
<1> QED BY <1>1, <1>2, <1>3, PTL DEF FeedSpec

\* What PricesAreExact says of one price and its text.
Exact(p, text) ==
    /\ ~text.neg
    /\ \/ IsPriceOf(p, text)
       \/ /\ p = FMMA_PRICE_MAX
          /\ Numeral(text) * Scale > FMMA_PRICE_MAX * Power(10)[Len(text.frac)]

\* A text that survives the parser and the clamp.
LEMMA ClampedText ==
    ASSUME NEW text \in Text, ParseScaled(text) # PARSE_ERROR, ClampPrice(ParseScaled(text)) # 0
    PROVE  Exact(ClampPrice(ParseScaled(text)), text)
<1> DEFINE v == Magnitude(text)
           N == Numeral(text)
           m == FMMA_PRICE_MAX
           one == Power(10)[Len(text.frac)]
<1>1. /\ v \in Nat /\ Wide(v) = v /\ N \in Int
      /\ IsPriceOf(v, text) \/ (v > m /\ m * one < N * Scale)
  BY ParsedText
<1>2. m \in Nat /\ Scale \in Nat /\ one \in Nat /\ one > 0
  <2>1. Len(text.frac) \in Nat
    BY DigitsLaw
  <2> QED BY <2>1, Sizes, Tens
<1>3. ParseScaled(text) = IF text.neg THEN -v ELSE v
  BY <1>1 DEF ParseScaled, Magnitude
<1>4. ~text.neg /\ ParseScaled(text) = v
  <2>1. ASSUME text.neg PROVE FALSE
    <3>1. ParseScaled(text) = -v /\ -v \in Int /\ -v <= 0
      BY <1>1, <1>3, <2>1
    <3>2. ClampPrice(-v) = 0
      BY <1>2, <3>1 DEF ClampPrice
    <3> QED BY <3>1, <3>2
  <2> QED BY <1>3, <2>1
<1>5. IsPriceOf(v, text) <=> v * one <= N * Scale /\ N * Scale < (v + 1) * one
  BY DEF IsPriceOf
<1> HIDE DEF v, N, m, one
<1>6. CASE v > m
  <2>1. ClampPrice(v) = m
    BY <1>1, <1>2, <1>6 DEF ClampPrice, m
  <2>2. m * one < N * Scale
    <3>1. CASE IsPriceOf(v, text)
      <4>1. v * one <= N * Scale
        BY <1>5, <3>1
      <4>2. m * one < v * one
        <5>1. \A a, b \in Nat : a < b => a * one < b * one
          BY <1>2
        <5> QED BY <1>1, <1>2, <1>6, <5>1
      <4>3. m * one \in Int /\ v * one \in Int /\ N * Scale \in Int
        BY <1>1, <1>2
      <4> QED BY <4>1, <4>2, <4>3
    <3> QED BY <1>1, <3>1
  <2>3. m * one \in Int /\ N * Scale \in Int
    BY <1>1, <1>2
  <2>4. N * Scale > m * one
    BY <2>2, <2>3
  <2> QED BY <1>4, <2>1, <2>4 DEF Exact, N, m, one
<1>7. CASE ~(v > m)
  <2>1. ClampPrice(v) = v
    BY <1>1, <1>2, <1>7 DEF ClampPrice, m
  <2> QED BY <1>1, <1>4, <1>7, <2>1 DEF Exact
<1> QED BY <1>6, <1>7

\* handle_ticker: whatever text the exchange sends, with however many digits, a
\* quote that is handed on is the price the text names, cut off below a unit, or the
\* largest price where the text names a larger one.
THEOREM PricesExact == FeedSpec => []PricesAreExact
<1>1. FeedInit => PricesAreExact
  <2> SUFFICES ASSUME heard = <<>> PROVE PricesAreExact
    BY DEF FeedInit
  <2>1. DOMAIN heard = {}
    OBVIOUS
  <2> QED BY <2>1 DEF PricesAreExact
<1>2. PricesAreExact /\ [FeedNext]_feedVars => PricesAreExact'
  <2> SUFFICES ASSUME PricesAreExact, [FeedNext]_feedVars PROVE PricesAreExact'
    OBVIOUS
  <2>1. ASSUME NEW bt \in Texts, NEW at \in Texts, WsTicker(bt, at) PROVE PricesAreExact'
    <3>1. bt \in Text /\ at \in Text
      BY FeedAssumption
    <3> DEFINE b == ClampPrice(ParseScaled(bt))
               a == ClampPrice(ParseScaled(at))
    <3>2. quote' = <<b, a>> /\ heard' = <<bt, at>>
      BY <2>1 DEF WsTicker
    <3>3. Exact(b, bt) /\ Exact(a, at)
      BY <2>1, <3>1, ClampedText DEF WsTicker
    <3> HIDE DEF b, a
    <3>4. DOMAIN heard' = {1, 2}
      BY <3>2
    <3>5. Exact(quote'[1], heard'[1]) /\ Exact(quote'[2], heard'[2])
      BY <3>2, <3>3
    <3>6. \A side \in DOMAIN heard' : Exact(quote'[side], heard'[side])
      BY <3>4, <3>5
    <3> QED BY <3>6 DEF PricesAreExact, Exact
  <2>2. CASE UNCHANGED <<quote, heard>>
    BY <2>2 DEF PricesAreExact
  <2> QED
    BY <2>1, <2>2 DEF FeedNext, Start, TimerDue, FeedPoll, WsOpen, WsError, WsClose, feedVars
<1> QED BY <1>1, <1>2, PTL DEF FeedSpec

-----------------------------------------------------------------------------
(* The delay *)

\* Powers of two.
LEMMA Twos ==
    Power(2)[0] = 1 /\ \A k \in Nat : Power(2)[k] \in Nat /\ Power(2)[k + 1] = 2 * Power(2)[k]
<1>1. 2 \in Nat
  OBVIOUS
<1> QED BY <1>1, PowerLaw

\* A delay after n failures, doubled and cut off, is the one after n + 1.
LEMMA DelayDoubles ==
    ASSUME NEW n \in Nat, n < MaxFails, NEW d,
           d = IF BackoffMin * Power(2)[n] > BackoffMax
               THEN BackoffMax ELSE BackoffMin * Power(2)[n]
    PROVE  (IF 2 * d > BackoffMax THEN BackoffMax ELSE 2 * d)
              = IF BackoffMin * Power(2)[n + 1] > BackoffMax
                THEN BackoffMax ELSE BackoffMin * Power(2)[n + 1]
<1> DEFINE x == Power(2)[n]
           y == Power(2)[n + 1]
<1>1. x \in Nat /\ y = 2 * x
  BY Twos
<1>2. d = IF BackoffMin * x > BackoffMax THEN BackoffMax ELSE BackoffMin * x
  OBVIOUS
<1> HIDE DEF x, y
<1>3. BackoffMin * y = 2 * (BackoffMin * x) /\ BackoffMin * x \in Nat
  BY <1>1, FeedAssumption
<1>4. (IF 2 * d > BackoffMax THEN BackoffMax ELSE 2 * d)
         = IF BackoffMin * y > BackoffMax THEN BackoffMax ELSE BackoffMin * y
  <2> DEFINE z == BackoffMin * x
  <2>1. z \in Nat /\ BackoffMin * y = 2 * z /\ BackoffMax \in Nat /\ BackoffMax > 0
    BY <1>3, FeedAssumption
  <2>2. d = IF z > BackoffMax THEN BackoffMax ELSE z
    BY <1>2
  <2> HIDE DEF z
  <2>3. CASE z > BackoffMax
    BY <2>1, <2>2, <2>3
  <2>4. CASE ~(z > BackoffMax)
    BY <2>1, <2>2, <2>4
  <2> QED BY <2>3, <2>4
<1> QED BY <1>4 DEF y

Delay == fails \in 0 .. MaxFails /\ BackoffFollowsFailures

\* fmma_feed.c doubles the delay on every failed attempt up to BACKOFF_MAX_MS
\* and starts over after a good connection, and nothing else changes it.
THEOREM BackoffFollows == FeedSpec => []BackoffFollowsFailures
<1>0. /\ BackoffMin * Power(2)[0] = BackoffMin /\ BackoffMin <= BackoffMax
      /\ BackoffMin \in Nat /\ BackoffMax \in Nat /\ MaxFails \in Nat
  BY Twos, FeedAssumption
<1>1. FeedInit => Delay
  BY <1>0 DEF FeedInit, Delay, BackoffFollowsFailures
<1>2. FeedInv /\ Delay /\ [FeedNext]_feedVars => Delay'
  <2> SUFFICES ASSUME FeedInv, Delay, [FeedNext]_feedVars PROVE Delay'
    OBVIOUS
  <2>1. feed \in FeedRec /\ fails \in 0 .. MaxFails
    BY DEF FeedInv, Delay
  <2>2. CASE feed'.backoff = feed.backoff /\ UNCHANGED fails
    BY <2>2 DEF Delay, BackoffFollowsFailures
  <2>3. ASSUME NEW f \in FeedRec, f.backoff = feed.backoff, feed' = Scheduled(f), CountFail
        PROVE  Delay'
    <3>1. feed'.backoff = IF 2 * feed.backoff > BackoffMax THEN BackoffMax
                          ELSE 2 * feed.backoff
      BY <2>3 DEF Scheduled, FeedRec
    <3>2. CASE fails' < MaxFails
      <4>1. fails \in Nat /\ fails < MaxFails /\ fails' = fails + 1
        BY <1>0, <2>1, <2>3, <3>2 DEF CountFail
      <4>2. feed.backoff = IF BackoffMin * Power(2)[fails] > BackoffMax
                           THEN BackoffMax ELSE BackoffMin * Power(2)[fails]
        BY <4>1 DEF Delay, BackoffFollowsFailures
      <4>3. feed'.backoff = IF BackoffMin * Power(2)[fails + 1] > BackoffMax
                            THEN BackoffMax ELSE BackoffMin * Power(2)[fails + 1]
        BY <3>1, <4>1, <4>2, DelayDoubles
      <4>4. fails' \in 0 .. MaxFails
        BY <1>0, <4>1
      <4> QED BY <4>1, <4>3, <4>4 DEF Delay, BackoffFollowsFailures
    <3>3. CASE ~(fails' < MaxFails)
      <4>1. fails' \in 0 .. MaxFails
        BY <1>0, <2>1, <2>3 DEF CountFail
      <4> QED BY <3>3, <4>1 DEF Delay, BackoffFollowsFailures
    <3> QED BY <3>2, <3>3
  <2>4. ASSUME NEW f \in FeedRec, f.backoff = feed.backoff, Connect(f) PROVE Delay'
    <3>1. CASE feed' = [f EXCEPT !.conn = TRUE] /\ UNCHANGED fails
      <4>1. feed'.backoff = f.backoff
        BY <2>4, <3>1 DEF FeedRec
      <4> QED BY <2>2, <2>4, <3>1, <4>1
    <3> QED BY <2>3, <2>4, <3>1 DEF Connect
  <2>5. CASE Start
    <3> DEFINE f == [feed EXCEPT !.started = TRUE]
    <3>1. f \in FeedRec /\ f.backoff = feed.backoff
      BY <2>1 DEF FeedRec
    <3>2. Connect(f)
      BY <2>5 DEF Start
    <3> HIDE DEF f
    <3> QED BY <2>4, <3>1, <3>2
  <2>6. CASE FeedPoll
    <3> DEFINE f == [feed EXCEPT !.timer = "off"]
    <3>1. f \in FeedRec /\ f.backoff = feed.backoff
      BY <2>1 DEF FeedRec
    <3>2. Connect(f)
      BY <2>6 DEF FeedPoll
    <3> HIDE DEF f
    <3> QED BY <2>4, <3>1, <3>2
  <2>7. CASE TimerDue
    <3>1. feed'.backoff = feed.backoff /\ UNCHANGED fails
      BY <2>1, <2>7 DEF TimerDue, FeedRec
    <3> QED BY <2>2, <3>1
  <2>8. CASE WsOpen
    <3>1. feed'.backoff = BackoffMin /\ fails' = 0
      BY <2>1, <2>8 DEF WsOpen, FeedRec
    <3> QED BY <1>0, <3>1 DEF Delay, BackoffFollowsFailures
  <2>9. CASE WsClose
    BY <2>1, <2>3, <2>9 DEF WsClose
  <2>10. CASE UNCHANGED <<feed, fails>>
    BY <2>2, <2>10
  <2> QED
    BY <2>5, <2>6, <2>7, <2>8, <2>9, <2>10 DEF FeedNext, WsTicker, WsError, feedVars
<1>3. Delay => BackoffFollowsFailures
  BY DEF Delay
<1> QED BY <1>1, <1>2, <1>3, FeedStarts, FeedStep, PTL DEF FeedSpec
=============================================================================
