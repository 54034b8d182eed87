--------------------------- MODULE RiskRulesProofs ---------------------------
(***************************************************************************)
(* What the methods of the risk manager return and preserve: lemmas about   *)
(* the operators of RiskRules that the proofs of its users cite.            *)
(***************************************************************************)
EXTENDS RiskRules, FiniteSetTheorems, SequenceTheorems, WellFoundedInduction,
        TLAPS

(***************************************************************************)
(* Products and quotients, which the provers take one fact at a time.       *)
(***************************************************************************)
LEMMA FloorDivision ==
    ASSUME NEW a \in Int, NEW b \in Nat \ {0}
    PROVE  (a \div b) \in Int /\ (a \div b) * b <= a
  OBVIOUS

LEMMA ProductNat ==
    ASSUME NEW a \in Nat \ {0}, NEW b \in Nat \ {0}
    PROVE  a * b \in Nat \ {0}
  OBVIOUS

LEMMA ProductAssoc ==
    ASSUME NEW a \in Int, NEW b \in Int, NEW c \in Int
    PROVE  (a * b) * c = a * (b * c)
  OBVIOUS

LEMMA ProductInt ==
    ASSUME NEW a \in Int, NEW b \in Int
    PROVE  a * b \in Int
  OBVIOUS

LEMMA ProductNatural ==
    ASSUME NEW a \in Nat, NEW b \in Nat
    PROVE  a * b \in Nat
  OBVIOUS

LEMMA ProductMonotone ==
    ASSUME NEW a \in Int, NEW b \in Int, NEW n \in Nat, a <= b
    PROVE  a * n <= b * n
  OBVIOUS

LEMMA ProductSum ==
    ASSUME NEW a \in Int, NEW b \in Int, NEW n \in Int
    PROVE  (a + b) * n = a * n + b * n
  OBVIOUS

LEMMA ProductMinus ==
    ASSUME NEW a \in Int, NEW n \in Int
    PROVE  (-a) * n = -(a * n)
  OBVIOUS

LEMMA ProductSwap ==
    ASSUME NEW a \in Int, NEW b \in Int
    PROVE  a * b = b * a
  OBVIOUS

(***************************************************************************)
(* Each method returns a well-typed manager.                                *)
(***************************************************************************)
LEMMA MaxOfInt ==
    ASSUME NEW a \in Int, NEW b \in Int
    PROVE  /\ MaxOf(a, b) \in Int
           /\ MaxOf(a, b) >= a
           /\ MaxOf(a, b) >= b
  BY DEF MaxOf

LEMMA RolloverType ==
    ASSUME NEW r \in RiskType, NEW day \in Nat
    PROVE  /\ Rollover(r, day) \in RiskType
           /\ Rollover(r, day).today = day
  <1>1. CASE day = r.today
    BY <1>1 DEF Rollover
  <1>2. CASE day # r.today
    <2>1. MaxOf(r.highestDayPnl, r.realizedToday) \in Int
      BY MaxOfInt DEF RiskType
    <2>4. CloseDay(r, day) \in RiskType
      BY <2>1 DEF CloseDay, RiskType
    <2>5. CloseDay(r, day).today = day
      BY DEF CloseDay
    <2> QED
      BY <1>2, <2>4, <2>5 DEF Rollover
  <1> QED
    BY <1>1, <1>2

LEMMA EvaluateType ==
    ASSUME NEW r \in RiskType, NEW day \in Nat, NEW lim, NEW sig
    PROVE  AfterEvaluate(r, day, lim, sig) \in RiskType
  <1> DEFINE r1 == Rollover(r, day)
  <1>1. r1 \in RiskType
    BY RolloverType
  <1> DEFINE d == r1.disabled \/ RejectReason(r1, lim, sig) \in HaltingReasons
  <1>2. d \in BOOLEAN
    OBVIOUS
  <1> HIDE DEF r1, d
  <1>3. [r1 EXCEPT !.disabled = d] \in RiskType
    BY <1>1, <1>2 DEF RiskType
  <1> QED
    BY <1>3 DEF AfterEvaluate, r1, d

LEMMA OpenType ==
    ASSUME NEW r \in RiskType, NEW day \in Nat
    PROVE  AfterTradeOpen(r, day) \in RiskType
  <1> DEFINE r1 == Rollover(r, day)
  <1>1. r1 \in RiskType
    BY RolloverType
  <1> HIDE DEF r1
  <1> DEFINE start == IF r1.tradingStartDate = NoDay
                      THEN day ELSE r1.tradingStartDate
  <1>2. /\ r1.tradesToday + 1 \in Nat
        /\ start \in Nat \cup {NoDay}
    BY <1>1 DEF RiskType
  <1> HIDE DEF start
  <1>3. [r1 EXCEPT !.tradesToday = r1.tradesToday + 1,
                   !.tradingStartDate = start] \in RiskType
    BY <1>1, <1>2 DEF RiskType
  <1> QED
    BY <1>3 DEF AfterTradeOpen, r1, start

LEMMA CloseType ==
    ASSUME NEW r \in RiskType, NEW day \in Nat, NEW pnl \in Int
    PROVE  AfterTradeClose(r, day, pnl) \in RiskType
  <1> DEFINE r1 == Rollover(r, day)
  <1>1. r1 \in RiskType
    BY RolloverType
  <1> HIDE DEF r1
  <1> DEFINE bal == r1.currentBalance + pnl
             real == r1.realizedToday + pnl
             best == MaxOf(r1.highestDayPnl, real)
             hwm == MaxOf(r1.highWaterMark, bal)
             streak == StreakAfter(r1.consecutiveLosses, pnl)
  <1>2. /\ bal \in Int
        /\ real \in Int
        /\ r1.highestDayPnl \in Int
        /\ r1.highWaterMark \in Int
    BY <1>1 DEF RiskType
  <1>3. streak \in Nat
    BY <1>1 DEF StreakAfter, RiskType
  <1>4. best \in Int
    BY <1>2, MaxOfInt
  <1>5. hwm \in Int
    BY <1>2, MaxOfInt
  <1> HIDE DEF bal, real, best, hwm, streak
  <1>6. [r1 EXCEPT !.currentBalance = bal, !.realizedToday = real] \in RiskType
    BY <1>1, <1>2 DEF RiskType
  <1>7. [r1 EXCEPT !.currentBalance = bal, !.realizedToday = real,
                   !.highestDayPnl = best, !.highWaterMark = hwm,
                   !.consecutiveLosses = streak] \in RiskType
    BY <1>3, <1>4, <1>5, <1>6 DEF RiskType
  <1> QED
    BY <1>7 DEF AfterTradeClose, r1, bal, real, best, hwm, streak

(***************************************************************************)
(* What a method does to the fields the theorems are about.                 *)
(***************************************************************************)
LEMMA RolloverCount ==
    ASSUME NEW r \in RiskType, NEW day \in Nat
    PROVE  /\ Rollover(r, day).tradesToday <= r.tradesToday
           /\ Rollover(r, day).tradesToday = r.tradesToday \/ Rollover(r, day).tradesToday = 0
           /\ day = r.today => Rollover(r, day) = r
  BY DEF Rollover, CloseDay, RiskType

LEMMA EvaluateFields ==
    ASSUME NEW r \in RiskType, NEW day \in Nat, NEW lim, NEW sig
    PROVE  /\ AfterEvaluate(r, day, lim, sig).tradesToday = Rollover(r, day).tradesToday
           /\ AfterEvaluate(r, day, lim, sig).today = day
           /\ Rollover(r, day).disabled => AfterEvaluate(r, day, lim, sig).disabled
           /\ AfterEvaluate(r, day, lim, sig).realizedToday = Rollover(r, day).realizedToday
           /\ AfterEvaluate(r, day, lim, sig).currentBalance = Rollover(r, day).currentBalance
  <1>1. Rollover(r, day) \in RiskType /\ Rollover(r, day).today = day
    BY RolloverType
  <1> QED
    BY <1>1 DEF AfterEvaluate, RiskType

LEMMA OpenFields ==
    ASSUME NEW r \in RiskType, NEW day \in Nat
    PROVE  /\ AfterTradeOpen(r, day).tradesToday = Rollover(r, day).tradesToday + 1
           /\ AfterTradeOpen(r, day).today = day
           /\ AfterTradeOpen(r, day).disabled = Rollover(r, day).disabled
  <1>1. Rollover(r, day) \in RiskType /\ Rollover(r, day).today = day
    BY RolloverType
  <1> QED
    BY <1>1 DEF AfterTradeOpen, RiskType

LEMMA CloseFields ==
    ASSUME NEW r \in RiskType, NEW day \in Nat, NEW pnl \in Int
    PROVE  /\ AfterTradeClose(r, day, pnl).tradesToday = Rollover(r, day).tradesToday
           /\ AfterTradeClose(r, day, pnl).today = day
           /\ AfterTradeClose(r, day, pnl).disabled = Rollover(r, day).disabled
  <1>1. Rollover(r, day) \in RiskType /\ Rollover(r, day).today = day
    BY RolloverType
  <1> QED
    BY <1>1 DEF AfterTradeClose, RiskType

\* Only the close of a trade touches the balance and its high-water mark.
LEMMA RolloverMoney ==
    ASSUME NEW r \in RiskType, NEW day \in Nat
    PROVE  /\ Rollover(r, day).currentBalance = r.currentBalance
           /\ Rollover(r, day).highWaterMark = r.highWaterMark
  BY DEF Rollover, CloseDay

LEMMA EvaluateMoney ==
    ASSUME NEW r \in RiskType, NEW day \in Nat, NEW lim, NEW sig
    PROVE  /\ AfterEvaluate(r, day, lim, sig).currentBalance = r.currentBalance
           /\ AfterEvaluate(r, day, lim, sig).highWaterMark = r.highWaterMark
  <1>1. Rollover(r, day) \in RiskType
    BY RolloverType
  <1> QED
    BY <1>1, RolloverMoney DEF AfterEvaluate, RiskType

LEMMA OpenMoney ==
    ASSUME NEW r \in RiskType, NEW day \in Nat
    PROVE  /\ AfterTradeOpen(r, day).currentBalance = r.currentBalance
           /\ AfterTradeOpen(r, day).highWaterMark = r.highWaterMark
  <1>1. Rollover(r, day) \in RiskType
    BY RolloverType
  <1> QED
    BY <1>1, RolloverMoney DEF AfterTradeOpen, RiskType

LEMMA CloseMoney ==
    ASSUME NEW r \in RiskType, NEW day \in Nat, NEW pnl \in Int
    PROVE  /\ AfterTradeClose(r, day, pnl).currentBalance = r.currentBalance + pnl
           /\ AfterTradeClose(r, day, pnl).highWaterMark
                = MaxOf(r.highWaterMark, r.currentBalance + pnl)
  <1>1. Rollover(r, day) \in RiskType
    BY RolloverType
  <1> QED
    BY <1>1, RolloverMoney DEF AfterTradeClose, RiskType

\* An acceptance means every guard passed.
LEMMA AcceptedGuards ==
    ASSUME NEW r, NEW day, NEW lim, NEW sig, Decide(r, day, lim, sig) = "OK"
    PROVE  /\ ~Rollover(r, day).disabled
           /\ ~TradeCapReached(Rollover(r, day), lim)
           /\ ~ConsistencyBroken(Rollover(r, day))
           /\ ~(sig.riskPips <= 0)
           /\ ~(SizePosition(Rollover(r, day), sig) <= 0)
  BY DEF Decide, RejectReason

-----------------------------------------------------------------------------
(***************************************************************************)
(* Induction over an initial segment of the numbers, and running sums.      *)
(***************************************************************************)
LEMMA SegmentInduction ==
    ASSUME NEW n \in Nat, NEW S, 0 \in S,
           \A k \in 0..n : k < n /\ k \in S => k + 1 \in S
    PROVE  \A k \in 0..n : k \in S
  <1> SUFFICES ASSUME NEW m \in 0..n, m \notin S PROVE FALSE
    OBVIOUS
  <1> DEFINE T == {k \in Nat : k <= n /\ k \notin S}
             R == OpToRel(<, Nat)
  <1>1. T \subseteq Nat /\ T # {}
    OBVIOUS
  <1>2. IsWellFoundedOn(R, Nat)
    BY NatLessThanWellFounded
  <1>3. PICK k \in T : \A j \in T : ~(<<j, k>> \in R)
    <2> HIDE DEF R, T
    <2> QED
      BY <1>1, <1>2, WFMin
  <1>4. k \in Nat /\ k <= n /\ k \notin S /\ k # 0
    BY <1>3
  <1>5. k - 1 \in 0..n /\ k - 1 < n /\ (k - 1) + 1 = k
    BY <1>4
  <1>6. k - 1 \notin S
    BY <1>4, <1>5
  <1>7. k - 1 \in T
    BY <1>4, <1>5, <1>6
  <1>8. ~(<<k - 1, k>> \in R)
    BY <1>3, <1>7
  <1> QED
    BY <1>4, <1>5, <1>8 DEF OpToRel

LEMMA SumsExist ==
    ASSUME NEW base \in Int, NEW n \in Nat, NEW x \in [1..n -> Int]
    PROVE  \E f \in [0..n -> Int] :
             f = [k \in 0..n |-> IF k = 0 THEN base ELSE f[k - 1] + x[k]]
  <1> DEFINE IsSum(f, m) == /\ f \in [0..m -> Int]
                            /\ f[0] = base
                            /\ \A k \in 1..m : f[k] = f[k - 1] + x[k]
             S == {m \in 0..n : \E f : IsSum(f, m)}
  <1>1. 0 \in S
    <2>1. IsSum([k \in 0..0 |-> base], 0)
      OBVIOUS
    <2> HIDE DEF IsSum
    <2> QED
      BY <2>1
  <1>2. ASSUME NEW m \in 0..n, m < n, m \in S PROVE m + 1 \in S
    <2>1. PICK f : IsSum(f, m)
      BY <1>2
    <2>2. m \in Nat /\ m + 1 \in 1..n /\ x[m + 1] \in Int /\ f[m] \in Int
      BY <1>2, <2>1
    <2> DEFINE g == [k \in 0..m + 1 |-> IF k <= m THEN f[k] ELSE f[m] + x[m + 1]]
    <2>3. g \in [0..m + 1 -> Int]
      BY <2>1, <2>2
    <2>4. g[0] = base
      BY <2>1, <2>2
    <2>5. ASSUME NEW k \in 1..m + 1 PROVE g[k] = g[k - 1] + x[k]
      <3>1. CASE k = m + 1
        BY <2>1, <2>2, <3>1
      <3>2. CASE k <= m
        <4>1. k \in 1..m /\ k - 1 \in 0..m + 1 /\ k \in 0..m + 1
              /\ k - 1 <= m
          BY <2>2, <3>2
        <4>2. f[k] = f[k - 1] + x[k]
          BY <2>1, <4>1
        <4> QED
          BY <3>2, <4>1, <4>2
      <3> QED
        BY <2>2, <3>1, <3>2
    <2>6. IsSum(g, m + 1)
      BY <2>3, <2>4, <2>5
    <2> HIDE DEF IsSum, g
    <2> QED
      BY <2>2, <2>6
  <1>3. n \in S
    <2> HIDE DEF S
    <2>1. \A k \in 0..n : k < n /\ k \in S => k + 1 \in S
      BY <1>2
    <2>2. \A k \in 0..n : k \in S
      BY <1>1, <2>1, SegmentInduction
    <2> QED
      BY <2>2
  <1>4. PICK f : IsSum(f, n)
    BY <1>3
  <1>5. f = [k \in 0..n |-> IF k = 0 THEN base ELSE f[k - 1] + x[k]]
    <2>1. ASSUME NEW k \in 0..n
          PROVE  f[k] = IF k = 0 THEN base ELSE f[k - 1] + x[k]
      <3>1. k # 0 => k \in 1..n
        OBVIOUS
      <3> QED
        BY <1>4, <3>1
    <2> QED
      BY <1>4, <2>1
  <1> QED
    BY <1>4, <1>5

LEMMA RunningSumIs ==
    ASSUME NEW base \in Int, NEW x \in Seq(Int)
    PROVE  /\ RunningSum(base, x) \in [0..Len(x) -> Int]
           /\ RunningSum(base, x)[0] = base
           /\ \A k \in 1..Len(x) :
                RunningSum(base, x)[k] = RunningSum(base, x)[k - 1] + x[k]
  <1> DEFINE n == Len(x)
             Sums(f) == f = [k \in 0..n |-> IF k = 0 THEN base ELSE f[k - 1] + x[k]]
  <1>1. n \in Nat /\ x \in [1..n -> Int]
    BY LenProperties
  <1>2. RunningSum(base, x) = CHOOSE f : Sums(f)
    BY DEF RunningSum
  <1> HIDE DEF n
  <1>3. PICK g \in [0..n -> Int] : Sums(g)
    BY <1>1, SumsExist
  <1> DEFINE f == CHOOSE h : Sums(h)
  <1>4. Sums(f)
    BY <1>3
  <1> HIDE DEF f
  <1>5. DOMAIN f = 0..n /\ f[0] = base
        /\ \A k \in 1..n : f[k] = f[k - 1] + x[k]
    <2>1. DOMAIN f = 0..n /\ 0 \in 0..n
      BY <1>1, <1>4
    <2>2. \A k \in 0..n : f[k] = IF k = 0 THEN base ELSE f[k - 1] + x[k]
      BY <1>4
    <2> QED
      BY <1>1, <2>1, <2>2
  <1>6. DOMAIN g = 0..n /\ g[0] = base
        /\ \A k \in 1..n : g[k] = g[k - 1] + x[k]
    <2>1. DOMAIN g = 0..n /\ 0 \in 0..n
      BY <1>1, <1>3
    <2>2. \A k \in 0..n : g[k] = IF k = 0 THEN base ELSE g[k - 1] + x[k]
      BY <1>3
    <2>3. g[0] = base
      BY <2>1, <2>2
    <2>4. \A k \in 1..n : k \in 0..n /\ k # 0
      BY <1>1
    <2> HIDE DEF Sums
    <2> QED
      BY <2>1, <2>2, <2>3, <2>4
  <1> DEFINE S == {k \in 0..n : f[k] = g[k]}
  <1>7. 0 \in S
    BY <1>1, <1>5, <1>6
  <1>8. \A k \in 0..n : k < n /\ k \in S => k + 1 \in S
    <2> SUFFICES ASSUME NEW k \in 0..n, k < n, f[k] = g[k]
                 PROVE  k + 1 \in 0..n /\ f[k + 1] = g[k + 1]
      OBVIOUS
    <2>1. k + 1 \in 1..n /\ k + 1 \in 0..n /\ (k + 1) - 1 = k
      BY <1>1
    <2> QED
      BY <1>5, <1>6, <2>1
  <1>9. \A k \in 0..n : k \in S
    <2> HIDE DEF S
    <2> QED
      BY <1>1, <1>7, <1>8, SegmentInduction
  <1>10. f \in [0..n -> Int]
    <2>1. \A k \in 0..n : f[k] = g[k] /\ g[k] \in Int
      BY <1>3, <1>9
    <2>2. f = [k \in 0..n |-> f[k]]
      BY <1>4
    <2> QED
      BY <2>1, <2>2
  <1>11. RunningSum(base, x) = f
    BY <1>2 DEF f
  <1> QED
    BY <1>5, <1>10, <1>11 DEF n

\* One number more adds one sum and leaves the others.
LEMMA RunningSumAppend ==
    ASSUME NEW base \in Int, NEW x \in Seq(Int), NEW y \in Seq(Int),
           Len(y) = Len(x) + 1, \A i \in 1..Len(x) : y[i] = x[i]
    PROVE  /\ \A k \in 0..Len(x) : RunningSum(base, y)[k] = RunningSum(base, x)[k]
           /\ RunningSum(base, y)[Len(y)]
                = RunningSum(base, x)[Len(x)] + y[Len(y)]
  <1> DEFINE n == Len(x)
             f == RunningSum(base, x)
             g == RunningSum(base, y)
             S == {k \in 0..n : g[k] = f[k]}
  <1>1. n \in Nat
    BY LenProperties
  <1>2. /\ f[0] = base
        /\ \A k \in 1..n : f[k] = f[k - 1] + x[k]
    BY RunningSumIs
  <1>3. /\ g[0] = base
        /\ \A k \in 1..n + 1 : g[k] = g[k - 1] + y[k]
    BY RunningSumIs
  <1>4. \A i \in 1..n : y[i] = x[i]
    OBVIOUS
  <1> HIDE DEF f, g, n
  <1>5. 0 \in S
    BY <1>1, <1>2, <1>3
  <1>6. \A k \in 0..n : k < n /\ k \in S => k + 1 \in S
    <2> SUFFICES ASSUME NEW k \in 0..n, k < n, g[k] = f[k]
                 PROVE  k + 1 \in 0..n /\ g[k + 1] = f[k + 1]
      OBVIOUS
    <2>1. /\ k + 1 \in 1..n /\ k + 1 \in 0..n /\ k + 1 \in 1..n + 1
          /\ (k + 1) - 1 = k
      BY <1>1
    <2> QED
      BY <1>2, <1>3, <1>4, <2>1
  <1>7. \A k \in 0..n : k \in S
    <2> HIDE DEF S
    <2> QED
      BY <1>1, <1>5, <1>6, SegmentInduction
  <1>8. g[n + 1] = f[n] + y[n + 1]
    <2>1. n + 1 \in 1..n + 1 /\ (n + 1) - 1 = n /\ n \in 0..n
      BY <1>1
    <2> QED
      BY <1>3, <1>7, <2>1
  <1> QED
    BY <1>7, <1>8 DEF f, g, n

LEMMA RunningSumZero ==
    ASSUME NEW base \in Int, NEW x \in Seq(Int), \A i \in 1..Len(x) : x[i] = 0
    PROVE  RunningSum(base, x)[Len(x)] = base
  <1> DEFINE n == Len(x)
             f == RunningSum(base, x)
             S == {k \in 0..n : f[k] = base}
  <1>1. n \in Nat
    BY LenProperties
  <1>2. /\ f[0] = base
        /\ \A k \in 1..n : f[k] = f[k - 1] + x[k]
    BY RunningSumIs
  <1>3. \A i \in 1..n : x[i] = 0
    OBVIOUS
  <1> HIDE DEF f, n
  <1>4. 0 \in S
    BY <1>1, <1>2
  <1>5. \A k \in 0..n : k < n /\ k \in S => k + 1 \in S
    <2> SUFFICES ASSUME NEW k \in 0..n, k < n, f[k] = base
                 PROVE  k + 1 \in 0..n /\ f[k + 1] = base
      OBVIOUS
    <2>1. k + 1 \in 1..n /\ k + 1 \in 0..n /\ (k + 1) - 1 = k
      BY <1>1
    <2> QED
      BY <1>2, <1>3, <2>1
  <1>6. \A k \in 0..n : k \in S
    <2> HIDE DEF S
    <2> QED
      BY <1>1, <1>4, <1>5, SegmentInduction
  <1> QED
    BY <1>1, <1>6 DEF f, n
=============================================================================
