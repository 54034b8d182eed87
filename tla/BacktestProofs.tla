---------------------------- MODULE BacktestProofs ----------------------------
(***************************************************************************)
(* The two backtest programs, for every history of bars, every setting and  *)
(* any number of trades.                                                    *)
(***************************************************************************)
EXTENDS Backtests, RiskRulesProofs

-----------------------------------------------------------------------------
(***************************************************************************)
(* The types of the replay.                                                 *)
(***************************************************************************)
Dirs == {"LONG", "SHORT"}

TradeSet ==
    [ id : Nat, symbol : Symbols, dir : Dirs, entry : Int, sl : Int, tp : Int,
      lots : Nat, opened : Nat, budget : Int ]

ClosingReasons == {"stop_loss", "take_profit", "backtest_end"}

ClosingSet ==
    [ trade : TradeSet, pnl : Int, exit : Int,
      reason : ClosingReasons, row : Nat ]

BarSet == [symbol : Symbols, low : Nat, high : Nat, close : Nat]

IsBar(c) == c \in BarSet /\ c.low <= c.close /\ c.close <= c.high

\* s2 is s with x at its end.
Longer(s2, s, x) == s2 = Append(s, x)

BookOK(b) ==
    /\ b.risk \in RiskType
    /\ b.next \in Nat \ {0}
    /\ DOMAIN b.open \subseteq 1..(b.next - 1)
    /\ \A k \in DOMAIN b.open : b.open[k] \in TradeSet /\ b.open[k].id = k
    /\ b.equity \in Seq(Int) /\ b.equity # <<>> /\ b.equity[1] = StartingBalance
    /\ b.closed \in Seq(ClosingSet)

LEMMA UnitIs ==
    /\ QuotePerPipPerLot \div 100 \in Nat
    /\ 100 * (QuotePerPipPerLot \div 100) = QuotePerPipPerLot
  BY SettingsAssumption, BacktestAssumption

LEMMA PnlInt ==
    ASSUME NEW t \in TradeSet, NEW exit \in Int
    PROVE  Pnl(t, exit) \in Int
  <1> DEFINE gain == IF t.dir = "LONG" THEN exit - t.entry ELSE t.entry - exit
             unit == QuotePerPipPerLot \div 100
  <1>1. gain \in Int /\ t.lots \in Int
    BY DEF TradeSet
  <1>2. unit \in Int
    BY UnitIs
  <1> HIDE DEF gain, unit
  <1>3. (gain * unit) * t.lots \in Int
    BY <1>1, <1>2, ProductInt
  <1> QED
    BY <1>3 DEF Pnl, gain, unit

LEMMA ClosingIs ==
    ASSUME NEW t \in TradeSet, NEW exit \in Int,
           NEW reason \in ClosingReasons,
           Len(rows) \in Nat
    PROVE  /\ Closing(t, exit, reason) \in ClosingSet
           /\ Closing(t, exit, reason).trade = t
           /\ Closing(t, exit, reason).pnl = Pnl(t, exit)
           /\ Closing(t, exit, reason).exit = exit
           /\ Closing(t, exit, reason).reason = reason
           /\ Closing(t, exit, reason).row = Len(rows) + 1
  <1>1. Pnl(t, exit) \in Int
    BY PnlInt
  <1> QED
    BY <1>1 DEF Closing, ClosingSet

LEMMA RecordIs ==
    ASSUME NEW b, BookOK(b), NEW x \in ClosingSet
    PROVE  /\ BookOK(Record(b, x))
           /\ Record(b, x).risk = b.risk
           /\ Record(b, x).open = b.open
           /\ Record(b, x).next = b.next
           /\ Record(b, x).equity = Append(b.equity, Last(b.equity) + x.pnl)
           /\ Record(b, x).closed = Append(b.closed, x)
  <1>1. /\ Record(b, x).risk = b.risk
        /\ Record(b, x).open = b.open
        /\ Record(b, x).next = b.next
        /\ Record(b, x).equity = Append(b.equity, Last(b.equity) + x.pnl)
        /\ Record(b, x).closed = Append(b.closed, x)
    BY DEF Record
  <1>2. Append(b.closed, x) \in Seq(ClosingSet)
    BY AppendProperties DEF BookOK
  <1>3. Last(b.equity) \in Int /\ x.pnl \in Int
    <2>1. b.equity \in Seq(Int) /\ b.equity # <<>>
      BY DEF BookOK
    <2>2. Len(b.equity) \in 1..Len(b.equity)
      BY <2>1, LenProperties, EmptySeq
    <2> QED
      BY <2>1, <2>2, ElementOfSeq DEF Last, ClosingSet
  <1>4. /\ Append(b.equity, Last(b.equity) + x.pnl) \in Seq(Int)
        /\ Append(b.equity, Last(b.equity) + x.pnl) # <<>>
        /\ Append(b.equity, Last(b.equity) + x.pnl)[1] = StartingBalance
    <2>1. b.equity \in Seq(Int) /\ b.equity # <<>> /\ b.equity[1] = StartingBalance
      BY DEF BookOK
    <2>2. 1 \in 1..Len(b.equity)
      BY <2>1, LenProperties, EmptySeq
    <2>3. Last(b.equity) + x.pnl \in Int
      BY <1>3
    <2> QED
      BY <2>1, <2>2, <2>3, AppendProperties
  <1> QED
    BY <1>1, <1>2, <1>4 DEF BookOK

LEMMA CloseTradeIs ==
    ASSUME NEW b, BookOK(b), NEW t \in TradeSet, NEW day \in Nat,
           NEW exit \in Int,
           NEW reason \in ClosingReasons,
           Len(rows) \in Nat, NEW q, q = CloseTrade(b, t, day, exit, reason),
           NEW x, x = Closing(t, exit, reason)
    PROVE  /\ BookOK(q)
           /\ q.risk = AfterTradeClose(b.risk, day, Pnl(t, exit))
           /\ DOMAIN q.open = DOMAIN b.open \ {t.id}
           /\ \A k \in DOMAIN q.open : q.open[k] = b.open[k]
           /\ q.next = b.next
           /\ Longer(q.equity, b.equity, Last(b.equity) + x.pnl)
           /\ Longer(q.closed, b.closed, x)
  <1> DEFINE s == Settle(b, t, day, exit)
  <1>1. /\ s.risk = AfterTradeClose(b.risk, day, Pnl(t, exit))
        /\ DOMAIN s.open = DOMAIN b.open \ {t.id}
        /\ \A k \in DOMAIN s.open : s.open[k] = b.open[k]
        /\ s.next = b.next /\ s.equity = b.equity /\ s.closed = b.closed
    BY DEF Settle
  <1>2. s.risk \in RiskType
    <2>1. b.risk \in RiskType /\ Pnl(t, exit) \in Int
      BY PnlInt DEF BookOK
    <2>2. AfterTradeClose(b.risk, day, Pnl(t, exit)) \in RiskType
      BY <2>1, CloseType
    <2> QED
      BY <1>1, <2>2
  <1> HIDE DEF s
  <1>3. BookOK(s)
    BY <1>1, <1>2 DEF BookOK
  <1>4. x \in ClosingSet /\ x.pnl = Pnl(t, exit)
    BY ClosingIs
  <1>5. /\ BookOK(Record(s, x))
        /\ Record(s, x).risk = s.risk
        /\ Record(s, x).open = s.open
        /\ Record(s, x).next = s.next
        /\ Record(s, x).equity = Append(s.equity, Last(s.equity) + x.pnl)
        /\ Record(s, x).closed = Append(s.closed, x)
    BY <1>3, <1>4, RecordIs
  <1> QED
    BY <1>1, <1>5 DEF CloseTrade, s, Longer

-----------------------------------------------------------------------------
(***************************************************************************)
(* The two loops over the open trades are recursive functions: what such a  *)
(* definition equals is proved once, from the existence of the function.    *)
(***************************************************************************)
SweepStep(b, c, day, a, n) ==
    IF n \in DOMAIN b.open THEN CheckTrade(a, b.open[n], c, day) ELSE a

LEMMA SweepLoopIs ==
    ASSUME NEW b, NEW c, NEW day, b.next \in Nat \ {0}
    PROVE  /\ SweepLoop(b, c, day)[0] = b
           /\ \A n \in 1..(b.next - 1) :
                SweepLoop(b, c, day)[n]
                  = SweepStep(b, c, day, SweepLoop(b, c, day)[n - 1], n)
  <1> DEFINE N == b.next - 1
             Loop(f, m) ==
               f = [n \in 0..m |-> IF n = 0 THEN b ELSE SweepStep(b, c, day, f[n - 1], n)]
             S == {m \in 0..N : \E f : Loop(f, m)}
  <1>0. N \in Nat
    OBVIOUS
  <1> HIDE DEF N
  <1>1. 0 \in S
    <2>1. Loop([n \in 0..0 |-> b], 0)
      OBVIOUS
    <2> HIDE DEF Loop
    <2> QED
      BY <1>0, <2>1
  <1>2. ASSUME NEW m \in 0..N, m < N, m \in S PROVE m + 1 \in S
    <2>1. PICK f : Loop(f, m)
      BY <1>2
    <2>2. m \in Nat /\ m + 1 \in 0..N
      BY <1>0, <1>2
    <2> DEFINE g == [n \in 0..m + 1 |-> IF n <= m THEN f[n]
                                        ELSE SweepStep(b, c, day, f[m], m + 1)]
               h == [n \in 0..m + 1 |-> IF n = 0 THEN b
                                        ELSE SweepStep(b, c, day, g[n - 1], n)]
    <2>3. ASSUME NEW n \in 0..m + 1 PROVE g[n] = h[n]
      <3>1. CASE n = m + 1
        <4>1. n # 0 /\ n - 1 = m /\ m \in 0..m + 1 /\ m <= m /\ ~(n <= m)
          BY <2>2, <3>1
        <4>2. g[m] = f[m]
          BY <4>1
        <4> QED
          BY <3>1, <4>1, <4>2
      <3>2. CASE n # m + 1 /\ n # 0
        <4>1. n \in 0..m /\ n <= m /\ n - 1 \in 0..m + 1 /\ n - 1 <= m
          BY <2>2, <3>2
        <4>2. f[n] = SweepStep(b, c, day, f[n - 1], n)
          BY <2>1, <3>2, <4>1
        <4>3. g[n - 1] = f[n - 1]
          BY <4>1
        <4> QED
          BY <3>2, <4>1, <4>2, <4>3
      <3>3. CASE n = 0
        <4>1. f[0] = b
          BY <2>1, <2>2
        <4> QED
          BY <2>2, <3>3, <4>1
      <3> QED
        BY <3>1, <3>2, <3>3
    <2>4. Loop(g, m + 1)
      <3>1. g = h
        BY <2>3
      <3> QED
        BY <3>1
    <2> HIDE DEF Loop, g
    <2> QED
      BY <2>2, <2>4
  <1>3. N \in S
    <2> HIDE DEF S
    <2>1. \A k \in 0..N : k < N /\ k \in S => k + 1 \in S
      BY <1>2
    <2>2. \A k \in 0..N : k \in S
      BY <1>0, <1>1, <2>1, SegmentInduction
    <2> QED
      BY <1>0, <2>2
  <1>4. PICK f : Loop(f, N)
    BY <1>3
  <1> DEFINE a == CHOOSE g : Loop(g, N)
  <1>5. Loop(a, N)
    BY <1>4
  <1>6. SweepLoop(b, c, day) = a
    BY DEF SweepLoop, SweepStep, N
  <1> HIDE DEF a
  <1>7. a[0] = b
    BY <1>0, <1>5
  <1>8. \A n \in 1..N : a[n] = SweepStep(b, c, day, a[n - 1], n)
    BY <1>0, <1>5
  <1> QED
    BY <1>6, <1>7, <1>8 DEF N

FinishStep(a, n) ==
    IF n \in DOMAIN book.open THEN ForceClose(a, book.open[n]) ELSE a

LEMMA FinishLoopIs ==
    ASSUME book.next \in Nat \ {0}
    PROVE  /\ FinishLoop[0] = book
           /\ \A n \in 1..(book.next - 1) :
                FinishLoop[n]
                  = FinishStep(FinishLoop[n - 1], n)
  <1> DEFINE N == book.next - 1
             Loop(f, m) ==
               f = [n \in 0..m |-> IF n = 0 THEN book ELSE FinishStep(f[n - 1], n)]
             S == {m \in 0..N : \E f : Loop(f, m)}
  <1>0. N \in Nat
    OBVIOUS
  <1> HIDE DEF N
  <1>1. 0 \in S
    <2>1. Loop([n \in 0..0 |-> book], 0)
      OBVIOUS
    <2> HIDE DEF Loop
    <2> QED
      BY <1>0, <2>1
  <1>2. ASSUME NEW m \in 0..N, m < N, m \in S PROVE m + 1 \in S
    <2>1. PICK f : Loop(f, m)
      BY <1>2
    <2>2. m \in Nat /\ m + 1 \in 0..N
      BY <1>0, <1>2
    <2> DEFINE g == [n \in 0..m + 1 |-> IF n <= m THEN f[n]
                                        ELSE FinishStep(f[m], m + 1)]
               h == [n \in 0..m + 1 |-> IF n = 0 THEN book
                                        ELSE FinishStep(g[n - 1], n)]
    <2>3. ASSUME NEW n \in 0..m + 1 PROVE g[n] = h[n]
      <3>1. CASE n = m + 1
        <4>1. n # 0 /\ n - 1 = m /\ m \in 0..m + 1 /\ m <= m /\ ~(n <= m)
          BY <2>2, <3>1
        <4>2. g[m] = f[m]
          BY <4>1
        <4> QED
          BY <3>1, <4>1, <4>2
      <3>2. CASE n # m + 1 /\ n # 0
        <4>1. n \in 0..m /\ n <= m /\ n - 1 \in 0..m + 1 /\ n - 1 <= m
          BY <2>2, <3>2
        <4>2. f[n] = FinishStep(f[n - 1], n)
          BY <2>1, <3>2, <4>1
        <4>3. g[n - 1] = f[n - 1]
          BY <4>1
        <4> QED
          BY <3>2, <4>1, <4>2, <4>3
      <3>3. CASE n = 0
        <4>1. f[0] = book
          BY <2>1, <2>2
        <4> QED
          BY <2>2, <3>3, <4>1
      <3> QED
        BY <3>1, <3>2, <3>3
    <2>4. Loop(g, m + 1)
      <3>1. g = h
        BY <2>3
      <3> QED
        BY <3>1
    <2> HIDE DEF Loop, g
    <2> QED
      BY <2>2, <2>4
  <1>3. N \in S
    <2> HIDE DEF S
    <2>1. \A k \in 0..N : k < N /\ k \in S => k + 1 \in S
      BY <1>2
    <2>2. \A k \in 0..N : k \in S
      BY <1>0, <1>1, <2>1, SegmentInduction
    <2> QED
      BY <1>0, <2>2
  <1>4. PICK f : Loop(f, N)
    BY <1>3
  <1> DEFINE a == CHOOSE g : Loop(g, N)
  <1>5. Loop(a, N)
    BY <1>4
  <1>6. FinishLoop = a
    BY DEF FinishLoop, FinishStep, N
  <1> HIDE DEF a
  <1>7. a[0] = book
    BY <1>0, <1>5
  <1>8. \A n \in 1..N : a[n] = FinishStep(a[n - 1], n)
    BY <1>0, <1>5
  <1> QED
    BY <1>6, <1>7, <1>8 DEF N

Flat == [top |-> StartingBalance, dd |-> NoFall]

DrawdownStep(e, a, n) ==
    LET top == MaxOf(a.top, e[n])
    IN  [top |-> top, dd |-> Worse([loss |-> top - e[n], peak |-> top], a.dd)]

LEMMA DrawdownLoopIs ==
    ASSUME NEW e, Len(e) \in Nat
    PROVE  /\ DrawdownLoop(e)[0] = Flat
           /\ \A n \in 1..(Len(e)) :
                DrawdownLoop(e)[n]
                  = DrawdownStep(e, DrawdownLoop(e)[n - 1], n)
  <1> DEFINE N == Len(e)
             Loop(f, m) ==
               f = [n \in 0..m |-> IF n = 0 THEN Flat ELSE DrawdownStep(e, f[n - 1], n)]
             S == {m \in 0..N : \E f : Loop(f, m)}
  <1>0. N \in Nat
    OBVIOUS
  <1> HIDE DEF N
  <1>1. 0 \in S
    <2>1. Loop([n \in 0..0 |-> Flat], 0)
      OBVIOUS
    <2> HIDE DEF Loop
    <2> QED
      BY <1>0, <2>1
  <1>2. ASSUME NEW m \in 0..N, m < N, m \in S PROVE m + 1 \in S
    <2>1. PICK f : Loop(f, m)
      BY <1>2
    <2>2. m \in Nat /\ m + 1 \in 0..N
      BY <1>0, <1>2
    <2> DEFINE g == [n \in 0..m + 1 |-> IF n <= m THEN f[n]
                                        ELSE DrawdownStep(e, f[m], m + 1)]
               h == [n \in 0..m + 1 |-> IF n = 0 THEN Flat
                                        ELSE DrawdownStep(e, g[n - 1], n)]
    <2>3. ASSUME NEW n \in 0..m + 1 PROVE g[n] = h[n]
      <3>1. CASE n = m + 1
        <4>1. n # 0 /\ n - 1 = m /\ m \in 0..m + 1 /\ m <= m /\ ~(n <= m)
          BY <2>2, <3>1
        <4>2. g[m] = f[m]
          BY <4>1
        <4> QED
          BY <3>1, <4>1, <4>2
      <3>2. CASE n # m + 1 /\ n # 0
        <4>1. n \in 0..m /\ n <= m /\ n - 1 \in 0..m + 1 /\ n - 1 <= m
          BY <2>2, <3>2
        <4>2. f[n] = DrawdownStep(e, f[n - 1], n)
          BY <2>1, <3>2, <4>1
        <4>3. g[n - 1] = f[n - 1]
          BY <4>1
        <4> QED
          BY <3>2, <4>1, <4>2, <4>3
      <3>3. CASE n = 0
        <4>1. f[0] = Flat
          BY <2>1, <2>2
        <4> QED
          BY <2>2, <3>3, <4>1
      <3> QED
        BY <3>1, <3>2, <3>3
    <2>4. Loop(g, m + 1)
      <3>1. g = h
        BY <2>3
      <3> QED
        BY <3>1
    <2> HIDE DEF Loop, g
    <2> QED
      BY <2>2, <2>4
  <1>3. N \in S
    <2> HIDE DEF S
    <2>1. \A k \in 0..N : k < N /\ k \in S => k + 1 \in S
      BY <1>2
    <2>2. \A k \in 0..N : k \in S
      BY <1>0, <1>1, <2>1, SegmentInduction
    <2> QED
      BY <1>0, <2>2
  <1>4. PICK f : Loop(f, N)
    BY <1>3
  <1> DEFINE a == CHOOSE g : Loop(g, N)
  <1>5. Loop(a, N)
    BY <1>4
  <1>6. DrawdownLoop(e) = a
    BY DEF DrawdownLoop, DrawdownStep, Flat, N
  <1> HIDE DEF a
  <1>7. a[0] = Flat
    BY <1>0, <1>5
  <1>8. \A n \in 1..N : a[n] = DrawdownStep(e, a[n - 1], n)
    BY <1>0, <1>5
  <1> QED
    BY <1>6, <1>7, <1>8 DEF N

-----------------------------------------------------------------------------
(***************************************************************************)
(* What a trade can lose.  A trade is sized for the distance of its stop    *)
(* from the close it was opened at; the entry and the exit at the end each  *)
(* cost half a spread more.                                                 *)
(***************************************************************************)
Unit == QuotePerPipPerLot \div 100

Middle(t) == IF t.dir = "LONG" THEN t.entry - HalfSpread ELSE t.entry + HalfSpread

Distance(t) == IF t.dir = "LONG" THEN Middle(t) - t.sl ELSE t.sl - Middle(t)

Earned(t, exit) == IF t.dir = "LONG" THEN exit - t.entry ELSE t.entry - exit

Sized(t) ==
    /\ Distance(t) >= 1
    /\ Distance(t) * (Unit * t.lots) <= t.budget
    /\ IF t.dir = "LONG" THEN t.tp >= Middle(t) ELSE t.tp <= Middle(t)

\* The last quote of the trade's symbol is on the right side of its stop.
QuoteInside(p, t) ==
    \E mid \in Int :
      /\ p.quotes[t.symbol] = {[bid |-> mid - HalfSpread, ask |-> mid + HalfSpread]}
      /\ IF t.dir = "LONG" THEN mid > t.sl ELSE mid < t.sl

LossFine(x) ==
    -x.pnl <= x.trade.budget + 2 * HalfSpread * Unit * x.trade.lots

LEMMA LossOf ==
    ASSUME NEW t \in TradeSet, Sized(t), NEW exit \in Int,
           -Earned(t, exit) <= Distance(t) + 2 * HalfSpread
    PROVE  -Pnl(t, exit) <= t.budget + 2 * HalfSpread * Unit * t.lots
  <1> DEFINE g == Earned(t, exit)
             d == Distance(t)
             h == 2 * HalfSpread
             u == Unit * t.lots
  <1>1. /\ g \in Int /\ d \in Int /\ h \in Int /\ t.lots \in Nat /\ t.budget \in Int
    BY BacktestAssumption DEF TradeSet, Earned, Distance, Middle
  <1>2. Unit \in Nat
    BY UnitIs DEF Unit
  <1>3. u \in Nat
    BY <1>1, <1>2, ProductNatural
  <1>4. Pnl(t, exit) = (g * Unit) * t.lots
    BY DEF Pnl, Earned, Unit
  <1>5. -g <= d + h /\ d * u <= t.budget
    BY DEF Sized
  <1> HIDE DEF g, d, h
  <1>6. Pnl(t, exit) = g * u
    BY <1>1, <1>2, <1>4, ProductAssoc
  <1>7. (h * Unit) * t.lots = h * u
    BY <1>1, <1>2, ProductAssoc
  <1> HIDE DEF u
  <1>8. (-g) * u <= (d + h) * u
    BY <1>1, <1>3, <1>5, ProductMonotone
  <1>9. (-g) * u = -(g * u) /\ (d + h) * u = d * u + h * u
    BY <1>1, <1>3, ProductMinus, ProductSum
  <1>10. g * u \in Int /\ d * u \in Int /\ h * u \in Int
    BY <1>1, <1>3, ProductInt
  <1>11. -Pnl(t, exit) <= t.budget + (h * Unit) * t.lots
    BY <1>1, <1>5, <1>6, <1>7, <1>8, <1>9, <1>10
  <1> QED
    BY <1>11 DEF h

\* Closing at the stop, at the target, and at a quote that has not met it.
LEMMA StopLoss ==
    ASSUME NEW t \in TradeSet, Sized(t)
    PROVE  -Pnl(t, t.sl) <= t.budget + 2 * HalfSpread * Unit * t.lots
  <1>1. t.sl \in Int /\ t.entry \in Int /\ t.dir \in Dirs
    BY DEF TradeSet
  <1>2. -Earned(t, t.sl) <= Distance(t) + 2 * HalfSpread
    BY <1>1, BacktestAssumption DEF Earned, Distance, Middle, Dirs
  <1> QED
    BY <1>1, <1>2, LossOf

LEMMA TargetLoss ==
    ASSUME NEW t \in TradeSet, Sized(t)
    PROVE  -Pnl(t, t.tp) <= t.budget + 2 * HalfSpread * Unit * t.lots
  <1>1. t.sl \in Int /\ t.tp \in Int /\ t.entry \in Int /\ t.dir \in Dirs
    BY DEF TradeSet
  <1>2. -Earned(t, t.tp) <= Distance(t) + 2 * HalfSpread
    BY <1>1, BacktestAssumption DEF Sized, Earned, Distance, Middle, Dirs
  <1> QED
    BY <1>1, <1>2, LossOf

EndPrice(p, t) == Fill(p, t.symbol, IF t.dir = "LONG" THEN "SHORT" ELSE "LONG")

LEMMA EndLoss ==
    ASSUME NEW t \in TradeSet, Sized(t), NEW p, QuoteInside(p, t)
    PROVE  /\ EndPrice(p, t) \in Int
           /\ -Pnl(t, EndPrice(p, t)) <= t.budget + 2 * HalfSpread * Unit * t.lots
  <1>1. t.sl \in Int /\ t.entry \in Int /\ t.dir \in Dirs
    BY DEF TradeSet
  <1>2. PICK mid \in Int :
          /\ p.quotes[t.symbol] = {[bid |-> mid - HalfSpread, ask |-> mid + HalfSpread]}
          /\ IF t.dir = "LONG" THEN mid > t.sl ELSE mid < t.sl
    BY DEF QuoteInside
  <1> DEFINE q == [bid |-> mid - HalfSpread, ask |-> mid + HalfSpread]
  <1>3. q.bid = mid - HalfSpread /\ q.ask = mid + HalfSpread
    OBVIOUS
  <1>4. EndPrice(p, t) = IF t.dir = "LONG" THEN mid - HalfSpread ELSE mid + HalfSpread
    <2>1. p.quotes[t.symbol] = {q}
      BY <1>2
    <2> HIDE DEF q
    <2>2. (CHOOSE x \in p.quotes[t.symbol] : TRUE) = q
      BY <2>1
    <2>3. CASE t.dir = "LONG"
      BY <1>3, <2>2, <2>3 DEF EndPrice, Fill
    <2>4. CASE t.dir # "LONG"
      BY <1>3, <2>2, <2>4 DEF EndPrice, Fill
    <2> QED
      BY <2>3, <2>4
  <1>5. EndPrice(p, t) \in Int
    BY <1>4, BacktestAssumption
  <1>6. -Earned(t, EndPrice(p, t)) <= Distance(t) + 2 * HalfSpread
    BY <1>1, <1>2, <1>4, BacktestAssumption DEF Earned, Distance, Middle, Dirs
  <1> QED
    BY <1>5, <1>6, LossOf

-----------------------------------------------------------------------------
(***************************************************************************)
(* The exits.  Hits(t, rs) are the bars after its opening on which t would  *)
(* leave; the sweep over one bar closes exactly the trades it hits.         *)
(***************************************************************************)
HitBy(t, c) == c.symbol = t.symbol /\ (StopHit(t, c) \/ TargetHit(t, c))

Hits(t, rs) == {k \in (t.opened + 1)..Len(rs) : HitBy(t, rs[k])}

\* A trade closed by a sweep: on its first hit, at the level it must.
ExitFine(x, rs) ==
    /\ x.reason # "backtest_end"
    /\ x.row \in Hits(x.trade, rs)
    /\ \A k \in Hits(x.trade, rs) : x.row <= k
    /\ x.exit = IF StopHit(x.trade, rs[x.row]) THEN x.trade.sl ELSE x.trade.tp

\* A trade closed at the end: never hit.
EndFine(x, rs) == x.reason = "backtest_end" /\ Hits(x.trade, rs) = {}

LEMMA HitsAppend ==
    ASSUME NEW t \in TradeSet, NEW rs \in Seq(BarSet), NEW c \in BarSet,
           t.opened <= Len(rs)
    PROVE  /\ Len(rs) \in Nat
           /\ Append(rs, c) \in Seq(BarSet)
           /\ Len(Append(rs, c)) = Len(rs) + 1
           /\ \A k \in 1..Len(rs) : Append(rs, c)[k] = rs[k]
           /\ Append(rs, c)[Len(rs) + 1] = c
           /\ \A k \in Hits(t, rs) : k \in Hits(t, Append(rs, c))
           /\ \A k \in Hits(t, Append(rs, c)) : k \in Hits(t, rs) \/ k = Len(rs) + 1
           /\ Len(rs) + 1 \in Hits(t, Append(rs, c)) <=> HitBy(t, c)
  <1> DEFINE n == Len(rs)
             rs2 == Append(rs, c)
  <1>1. /\ n \in Nat /\ rs2 \in Seq(BarSet) /\ Len(rs2) = n + 1
        /\ \A k \in 1..n : rs2[k] = rs[k]
        /\ rs2[n + 1] = c
    BY LenProperties, AppendProperties
  <1>2. t.opened \in Nat /\ t.opened <= n
    BY DEF TradeSet
  <1> HIDE DEF n, rs2
  <1>3. /\ Hits(t, rs) = {k \in (t.opened + 1)..n : HitBy(t, rs[k])}
        /\ Hits(t, rs2) = {k \in (t.opened + 1)..(n + 1) : HitBy(t, rs2[k])}
    BY <1>1 DEF Hits, n
  <1>4. ASSUME NEW k \in Hits(t, rs) PROVE k \in Hits(t, rs2)
    <2>1. k \in (t.opened + 1)..n /\ HitBy(t, rs[k])
      BY <1>3
    <2>2. k \in (t.opened + 1)..(n + 1) /\ rs2[k] = rs[k]
      BY <1>1, <1>2, <2>1
    <2> QED
      BY <1>3, <2>1, <2>2
  <1>5. ASSUME NEW k \in Hits(t, rs2), k # n + 1 PROVE k \in Hits(t, rs)
    <2>1. k \in (t.opened + 1)..(n + 1) /\ HitBy(t, rs2[k])
      BY <1>3
    <2>2. k \in (t.opened + 1)..n /\ rs2[k] = rs[k]
      BY <1>1, <1>2, <1>5, <2>1
    <2> QED
      BY <1>3, <2>1, <2>2
  <1>6. n + 1 \in Hits(t, rs2) <=> HitBy(t, c)
    <2>1. n + 1 \in (t.opened + 1)..(n + 1)
      BY <1>1, <1>2
    <2> QED
      BY <1>1, <1>3, <2>1
  <1> QED
    BY <1>1, <1>4, <1>5, <1>6 DEF n, rs2

\* An exit stays fine when a later bar is added.
LEMMA ExitKept ==
    ASSUME NEW x \in ClosingSet, NEW rs \in Seq(BarSet), NEW c \in BarSet,
           ExitFine(x, rs)
    PROVE  ExitFine(x, Append(rs, c))
  <1> DEFINE t == x.trade
             rs2 == Append(rs, c)
  <1>1. t \in TradeSet /\ x.row \in Nat
    BY DEF ClosingSet
  <1>2. /\ x.row \in Hits(t, rs) /\ \A k \in Hits(t, rs) : x.row <= k
        /\ x.exit = IF StopHit(t, rs[x.row]) THEN t.sl ELSE t.tp
        /\ x.reason # "backtest_end"
    BY DEF ExitFine
  <1>3. Len(rs) \in Nat /\ t.opened \in Nat
    BY <1>1, LenProperties DEF TradeSet
  <1>4. x.row \in (t.opened + 1)..Len(rs)
    BY <1>2 DEF Hits
  <1>5. t.opened <= Len(rs) /\ x.row \in 1..Len(rs) /\ x.row <= Len(rs) + 1
    BY <1>3, <1>4
  <1> HIDE DEF t
  <1>6. /\ \A k \in 1..Len(rs) : rs2[k] = rs[k]
        /\ \A k \in Hits(t, rs) : k \in Hits(t, rs2)
        /\ \A k \in Hits(t, rs2) : k \in Hits(t, rs) \/ k = Len(rs) + 1
    BY <1>1, <1>5, HitsAppend
  <1> HIDE DEF rs2
  <1>7. /\ x.row \in Hits(t, rs2) /\ \A k \in Hits(t, rs2) : x.row <= k
        /\ x.exit = IF StopHit(t, rs2[x.row]) THEN t.sl ELSE t.tp
    BY <1>2, <1>5, <1>6
  <1> QED
    BY <1>2, <1>7 DEF ExitFine, t, rs2

\* The book while the sweep over bar c is at the trades up to n.
Swept(a, b, c, n) ==
    /\ BookOK(a) /\ a.next = b.next
    /\ DOMAIN a.open \subseteq DOMAIN b.open
    /\ \A k \in DOMAIN a.open : a.open[k] = b.open[k]
    /\ \A k \in DOMAIN a.open : k <= n => ~HitBy(b.open[k], c)
    /\ \A k \in DOMAIN b.open : k > n => k \in DOMAIN a.open
    /\ \A i \in 1..Len(a.closed) :
         LossFine(a.closed[i]) /\ ExitFine(a.closed[i], Append(rows, c))

\* What the sweep may rely on.
SweepReady(b, c, day) ==
    /\ BookOK(b) /\ c \in BarSet /\ day \in Nat /\ rows \in Seq(BarSet)
    /\ \A k \in DOMAIN b.open : /\ Sized(b.open[k])
                                /\ b.open[k].opened <= Len(rows)
                                /\ Hits(b.open[k], rows) = {}
    /\ \A i \in 1..Len(b.closed) :
         LossFine(b.closed[i]) /\ ExitFine(b.closed[i], rows)

LEMMA SweepStarts ==
    ASSUME NEW b, NEW c, NEW day, SweepReady(b, c, day)
    PROVE  Swept(b, b, c, 0)
  <1>1. \A k \in DOMAIN b.open : ~(k <= 0)
    BY DEF SweepReady, BookOK
  <1>2. \A i \in 1..Len(b.closed) :
          LossFine(b.closed[i]) /\ ExitFine(b.closed[i], Append(rows, c))
    <2> TAKE i \in 1..Len(b.closed)
    <2>1. b.closed[i] \in ClosingSet
      BY ElementOfSeq DEF SweepReady, BookOK
    <2> QED
      BY <2>1, ExitKept DEF SweepReady
  <1> QED
    BY <1>1, <1>2 DEF Swept, SweepReady

LEMMA SweepCloses ==
    ASSUME NEW b, NEW c, NEW day, SweepReady(b, c, day),
           NEW n \in DOMAIN b.open, NEW a, Swept(a, b, c, n - 1),
           NEW exit \in Int, NEW reason \in {"stop_loss", "take_profit"},
           HitBy(b.open[n], c),
           exit = IF StopHit(b.open[n], c) THEN b.open[n].sl ELSE b.open[n].tp,
           -Pnl(b.open[n], exit)
             <= b.open[n].budget + 2 * HalfSpread * Unit * b.open[n].lots
    PROVE  Swept(CloseTrade(a, b.open[n], day, exit, reason), b, c, n)
  <1> DEFINE t == b.open[n]
             q == CloseTrade(a, t, day, exit, reason)
             x == Closing(t, exit, reason)
             rs2 == Append(rows, c)
  <1>1. /\ t \in TradeSet /\ t.id = n /\ day \in Nat /\ rows \in Seq(BarSet)
        /\ c \in BarSet /\ t.opened <= Len(rows) /\ Hits(t, rows) = {}
        /\ n \in Nat /\ n >= 1
    <2>1. /\ b.next \in Nat /\ n \in 1..(b.next - 1)
          /\ b.open[n] \in TradeSet /\ b.open[n].id = n
      BY DEF SweepReady, BookOK
    <2>2. n \in Nat /\ n >= 1
      BY <2>1
    <2>3. /\ day \in Nat /\ rows \in Seq(BarSet) /\ c \in BarSet
          /\ b.open[n].opened <= Len(rows) /\ Hits(b.open[n], rows) = {}
      BY DEF SweepReady
    <2> QED
      BY <2>1, <2>2, <2>3
  <1>2. BookOK(a) /\ Len(rows) \in Nat
    BY <1>1, LenProperties DEF Swept
  <1>3. reason \in ClosingReasons
    BY DEF ClosingReasons
  <1>4. /\ BookOK(q)
        /\ DOMAIN q.open = DOMAIN a.open \ {n}
        /\ \A k \in DOMAIN q.open : q.open[k] = a.open[k]
        /\ q.next = a.next
        /\ q.closed = Append(a.closed, x)
    <2> HIDE DEF t
    <2>1. /\ BookOK(q)
          /\ DOMAIN q.open = DOMAIN a.open \ {t.id}
          /\ \A k \in DOMAIN q.open : q.open[k] = a.open[k]
          /\ q.next = a.next
          /\ Longer(q.closed, a.closed, x)
      <3>1. t \in TradeSet /\ day \in Nat
        BY <1>1
      <3>2. q = CloseTrade(a, t, day, exit, reason) /\ x = Closing(t, exit, reason)
        OBVIOUS
      <3> HIDE DEF q, x
      <3> QED
        BY <1>2, <1>3, <3>1, <3>2, CloseTradeIs
    <2> QED
      BY <1>1, <2>1 DEF Longer
  <1>5. /\ x \in ClosingSet /\ x.trade = t /\ x.pnl = Pnl(t, exit)
        /\ x.exit = exit /\ x.reason = reason /\ x.row = Len(rows) + 1
    <2> HIDE DEF t
    <2> QED
      BY <1>1, <1>2, <1>3, ClosingIs
  <1> HIDE DEF q, x
  <1>6. LossFine(x)
    BY <1>5 DEF LossFine
  <1>7. ExitFine(x, rs2)
    <2>1. /\ rs2[Len(rows) + 1] = c
          /\ \A k \in Hits(t, rs2) : k \in Hits(t, rows) \/ k = Len(rows) + 1
          /\ Len(rows) + 1 \in Hits(t, rs2)
      <3>1. HitBy(t, c)
        OBVIOUS
      <3> HIDE DEF t
      <3> QED
        BY <1>1, <3>1, HitsAppend
    <2>2. \A k \in Hits(t, rs2) : Len(rows) + 1 <= k
      BY <1>1, <1>2, <2>1
    <2> QED
      BY <1>5, <2>1, <2>2 DEF ExitFine
  <1>8. \A i \in 1..Len(q.closed) : LossFine(q.closed[i]) /\ ExitFine(q.closed[i], rs2)
    <2> TAKE i \in 1..Len(q.closed)
    <2>1. a.closed \in Seq(ClosingSet)
      BY <1>2 DEF BookOK
    <2>2. /\ Len(a.closed) \in Nat
          /\ Len(q.closed) = Len(a.closed) + 1
          /\ \A j \in 1..Len(a.closed) : q.closed[j] = a.closed[j]
          /\ q.closed[Len(a.closed) + 1] = x
      BY <1>4, <1>5, <2>1, LenProperties, AppendProperties
    <2>3. CASE i = Len(a.closed) + 1
      BY <1>6, <1>7, <2>2, <2>3
    <2>4. CASE i # Len(a.closed) + 1
      <3>1. i \in 1..Len(a.closed)
        BY <2>2, <2>4
      <3> QED
        BY <2>2, <3>1 DEF Swept
    <2> QED
      BY <2>3, <2>4
  <1>9. /\ DOMAIN a.open \subseteq DOMAIN b.open /\ a.next = b.next
        /\ \A k \in DOMAIN a.open : a.open[k] = b.open[k]
        /\ \A k \in DOMAIN a.open : k <= n - 1 => ~HitBy(b.open[k], c)
        /\ \A k \in DOMAIN b.open : k > n - 1 => k \in DOMAIN a.open
        /\ \A k \in DOMAIN b.open : k \in Nat
    BY DEF Swept, SweepReady, BookOK
  <1>10. /\ DOMAIN q.open \subseteq DOMAIN b.open /\ q.next = b.next
         /\ \A k \in DOMAIN q.open : q.open[k] = b.open[k]
         /\ \A k \in DOMAIN q.open : k <= n => ~HitBy(b.open[k], c)
         /\ \A k \in DOMAIN b.open : k > n => k \in DOMAIN q.open
    <2>1. ASSUME NEW k \in DOMAIN q.open, k <= n PROVE ~HitBy(b.open[k], c)
      <3>1. k \in DOMAIN a.open /\ k # n /\ k \in Nat
        BY <1>4, <1>9
      <3>2. k <= n - 1
        BY <1>1, <2>1, <3>1
      <3> QED
        BY <1>9, <3>1, <3>2
    <2>2. ASSUME NEW k \in DOMAIN b.open, k > n PROVE k \in DOMAIN q.open
      <3>1. k > n - 1 /\ k # n
        BY <1>1, <1>9, <2>2
      <3> QED
        BY <1>4, <1>9, <3>1
    <2> QED
      BY <1>4, <1>9, <2>1, <2>2
  <1>11. Swept(q, b, c, n)
    BY <1>4, <1>8, <1>10 DEF Swept
  <1> QED
    BY <1>11 DEF q

LEMMA SweepKeeps ==
    ASSUME NEW b, NEW c, NEW day, SweepReady(b, c, day),
           NEW n \in 1..(b.next - 1), NEW a, Swept(a, b, c, n - 1)
    PROVE  Swept(SweepStep(b, c, day, a, n), b, c, n)
  <1>0. /\ b.next \in Nat /\ n \in Nat
        /\ \A k \in DOMAIN b.open : k \in Nat
    BY DEF SweepReady, BookOK
  <1>1. ASSUME n \notin DOMAIN b.open \/ ~HitBy(b.open[n], c)
        PROVE  Swept(a, b, c, n)
    <2>1. ASSUME NEW k \in DOMAIN a.open, k <= n PROVE ~HitBy(b.open[k], c)
      <3>1. k \in DOMAIN b.open /\ k \in Nat
        BY <1>0 DEF Swept
      <3>2. CASE k = n
        BY <1>1, <3>1, <3>2
      <3>3. CASE k # n
        <4>1. k <= n - 1
          BY <1>0, <2>1, <3>1, <3>3
        <4> QED
          BY <4>1 DEF Swept
      <3> QED
        BY <3>2, <3>3
    <2>2. ASSUME NEW k \in DOMAIN b.open, k > n PROVE k \in DOMAIN a.open
      <3>1. k > n - 1
        BY <1>0, <2>2
      <3> QED
        BY <3>1 DEF Swept
    <2> QED
      BY <2>1, <2>2 DEF Swept
  <1>2. CASE n \notin DOMAIN b.open
    BY <1>1, <1>2 DEF SweepStep
  <1>3. CASE n \in DOMAIN b.open
    <2> DEFINE t == b.open[n]
    <2>1. t \in TradeSet /\ Sized(t)
      BY <1>3 DEF SweepReady, BookOK
    <2>2. t.sl \in Int /\ t.tp \in Int
      BY <2>1 DEF TradeSet
    <2>3. SweepStep(b, c, day, a, n) = CheckTrade(a, t, c, day)
      BY <1>3 DEF SweepStep
    <2>4. CASE ~HitBy(t, c)
      <3>1. CheckTrade(a, t, c, day) = a
        BY <2>4 DEF CheckTrade, HitBy
      <3> QED
        BY <1>1, <2>3, <2>4, <3>1
    <2>5. CASE HitBy(t, c) /\ StopHit(t, c)
      <3>1. CheckTrade(a, t, c, day) = CloseTrade(a, t, day, t.sl, "stop_loss")
        BY <2>5 DEF CheckTrade, HitBy
      <3>2. -Pnl(t, t.sl) <= t.budget + 2 * HalfSpread * Unit * t.lots
        <4> HIDE DEF t
        <4> QED
          BY <2>1, StopLoss
      <3>3. Swept(CloseTrade(a, t, day, t.sl, "stop_loss"), b, c, n)
        BY <1>3, <2>2, <2>5, <3>2, SweepCloses
      <3> QED
        BY <2>3, <3>1, <3>3
    <2>6. CASE HitBy(t, c) /\ ~StopHit(t, c)
      <3>1. CheckTrade(a, t, c, day) = CloseTrade(a, t, day, t.tp, "take_profit")
        BY <2>6 DEF CheckTrade, HitBy
      <3>2. -Pnl(t, t.tp) <= t.budget + 2 * HalfSpread * Unit * t.lots
        <4> HIDE DEF t
        <4> QED
          BY <2>1, TargetLoss
      <3>3. Swept(CloseTrade(a, t, day, t.tp, "take_profit"), b, c, n)
        BY <1>3, <2>2, <2>6, <3>2, SweepCloses
      <3> QED
        BY <2>3, <3>1, <3>3
    <2> QED
      BY <2>4, <2>5, <2>6
  <1> QED
    BY <1>2, <1>3

\* What one bar's sweep leaves and records.
LEMMA SweepIs ==
    ASSUME NEW b, NEW c, NEW day, SweepReady(b, c, day)
    PROVE  Swept(CheckSlTp(b, c, day), b, c, b.next - 1)
  <1> DEFINE N == b.next - 1
             f == SweepLoop(b, c, day)
             S == {n \in 0..N : Swept(f[n], b, c, n)}
  <1>1. b.next \in Nat \ {0} /\ N \in Nat
    BY DEF SweepReady, BookOK
  <1>2. /\ f[0] = b
        /\ \A n \in 1..N : f[n] = SweepStep(b, c, day, f[n - 1], n)
    BY <1>1, SweepLoopIs
  <1> HIDE DEF f
  <1>3. 0 \in S
    BY <1>1, <1>2, SweepStarts
  <1>4. ASSUME NEW k \in 0..N, k < N, k \in S PROVE k + 1 \in S
    <2>1. /\ k + 1 \in 1..(b.next - 1) /\ k + 1 \in 0..N
          /\ (k + 1) - 1 = k
      BY <1>1, <1>4
    <2>2. Swept(f[k], b, c, (k + 1) - 1)
      BY <1>4, <2>1
    <2>3. Swept(SweepStep(b, c, day, f[k], k + 1), b, c, k + 1)
      BY <2>1, <2>2, SweepKeeps
    <2>4. f[k + 1] = SweepStep(b, c, day, f[k], k + 1)
      BY <1>2, <2>1
    <2> QED
      BY <2>1, <2>3, <2>4
  <1>5. N \in S
    <2> HIDE DEF S, N
    <2>1. \A k \in 0..N : k < N /\ k \in S => k + 1 \in S
      BY <1>4
    <2>2. \A k \in 0..N : k \in S
      BY <1>1, <1>3, <2>1, SegmentInduction
    <2> QED
      BY <1>1, <2>2
  <1>6. Swept(f[N], b, c, N)
    BY <1>5
  <1> QED
    BY <1>6 DEF CheckSlTp, f

-----------------------------------------------------------------------------
(***************************************************************************)
(* The invariant of the replay: what holds of every open trade and of every *)
(* closed one, the paper broker's book and the history included.            *)
(***************************************************************************)
PaperOK(p) ==
    /\ DOMAIN p.quotes = Symbols /\ DOMAIN p.positions = Symbols
    /\ p.balance = StartingBalance
    /\ \A s \in Symbols : p.positions[s] # {} => p.quotes[s] # {}

OpenOK(t, p, rs) ==
    /\ Sized(t) /\ t.opened <= Len(rs) /\ Hits(t, rs) = {}
    /\ QuoteInside(p, t)
    /\ \E id \in p.positions[t.symbol] : id >= t.id

Good(b, p, rs) ==
    /\ BookOK(b) /\ PaperOK(p) /\ rs \in Seq(BarSet)
    /\ \A k \in DOMAIN b.open : OpenOK(b.open[k], p, rs)
    /\ \A i \in 1..Len(b.closed) : LossFine(b.closed[i]) /\ ExitFine(b.closed[i], rs)

LEMMA TodayNat ==
    ASSUME rows \in Seq(BarSet)
    PROVE  Len(rows) \in Nat /\ Today \in Nat
  <1>1. Len(rows) \in Nat
    BY LenProperties
  <1>2. BarsPerDay \in Nat \ {0}
    BY BacktestAssumption
  <1> QED
    BY <1>1, <1>2 DEF Today

LEMMA SetQuoteIs ==
    ASSUME NEW p, PaperOK(p), NEW c, IsBar(c)
    PROVE  /\ PaperOK(SetQuote(p, c.symbol, c.close))
           /\ SetQuote(p, c.symbol, c.close).positions = p.positions
           /\ SetQuote(p, c.symbol, c.close).quotes[c.symbol]
                = {[bid |-> c.close - HalfSpread, ask |-> c.close + HalfSpread]}
           /\ \A s \in Symbols : s # c.symbol =>
                SetQuote(p, c.symbol, c.close).quotes[s] = p.quotes[s]
  <1>1. c.symbol \in Symbols
    BY DEF IsBar, BarSet
  <1> DEFINE q == SetQuote(p, c.symbol, c.close)
             x == {[bid |-> c.close - HalfSpread, ask |-> c.close + HalfSpread]}
  <1>2. /\ q.quotes = [p.quotes EXCEPT ![c.symbol] = x]
        /\ q.positions = p.positions /\ q.balance = p.balance
    BY DEF SetQuote
  <1>3. x # {}
    OBVIOUS
  <1> HIDE DEF q, x
  <1>4. q.quotes[c.symbol] = x /\ \A s \in Symbols : s # c.symbol => q.quotes[s] = p.quotes[s]
    BY <1>1, <1>2 DEF PaperOK
  <1>5. PaperOK(q)
    BY <1>1, <1>2, <1>3, <1>4 DEF PaperOK
  <1> QED
    BY <1>2, <1>4, <1>5 DEF q, x

\* An open trade that the bar has not hit stays as it must.
LEMMA OpenKept ==
    ASSUME NEW t \in TradeSet, NEW p, PaperOK(p), NEW rs \in Seq(BarSet),
           OpenOK(t, p, rs), NEW c, IsBar(c), ~HitBy(t, c)
    PROVE  OpenOK(t, SetQuote(p, c.symbol, c.close), Append(rs, c))
  <1> DEFINE q == SetQuote(p, c.symbol, c.close)
             rs2 == Append(rs, c)
  <1>1. c \in BarSet /\ t.symbol \in Symbols /\ t.opened \in Nat /\ t.opened <= Len(rs)
    BY DEF IsBar, TradeSet, OpenOK
  <1>2. /\ q.positions = p.positions
        /\ q.quotes[c.symbol]
             = {[bid |-> c.close - HalfSpread, ask |-> c.close + HalfSpread]}
        /\ \A s \in Symbols : s # c.symbol => q.quotes[s] = p.quotes[s]
    BY SetQuoteIs
  <1>3. /\ Len(rs) \in Nat /\ Len(rs2) = Len(rs) + 1
        /\ \A k \in Hits(t, rs2) : k \in Hits(t, rs) \/ k = Len(rs) + 1
        /\ Len(rs) + 1 \in Hits(t, rs2) <=> HitBy(t, c)
    BY <1>1, HitsAppend
  <1> HIDE DEF q, rs2
  <1>4. Hits(t, rs2) = {}
    <2>1. Hits(t, rs) = {}
      BY DEF OpenOK
    <2>2. \A k \in Hits(t, rs2) : FALSE
      BY <1>3, <2>1
    <2> QED
      BY <2>2
  <1>5. t.opened <= Len(rs2)
    BY <1>1, <1>3
  <1>6. QuoteInside(q, t)
    <2>1. CASE t.symbol # c.symbol
      <3>1. q.quotes[t.symbol] = p.quotes[t.symbol]
        BY <1>1, <1>2, <2>1
      <3>2. QuoteInside(p, t)
        BY DEF OpenOK
      <3> QED
        BY <3>1, <3>2 DEF QuoteInside
    <2>2. CASE t.symbol = c.symbol
      <3>1. ~StopHit(t, c)
        BY <2>2 DEF HitBy
      <3>2. /\ c.close \in Int /\ c.low \in Int /\ c.high \in Int
            /\ c.low <= c.close /\ c.close <= c.high /\ t.sl \in Int
        BY DEF IsBar, BarSet, TradeSet
      <3>3. IF t.dir = "LONG" THEN c.close > t.sl ELSE c.close < t.sl
        BY <3>1, <3>2 DEF StopHit
      <3>4. q.quotes[t.symbol]
              = {[bid |-> c.close - HalfSpread, ask |-> c.close + HalfSpread]}
        BY <1>2, <2>2
      <3> QED
        BY <3>2, <3>3, <3>4 DEF QuoteInside
    <2> QED
      BY <2>1, <2>2
  <1>7. \E id \in q.positions[t.symbol] : id >= t.id
    BY <1>2 DEF OpenOK
  <1>8. Sized(t)
    BY DEF OpenOK
  <1>9. OpenOK(t, q, rs2)
    BY <1>4, <1>5, <1>6, <1>7, <1>8 DEF OpenOK
  <1> QED
    BY <1>9 DEF q, rs2

LEMMA AfterSweep ==
    ASSUME Good(book, paper, rows), NEW c, IsBar(c), NEW b, b = CheckSlTp(book, c, Today)
    PROVE  Good(b, SetQuote(paper, c.symbol, c.close), Append(rows, c)) /\ b.next = book.next
  <1> DEFINE p == SetQuote(paper, c.symbol, c.close)
             rs2 == Append(rows, c)
             n == book.next - 1
  <1>1. Today \in Nat /\ c \in BarSet /\ rows \in Seq(BarSet) /\ Len(rows) \in Nat
    BY TodayNat DEF Good, IsBar
  <1>2. SweepReady(book, c, Today)
    BY <1>1 DEF SweepReady, Good, OpenOK
  <1>3. Swept(b, book, c, n)
    BY <1>2, SweepIs
  <1>4. rs2 \in Seq(BarSet)
    BY <1>1, AppendProperties
  <1>5. PaperOK(p)
    BY SetQuoteIs DEF Good
  <1>6. ASSUME NEW k \in DOMAIN b.open PROVE OpenOK(b.open[k], p, rs2)
    <2>1. k \in DOMAIN book.open /\ b.open[k] = book.open[k]
      BY <1>3 DEF Swept
    <2>2. k <= n
      BY <2>1 DEF Good, BookOK
    <2>3. ~HitBy(book.open[k], c)
      BY <1>3, <1>6, <2>2 DEF Swept
    <2>4. book.open[k] \in TradeSet /\ OpenOK(book.open[k], paper, rows) /\ PaperOK(paper)
      BY <2>1 DEF Good, BookOK
    <2>5. OpenOK(book.open[k], p, rs2)
      BY <1>1, <2>3, <2>4, OpenKept
    <2> QED
      BY <2>1, <2>5
  <1> HIDE DEF p
  <1>7. /\ BookOK(b) /\ b.next = book.next
        /\ \A i \in 1..Len(b.closed) :
             LossFine(b.closed[i]) /\ ExitFine(b.closed[i], rs2)
    BY <1>3 DEF Swept
  <1> HIDE DEF rs2
  <1>8. Good(b, p, rs2)
    BY <1>4, <1>5, <1>6, <1>7 DEF Good
  <1> QED
    BY <1>7, <1>8 DEF p, rs2
LEMMA EvaluatedGood ==
    ASSUME NEW b, NEW p, NEW rs, Good(b, p, rs), NEW r \in RiskType
    PROVE  Good(Evaluated(b, r), p, rs)
  <1> DEFINE a == Evaluated(b, r)
  <1>1. /\ a.risk = r /\ a.open = b.open /\ a.next = b.next /\ a.equity = b.equity
        /\ a.closed = b.closed
    BY DEF Evaluated
  <1> HIDE DEF a
  <1>2. BookOK(a)
    BY <1>1 DEF Good, BookOK
  <1>3. Good(a, p, rs)
    BY <1>1, <1>2 DEF Good
  <1> QED
    BY <1>3 DEF a

LEMMA PlaceOrderIs ==
    ASSUME NEW p, PaperOK(p), NEW s \in Symbols, NEW id, p.quotes[s] # {}
    PROVE  /\ PaperOK(PlaceOrder(p, s, id))
           /\ PlaceOrder(p, s, id).quotes = p.quotes
           /\ PlaceOrder(p, s, id).positions[s] = {id}
           /\ \A x \in Symbols : x # s =>
                PlaceOrder(p, s, id).positions[x] = p.positions[x]
  <1> DEFINE q == PlaceOrder(p, s, id)
  <1>1. /\ q.quotes = p.quotes /\ q.positions = [p.positions EXCEPT ![s] = {id}]
        /\ q.balance = p.balance
    BY DEF PlaceOrder
  <1> HIDE DEF q
  <1>2. /\ q.positions[s] = {id}
        /\ \A x \in Symbols : x # s => q.positions[x] = p.positions[x]
    BY <1>1 DEF PaperOK
  <1>3. PaperOK(q)
    BY <1>1, <1>2 DEF PaperOK
  <1> QED
    BY <1>1, <1>2, <1>3 DEF q

LEMMA OpenedIs ==
    ASSUME NEW b, BookOK(b), NEW r \in RiskType, NEW t \in TradeSet, t.id = b.next
    PROVE  /\ BookOK(Opened(b, r, t))
           /\ Opened(b, r, t).risk = r
           /\ DOMAIN Opened(b, r, t).open = DOMAIN b.open \cup {b.next}
           /\ Opened(b, r, t).open[b.next] = t
           /\ \A k \in DOMAIN b.open : Opened(b, r, t).open[k] = b.open[k]
           /\ Opened(b, r, t).next = b.next + 1
           /\ Opened(b, r, t).equity = b.equity
           /\ Opened(b, r, t).closed = b.closed
  <1> DEFINE a == Opened(b, r, t)
  <1>1. /\ a.risk = r /\ a.next = b.next + 1 /\ a.equity = b.equity /\ a.closed = b.closed
        /\ a.open = [k \in DOMAIN b.open \cup {b.next} |->
                       IF k = b.next THEN t ELSE b.open[k]]
    BY DEF Opened
  <1>2. b.next \in Nat \ {0} /\ DOMAIN b.open \subseteq 1..(b.next - 1)
    BY DEF BookOK
  <1>3. \A k \in DOMAIN b.open : k # b.next
    BY <1>2
  <1> HIDE DEF a
  <1>4. /\ DOMAIN a.open = DOMAIN b.open \cup {b.next}
        /\ a.open[b.next] = t
        /\ \A k \in DOMAIN b.open : a.open[k] = b.open[k]
    BY <1>1, <1>3
  <1>5. /\ a.next \in Nat \ {0}
        /\ DOMAIN a.open \subseteq 1..(a.next - 1)
    BY <1>1, <1>2, <1>4
  <1>6. \A k \in DOMAIN a.open : a.open[k] \in TradeSet /\ a.open[k].id = k
    BY <1>4 DEF BookOK
  <1>7. BookOK(a)
    BY <1>1, <1>5, <1>6 DEF BookOK
  <1> QED
    BY <1>1, <1>4, <1>7 DEF a

\* The newest order stands in the broker's book for every trade of its symbol.
LEMMA OpenedGood ==
    ASSUME NEW b, NEW p, NEW rs, Good(b, p, rs), NEW r \in RiskType,
           NEW t \in TradeSet, t.id = b.next, Sized(t), t.opened = Len(rs),
           QuoteInside(p, t)
    PROVE  Good(Opened(b, r, t), PlaceOrder(p, t.symbol, b.next), rs)
  <1> DEFINE a == Opened(b, r, t)
             q == PlaceOrder(p, t.symbol, b.next)
  <1>0. t.symbol \in Symbols /\ PaperOK(p) /\ BookOK(b) /\ rs \in Seq(BarSet)
    BY DEF TradeSet, Good
  <1>1. /\ BookOK(a)
        /\ DOMAIN a.open = DOMAIN b.open \cup {b.next}
        /\ a.open[b.next] = t
        /\ \A k \in DOMAIN b.open : a.open[k] = b.open[k]
        /\ a.closed = b.closed
    BY <1>0, OpenedIs
  <1>2. p.quotes[t.symbol] # {}
    BY DEF QuoteInside
  <1>3. /\ PaperOK(q) /\ q.quotes = p.quotes
        /\ q.positions[t.symbol] = {b.next}
        /\ \A x \in Symbols : x # t.symbol => q.positions[x] = p.positions[x]
    <2> DEFINE s == t.symbol
    <2>1. s \in Symbols /\ p.quotes[s] # {}
      BY <1>0, <1>2
    <2> HIDE DEF s
    <2>2. /\ PaperOK(PlaceOrder(p, s, b.next)) /\ PlaceOrder(p, s, b.next).quotes = p.quotes
          /\ PlaceOrder(p, s, b.next).positions[s] = {b.next}
          /\ \A x \in Symbols : x # s =>
               PlaceOrder(p, s, b.next).positions[x] = p.positions[x]
      BY <1>0, <2>1, PlaceOrderIs
    <2> QED
      BY <2>2 DEF s
  <1> HIDE DEF a, q
  <1>4. \A u \in TradeSet : QuoteInside(p, u) => QuoteInside(q, u)
    BY <1>3 DEF QuoteInside
  <1>5. OpenOK(t, q, rs)
    <2>1. Len(rs) \in Nat
      BY <1>0, LenProperties
    <2>2. Hits(t, rs) = {}
      <3>1. (t.opened + 1)..Len(rs) = {}
        BY <2>1
      <3> QED
        BY <3>1 DEF Hits
    <2>3. b.next \in q.positions[t.symbol] /\ b.next >= t.id
      BY <1>0, <1>3 DEF BookOK
    <2>4. t.opened <= Len(rs)
      BY <2>1
    <2> QED
      BY <1>4, <2>2, <2>3, <2>4 DEF OpenOK
  <1>6. ASSUME NEW k \in DOMAIN b.open PROVE OpenOK(b.open[k], q, rs)
    <2> DEFINE u == b.open[k]
    <2>1. u \in TradeSet /\ u.id = k /\ OpenOK(u, p, rs)
      BY DEF Good, BookOK
    <2>2. k \in Nat /\ k <= b.next - 1 /\ b.next \in Nat
      BY <1>0 DEF BookOK
    <2>3. u.symbol \in Symbols
      BY <2>1 DEF TradeSet
    <2> HIDE DEF u
    <2>4. \E id \in q.positions[u.symbol] : id >= u.id
      <3>1. CASE u.symbol = t.symbol
        <4>1. b.next \in q.positions[u.symbol] /\ b.next >= u.id
          BY <1>3, <2>1, <2>2, <3>1
        <4> QED
          BY <4>1
      <3>2. CASE u.symbol # t.symbol
        <4>1. q.positions[u.symbol] = p.positions[u.symbol]
          BY <1>3, <2>3, <3>2
        <4> QED
          BY <2>1, <4>1 DEF OpenOK
      <3> QED
        BY <3>1, <3>2
    <2>5. OpenOK(u, q, rs)
      BY <1>4, <2>1, <2>4 DEF OpenOK
    <2> QED
      BY <2>5 DEF u
  <1>7. \A k \in DOMAIN a.open : OpenOK(a.open[k], q, rs)
    BY <1>1, <1>5, <1>6
  <1>8. Good(a, q, rs)
    BY <1>0, <1>1, <1>3, <1>7 DEF Good
  <1> QED
    BY <1>8 DEF a, q
-----------------------------------------------------------------------------
(***************************************************************************)
(* The trade a signal opens.  Its size is rounded down, so the loss at the  *)
(* stop fits in the budget.                                                 *)
(***************************************************************************)
LEMMA DivBound ==
    ASSUME NEW a \in Int, NEW m \in Int, 100 * a <= m
    PROVE  a <= m \div 100 /\ m \div 100 \in Int
  OBVIOUS

LEMMA SignalIs ==
    ASSUME NEW c, IsBar(c), NEW sig \in SignalsOn(c)
    PROVE  /\ sig.dir \in Dirs /\ sig.tpPips \in Nat \ {0} /\ sig.riskPips \in Nat \ {0}
  <1>1. PICK d \in {"LONG", "SHORT"}, margin \in StopPips, tp \in TargetPips :
          sig = [dir |-> d, tpPips |-> tp,
                 riskPips |-> margin + (IF d = "LONG" THEN c.close - c.low ELSE c.high - c.close)]
    BY DEF SignalsOn
  <1>2. tp \in Nat \ {0} /\ margin \in Nat \ {0}
    BY BacktestAssumption
  <1>3. /\ c.close \in Nat /\ c.low \in Nat /\ c.high \in Nat
        /\ c.low <= c.close /\ c.close <= c.high
    BY DEF IsBar, BarSet
  <1>4. margin + (IF d = "LONG" THEN c.close - c.low ELSE c.high - c.close) \in Nat \ {0}
    BY <1>2, <1>3
  <1>5. d \in Dirs
    BY DEF Dirs
  <1> QED
    BY <1>1, <1>2, <1>4, <1>5

LEMMA LotsFit ==
    ASSUME NEW r \in RiskType, NEW sig, sig.riskPips \in Nat \ {0},
           ~(Lots(r, sig) <= 0)
    PROVE  /\ Lots(r, sig) \in Nat
           /\ (r.currentBalance * RiskPerTradePct) \div 100 \in Int
           /\ sig.riskPips * (Unit * Lots(r, sig))
                <= (r.currentBalance * RiskPerTradePct) \div 100
  <1> DEFINE m == r.currentBalance * RiskPerTradePct
             q == sig.riskPips * QuotePerPipPerLot
             lots == Lots(r, sig)
             w == Unit * lots
             v == sig.riskPips
  <1>1. v \in Nat \ {0} /\ QuotePerPipPerLot \in Nat \ {0}
    BY SettingsAssumption
  <1>2. q \in Nat \ {0}
    BY <1>1, ProductNat
  <1>3. m \in Int
    <2>1. r.currentBalance \in Int /\ RiskPerTradePct \in Int
      BY SettingsAssumption DEF RiskType
    <2> QED
      BY <2>1, ProductInt
  <1>4. lots = m \div q
    <2>1. RiskSignal(sig).riskPips = v /\ v # 0
      BY <1>1 DEF RiskSignal
    <2> QED
      BY <2>1 DEF Lots, SizePosition
  <1> HIDE DEF m, q, lots
  <1>5. lots \in Int /\ lots * q <= m
    BY <1>2, <1>3, <1>4, FloorDivision
  <1>6. lots \in Nat
    BY <1>5 DEF lots
  <1>7. Unit \in Nat /\ 100 * Unit = QuotePerPipPerLot
    BY UnitIs DEF Unit
  <1>8. w \in Nat /\ v * w \in Int
    <2>1. w \in Nat
      BY <1>6, <1>7, ProductNatural
    <2> HIDE DEF w, v
    <2> QED
      BY <1>1, <2>1, ProductInt
  <1>9. lots * q = 100 * (v * w)
    <2>1. q = v * (100 * Unit)
      BY <1>7 DEF q
    <2> HIDE DEF v
    <2>2. v * (100 * Unit) = 100 * (v * Unit)
      BY <1>1, <1>7
    <2>3. v * Unit \in Int
      BY <1>1, <1>7, ProductInt
    <2> DEFINE z == v * Unit
    <2> HIDE DEF z
    <2>4. lots * (100 * z) = 100 * (z * lots)
      BY <1>6, <2>3 DEF z
    <2>5. z * lots = v * w
      BY <1>1, <1>6, <1>7, ProductAssoc DEF z
    <2> QED
      BY <2>1, <2>2, <2>4, <2>5 DEF z
  <1> DEFINE a == v * w
  <1> HIDE DEF v, w
  <1>10. a \in Int /\ 100 * a <= m
    BY <1>5, <1>8, <1>9
  <1> HIDE DEF a
  <1>11. a <= m \div 100 /\ m \div 100 \in Int
    BY <1>3, <1>10, DivBound
  <1> QED
    BY <1>6, <1>11 DEF a, v, w, m, lots

LEMMA AcceptedLots ==
    ASSUME NEW r0 \in RiskType, NEW day \in Nat, NEW sig,
           Decide(r0, day, Limits, RiskSignal(sig)) = "OK"
    PROVE  /\ AfterEvaluate(r0, day, Limits, RiskSignal(sig)) \in RiskType
           /\ ~(Lots(AfterEvaluate(r0, day, Limits, RiskSignal(sig)), sig) <= 0)
  <1> DEFINE s == RiskSignal(sig)
             r == AfterEvaluate(r0, day, Limits, s)
  <1>1. r \in RiskType
    BY EvaluateType
  <1>2. r.currentBalance = Rollover(r0, day).currentBalance
    BY EvaluateFields
  <1>3. ~(SizePosition(Rollover(r0, day), s) <= 0)
    <2> HIDE DEF s
    <2> QED
      BY AcceptedGuards DEF s
  <1> HIDE DEF r, s
  <1>4. SizePosition(r, s) = SizePosition(Rollover(r0, day), s)
    BY <1>2 DEF SizePosition
  <1> QED
    BY <1>1, <1>3, <1>4 DEF Lots, r, s

LEMMA TradeIs ==
    ASSUME rows \in Seq(BarSet), NEW c, IsBar(c), NEW sig \in SignalsOn(c),
           NEW r \in RiskType, ~(Lots(r, sig) <= 0), NEW id \in Nat,
           NEW p, p.quotes[c.symbol]
                    = {[bid |-> c.close - HalfSpread, ask |-> c.close + HalfSpread]},
           NEW t, t = Trade(p, c, sig, r, id)
    PROVE  /\ t \in TradeSet /\ t.id = id /\ t.symbol = c.symbol
           /\ Sized(t) /\ t.opened = Len(rows) + 1 /\ QuoteInside(p, t)
  <1> DEFINE q == [bid |-> c.close - HalfSpread, ask |-> c.close + HalfSpread]
             sign == IF sig.dir = "LONG" THEN 1 ELSE -1
             fill == Fill(p, c.symbol, sig.dir)
             lots == Lots(r, sig)
             budget == (r.currentBalance * RiskPerTradePct) \div 100
  <1>1. /\ sig.dir \in Dirs /\ sig.tpPips \in Nat \ {0} /\ sig.riskPips \in Nat \ {0}
    BY SignalIs
  <1>2. /\ lots \in Nat /\ budget \in Int
        /\ sig.riskPips * (Unit * lots) <= budget
    BY <1>1, LotsFit
  <1>3. /\ c.symbol \in Symbols /\ c.close \in Nat
    BY DEF IsBar, BarSet
  <1>4. HalfSpread \in Nat /\ Len(rows) \in Nat
    BY BacktestAssumption, TodayNat
  <1>5. fill = IF sig.dir = "LONG" THEN c.close + HalfSpread ELSE c.close - HalfSpread
    <2>1. q.bid = c.close - HalfSpread /\ q.ask = c.close + HalfSpread
      OBVIOUS
    <2>2. p.quotes[c.symbol] = {q}
      OBVIOUS
    <2> HIDE DEF q
    <2>3. (CHOOSE x \in p.quotes[c.symbol] : TRUE) = q
      BY <2>2
    <2>4. CASE sig.dir = "LONG"
      BY <2>1, <2>3, <2>4 DEF Fill
    <2>5. CASE sig.dir # "LONG"
      BY <2>1, <2>3, <2>5 DEF Fill
    <2> QED
      BY <2>4, <2>5
  <1> DEFINE sl == c.close - sign * sig.riskPips
             tp == c.close + sign * sig.tpPips
  <1>6. /\ t = [id |-> id, symbol |-> c.symbol, dir |-> sig.dir, entry |-> fill,
                sl |-> sl, tp |-> tp, lots |-> lots, opened |-> Len(rows) + 1,
                budget |-> budget]
    BY DEF Trade
  <1>7. /\ sig.dir = "LONG" => sl = c.close - sig.riskPips /\ tp = c.close + sig.tpPips
        /\ sig.dir # "LONG" => sl = c.close + sig.riskPips /\ tp = c.close - sig.tpPips
    BY <1>1, <1>3
  <1> HIDE DEF q, sign, fill, lots, budget, sl, tp
  <1>8. sl \in Int /\ tp \in Int /\ fill \in Int
    BY <1>1, <1>3, <1>4, <1>5, <1>7
  <1>9. /\ t.id = id /\ t.symbol = c.symbol /\ t.dir = sig.dir /\ t.entry = fill
        /\ t.sl = sl /\ t.tp = tp /\ t.lots = lots /\ t.opened = Len(rows) + 1
        /\ t.budget = budget
    BY <1>6
  <1>10. t \in TradeSet
    BY <1>1, <1>2, <1>3, <1>4, <1>6, <1>8 DEF TradeSet
  <1>11. Middle(t) = c.close
    BY <1>3, <1>4, <1>5, <1>9 DEF Middle
  <1>12. Distance(t) = sig.riskPips
    BY <1>1, <1>3, <1>7, <1>9, <1>11 DEF Distance
  <1>13. Sized(t)
    <2>1. Distance(t) >= 1
      BY <1>1, <1>12
    <2>2. Distance(t) * (Unit * t.lots) <= t.budget
      BY <1>2, <1>9, <1>12
    <2>3. IF t.dir = "LONG" THEN t.tp >= Middle(t) ELSE t.tp <= Middle(t)
      BY <1>1, <1>3, <1>7, <1>9, <1>11
    <2> QED
      BY <2>1, <2>2, <2>3 DEF Sized
  <1>14. QuoteInside(p, t)
    <2>1. IF t.dir = "LONG" THEN c.close > t.sl ELSE c.close < t.sl
      BY <1>1, <1>3, <1>7, <1>9
    <2>2. /\ p.quotes[t.symbol]
               = {[bid |-> c.close - HalfSpread, ask |-> c.close + HalfSpread]}
          /\ c.close \in Int
      BY <1>3, <1>9
    <2> QED
      BY <2>1, <2>2 DEF QuoteInside
  <1> QED
    BY <1>9, <1>10, <1>13, <1>14

LEMMA SignalKeeps ==
    ASSUME rows \in Seq(BarSet), NEW c, IsBar(c), NEW sig \in SignalsOn(c),
           NEW b, NEW p, NEW rs, rs = Append(rows, c), Good(b, p, rs),
           p.quotes[c.symbol]
             = {[bid |-> c.close - HalfSpread, ask |-> c.close + HalfSpread]},
           NEW h, h = HandleSignal(b, p, c, sig, Today)
    PROVE  Good(h.book, h.paper, rs)
  <1> DEFINE s == RiskSignal(sig)
             r == AfterEvaluate(b.risk, Today, Limits, s)
             t == Trade(p, c, sig, r, b.next)
             r2 == AfterTradeOpen(r, Today)
  <1>1. Today \in Nat /\ b.risk \in RiskType /\ b.next \in Nat
    BY TodayNat DEF Good, BookOK
  <1>2. r \in RiskType
    BY <1>1, EvaluateType
  <1>3. r2 \in RiskType
    <2> HIDE DEF r
    <2> QED
      BY <1>1, <1>2, OpenType
  <1>4. CASE Decide(b.risk, Today, Limits, s) # "OK"
    <2>1. h.book = Evaluated(b, r) /\ h.paper = p
      BY <1>4 DEF HandleSignal
    <2> HIDE DEF r
    <2> QED
      BY <1>2, <2>1, EvaluatedGood
  <1>5. CASE Decide(b.risk, Today, Limits, s) = "OK"
    <2>1. h.book = Opened(b, r2, t) /\ h.paper = PlaceOrder(p, c.symbol, b.next)
      BY <1>5 DEF HandleSignal
    <2>2. ~(Lots(r, sig) <= 0)
      BY <1>1, <1>5, AcceptedLots
    <2> HIDE DEF r, r2
    <2>3. /\ t \in TradeSet /\ t.id = b.next /\ t.symbol = c.symbol
          /\ Sized(t) /\ t.opened = Len(rows) + 1 /\ QuoteInside(p, t)
      BY <1>1, <1>2, <2>2, TradeIs
    <2> HIDE DEF t
    <2>4. Len(rs) = Len(rows) + 1
      <3>1. c \in BarSet
        BY DEF IsBar
      <3> QED
        BY <3>1, AppendProperties
    <2>5. Good(Opened(b, r2, t), PlaceOrder(p, t.symbol, b.next), rs)
      BY <1>3, <2>3, <2>4, OpenedGood
    <2> QED
      BY <2>1, <2>3, <2>5
  <1> QED
    BY <1>4, <1>5

LEMMA RowKeeps ==
    ASSUME Good(book, paper, rows), Row
    PROVE  Good(book', paper', rows') /\ phase' = phase
  <1>1. PICK s \in Symbols, shape \in BarShapes :
          LET c == [symbol |-> s, low |-> shape.low, high |-> shape.high,
                    close |-> shape.close]
              p == SetQuote(paper, s, c.close)
              b == CheckSlTp(book, c, Today)
          IN  /\ rows' = Append(rows, c)
              /\ \/ book' = b /\ paper' = p
                 \/ \E sig \in SignalsOn(c) :
                      LET h == HandleSignal(b, p, c, sig, Today)
                      IN  book' = h.book /\ paper' = h.paper
    BY DEF Row
  <1> DEFINE c == [symbol |-> s, low |-> shape.low, high |-> shape.high,
                   close |-> shape.close]
             p == SetQuote(paper, c.symbol, c.close)
             b == CheckSlTp(book, c, Today)
  <1>2. IsBar(c)
    BY BacktestAssumption DEF IsBar, BarSet
  <1>3. c.symbol = s
    OBVIOUS
  <1>4. /\ rows' = Append(rows, c)
        /\ \/ book' = b /\ paper' = p
           \/ \E sig \in SignalsOn(c) :
                LET h == HandleSignal(b, p, c, sig, Today)
                IN  book' = h.book /\ paper' = h.paper
    BY <1>1
  <1> HIDE DEF c
  <1>5. Good(b, p, Append(rows, c))
    BY <1>2, AfterSweep
  <1>6. p.quotes[c.symbol]
          = {[bid |-> c.close - HalfSpread, ask |-> c.close + HalfSpread]}
    BY <1>2, SetQuoteIs DEF Good
  <1>7. rows \in Seq(BarSet)
    BY DEF Good
  <1> HIDE DEF b, p
  <1>8. CASE book' = b /\ paper' = p
    BY <1>4, <1>5, <1>8 DEF Row
  <1>9. CASE \E sig \in SignalsOn(c) :
                LET h == HandleSignal(b, p, c, sig, Today)
                IN  book' = h.book /\ paper' = h.paper
    <2>1. PICK sig \in SignalsOn(c) :
                LET h == HandleSignal(b, p, c, sig, Today)
                IN  book' = h.book /\ paper' = h.paper
      BY <1>9
    <2> DEFINE h == HandleSignal(b, p, c, sig, Today)
    <2>2. book' = h.book /\ paper' = h.paper
      BY <2>1
    <2>3. h = HandleSignal(b, p, c, sig, Today)
      OBVIOUS
    <2> HIDE DEF h
    <2>4. Good(h.book, h.paper, Append(rows, c))
      BY <1>2, <1>5, <1>6, <1>7, <2>3, SignalKeeps
    <2> QED
      BY <1>4, <2>2, <2>4 DEF Row
  <1> QED
    BY <1>4, <1>8, <1>9
-----------------------------------------------------------------------------
(***************************************************************************)
(* The end of the replay: every trade still open is closed at the last      *)
(* quote of its symbol, and recorded twice.                                 *)
(***************************************************************************)
EndDay == (Len(rows) - 1) \div BarsPerDay

LEMMA ForceCloseIs ==
    ASSUME rows \in Seq(BarSet), rows # <<>>, NEW a, BookOK(a),
           NEW t \in TradeSet, EndPrice(paper, t) \in Int,
           NEW q, q = ForceClose(a, t),
           NEW x, x = Closing(t, EndPrice(paper, t), "backtest_end")
    PROVE  /\ BookOK(q) /\ x \in ClosingSet
           /\ q.risk = AfterTradeClose(a.risk, EndDay, x.pnl) /\ EndDay \in Nat
           /\ DOMAIN q.open = DOMAIN a.open \ {t.id}
           /\ \A k \in DOMAIN q.open : q.open[k] = a.open[k]
           /\ q.next = a.next
           /\ \E s : Longer(s, a.closed, x) /\ Longer(q.closed, s, x)
           /\ \E s : /\ Longer(s, a.equity, Last(a.equity) + x.pnl)
                     /\ Longer(q.equity, s, Last(s) + x.pnl)
  <1> DEFINE exit == EndPrice(paper, t)
             day == EndDay
             reason == "backtest_end"
             b == CloseTrade(a, t, day, exit, reason)
  <1>1. day \in Nat /\ Len(rows) \in Nat
    <2>1. Len(rows) \in Nat \ {0}
      BY LenProperties, EmptySeq
    <2>2. BarsPerDay \in Nat \ {0}
      BY BacktestAssumption
    <2> QED
      BY <2>1, <2>2 DEF EndDay
  <1>2. reason \in ClosingReasons
    BY DEF ClosingReasons
  <1>3. q = Record(b, Last(b.closed))
    BY DEF ForceClose, EndPrice, EndDay
  <1>4. x = Closing(t, exit, reason) /\ exit \in Int
    OBVIOUS
  <1>5. b = CloseTrade(a, t, day, exit, reason)
    OBVIOUS
  <1> HIDE DEF exit, day, reason, b
  <1>6. x \in ClosingSet /\ x.pnl = Pnl(t, exit)
    BY <1>1, <1>2, <1>4, ClosingIs
  <1>7. /\ BookOK(b)
        /\ b.risk = AfterTradeClose(a.risk, day, Pnl(t, exit))
        /\ DOMAIN b.open = DOMAIN a.open \ {t.id}
        /\ \A k \in DOMAIN b.open : b.open[k] = a.open[k]
        /\ b.next = a.next
        /\ Longer(b.equity, a.equity, Last(a.equity) + x.pnl)
        /\ Longer(b.closed, a.closed, x)
    BY <1>1, <1>2, <1>4, <1>5, CloseTradeIs
  <1>8. Last(b.closed) = x
    <2>1. a.closed \in Seq(ClosingSet) /\ b.closed = Append(a.closed, x)
      BY <1>7 DEF BookOK, Longer
    <2>2. /\ Len(b.closed) = Len(a.closed) + 1
          /\ b.closed[Len(a.closed) + 1] = x
      BY <1>6, <2>1, AppendProperties
    <2> QED
      BY <2>2 DEF Last
  <1>9. /\ BookOK(Record(b, x))
        /\ Record(b, x).risk = b.risk
        /\ Record(b, x).open = b.open
        /\ Record(b, x).next = b.next
        /\ Record(b, x).equity = Append(b.equity, Last(b.equity) + x.pnl)
        /\ Record(b, x).closed = Append(b.closed, x)
    BY <1>6, <1>7, RecordIs
  <1>10. /\ BookOK(q) /\ q.risk = b.risk /\ q.open = b.open /\ q.next = b.next
         /\ Longer(q.equity, b.equity, Last(b.equity) + x.pnl)
         /\ Longer(q.closed, b.closed, x)
    BY <1>3, <1>8, <1>9 DEF Longer
  <1> QED
    BY <1>1, <1>6, <1>7, <1>10 DEF day

\* A trade recorded as closed, during the replay or at its end.
ClosedFine(x, rs) == LossFine(x) /\ (ExitFine(x, rs) \/ EndFine(x, rs))

\* The book while the closing loop is at the trades up to n.
Closed(a, n) ==
    /\ BookOK(a) /\ a.next = book.next
    /\ DOMAIN a.open \subseteq DOMAIN book.open
    /\ \A k \in DOMAIN a.open : k > n
    /\ \A i \in 1..Len(a.closed) : ClosedFine(a.closed[i], rows)

LEMMA AppendAll ==
    ASSUME NEW s \in Seq(ClosingSet), NEW x \in ClosingSet, NEW s2, Longer(s2, s, x),
           NEW rs, \A i \in 1..Len(s) : ClosedFine(s[i], rs), ClosedFine(x, rs)
    PROVE  s2 \in Seq(ClosingSet) /\ \A i \in 1..Len(s2) : ClosedFine(s2[i], rs)
  <1>1. /\ Len(s) \in Nat /\ s2 \in Seq(ClosingSet) /\ Len(s2) = Len(s) + 1
        /\ \A i \in 1..Len(s) : s2[i] = s[i]
        /\ s2[Len(s) + 1] = x
    BY LenProperties, AppendProperties DEF Longer
  <1>2. ASSUME NEW i \in 1..Len(s2) PROVE ClosedFine(s2[i], rs)
    <2>1. i = Len(s) + 1 \/ i \in 1..Len(s)
      BY <1>1
    <2> QED
      BY <1>1, <2>1
  <1> QED
    BY <1>1, <1>2

LEMMA FinishKeeps ==
    ASSUME Good(book, paper, rows), rows # <<>>,
           NEW n \in 1..(book.next - 1), NEW a, Closed(a, n - 1)
    PROVE  Closed(FinishStep(a, n), n)
  <1>0. /\ book.next \in Nat /\ n \in Nat /\ rows \in Seq(BarSet)
        /\ \A k \in DOMAIN book.open : k \in Nat
        /\ DOMAIN a.open \subseteq DOMAIN book.open
        /\ \A k \in DOMAIN a.open : k > n - 1
    BY DEF Good, BookOK, Closed
  <1>1. CASE n \notin DOMAIN book.open
    <2>1. FinishStep(a, n) = a
      BY <1>1 DEF FinishStep
    <2>2. ASSUME NEW k \in DOMAIN a.open PROVE k > n
      <3>1. k \in Nat /\ k # n /\ k > n - 1
        BY <1>0, <1>1
      <3> QED
        BY <1>0, <3>1
    <2> QED
      BY <2>1, <2>2 DEF Closed
  <1>2. CASE n \in DOMAIN book.open
    <2> DEFINE t == book.open[n]
               exit == EndPrice(paper, t)
               reason == "backtest_end"
               x == Closing(t, exit, reason)
               q == ForceClose(a, t)
    <2>1. /\ t \in TradeSet /\ t.id = n /\ Sized(t) /\ QuoteInside(paper, t)
          /\ Hits(t, rows) = {} /\ BookOK(a)
      BY <1>2 DEF Good, BookOK, OpenOK, Closed
    <2>2. FinishStep(a, n) = q
      BY <1>2 DEF FinishStep
    <2>3. q = ForceClose(a, t) /\ x = Closing(t, EndPrice(paper, t), "backtest_end")
      OBVIOUS
    <2> HIDE DEF t, q
    <2>4. exit \in Int /\ -Pnl(t, exit) <= t.budget + 2 * HalfSpread * Unit * t.lots
      BY <2>1, EndLoss
    <2>5. /\ x.trade = t /\ x.pnl = Pnl(t, exit) /\ x.reason = "backtest_end"
      <3>1. reason \in ClosingReasons /\ Len(rows) \in Nat
        BY <1>0, LenProperties DEF ClosingReasons
      <3> HIDE DEF exit, reason
      <3>2. x.trade = t /\ x.pnl = Pnl(t, exit) /\ x.reason = reason
        BY <2>1, <2>4, <3>1, ClosingIs
      <3> QED
        BY <3>2 DEF reason
    <2> HIDE DEF x
    <2>6. /\ BookOK(q) /\ x \in ClosingSet
          /\ DOMAIN q.open = DOMAIN a.open \ {t.id}
          /\ q.next = a.next
          /\ \E s : Longer(s, a.closed, x) /\ Longer(q.closed, s, x)
      <3>1. EndPrice(paper, t) \in Int
        BY <2>4
      <3> HIDE DEF exit
      <3> QED
        BY <1>0, <2>1, <2>3, <3>1, ForceCloseIs
    <2>7. ClosedFine(x, rows)
      BY <2>1, <2>4, <2>5 DEF ClosedFine, LossFine, EndFine
    <2>8. \A i \in 1..Len(q.closed) : ClosedFine(q.closed[i], rows)
      <3>1. PICK s : Longer(s, a.closed, x) /\ Longer(q.closed, s, x)
        BY <2>6
      <3>2. a.closed \in Seq(ClosingSet)
            /\ \A i \in 1..Len(a.closed) : ClosedFine(a.closed[i], rows)
        BY <2>1 DEF Closed, BookOK
      <3>3. s \in Seq(ClosingSet) /\ \A i \in 1..Len(s) : ClosedFine(s[i], rows)
        BY <2>6, <2>7, <3>1, <3>2, AppendAll
      <3> QED
        BY <2>6, <2>7, <3>1, <3>3, AppendAll
    <2>9. ASSUME NEW k \in DOMAIN q.open PROVE k > n /\ k \in DOMAIN book.open
      <3>1. k \in DOMAIN a.open /\ k # n /\ k \in Nat /\ k > n - 1
        BY <1>0, <2>1, <2>6
      <3> QED
        BY <1>0, <3>1
    <2>10. q.next = book.next
      BY <2>6 DEF Closed
    <2>11. Closed(q, n)
      BY <2>6, <2>8, <2>9, <2>10 DEF Closed
    <2> QED
      BY <2>2, <2>11
  <1> QED
    BY <1>1, <1>2

LEMMA FinishIs ==
    ASSUME Good(book, paper, rows), rows # <<>>
    PROVE  Closed(FinishLoop[book.next - 1], book.next - 1)
  <1> DEFINE N == book.next - 1
             f == FinishLoop
             S == {n \in 0..N : Closed(f[n], n)}
  <1>1. book.next \in Nat \ {0} /\ N \in Nat
    BY DEF Good, BookOK
  <1>2. /\ f[0] = book
        /\ \A n \in 1..N : f[n] = FinishStep(f[n - 1], n)
    BY <1>1, FinishLoopIs
  <1> HIDE DEF f
  <1>3. 0 \in S
    <2>1. \A k \in DOMAIN book.open : k > 0
      BY DEF Good, BookOK
    <2>2. Closed(book, 0)
      BY <2>1 DEF Closed, ClosedFine, Good
    <2> QED
      BY <1>1, <1>2, <2>2
  <1>4. ASSUME NEW k \in 0..N, k < N, k \in S PROVE k + 1 \in S
    <2>1. /\ k + 1 \in 1..(book.next - 1) /\ k + 1 \in 0..N
          /\ (k + 1) - 1 = k
      BY <1>1, <1>4
    <2>2. Closed(f[k], (k + 1) - 1)
      BY <1>4, <2>1
    <2>3. Closed(FinishStep(f[k], k + 1), k + 1)
      BY <2>1, <2>2, FinishKeeps
    <2>4. f[k + 1] = FinishStep(f[k], k + 1)
      BY <1>2, <2>1
    <2> QED
      BY <2>1, <2>3, <2>4
  <1>5. N \in S
    <2> HIDE DEF S, N
    <2>1. \A k \in 0..N : k < N /\ k \in S => k + 1 \in S
      BY <1>4
    <2>2. \A k \in 0..N : k \in S
      BY <1>1, <1>3, <2>1, SegmentInduction
    <2> QED
      BY <1>1, <2>2
  <1>6. Closed(f[N], N)
    BY <1>5
  <1> QED
    BY <1>6 DEF f

-----------------------------------------------------------------------------
(***************************************************************************)
(* The invariant of the replay program and what it implies.                 *)
(***************************************************************************)
Ended ==
    /\ BookOK(book) /\ PaperOK(paper) /\ rows \in Seq(BarSet)
    /\ DOMAIN book.open = {}
    /\ \A i \in 1..Len(book.closed) : ClosedFine(book.closed[i], rows)

BacktestInv ==
    /\ phase \in {"replay", "done"}
    /\ phase = "replay" => Good(book, paper, rows)
    /\ phase = "done" => Ended

LEMMA FreshType ==
    FreshManager(0) \in RiskType
  <1>1. StartingBalance \in Nat /\ 0 \in Nat
    BY SettingsAssumption
  <1> QED
    BY <1>1 DEF FreshManager, RiskType

LEMMA BacktestStarts ==
    ASSUME Init
    PROVE  BacktestInv
  <1>1. /\ book.risk = FreshManager(0) /\ DOMAIN book.open = {} /\ book.next = 1
        /\ book.equity = <<StartingBalance>> /\ book.closed = <<>>
    BY DEF Init
  <1>2. /\ StartingBalance \in Int
    BY SettingsAssumption
  <1>3. BookOK(book)
    BY <1>1, <1>2, FreshType DEF BookOK
  <1>4. PaperOK(paper)
    BY DEF Init, PaperOK
  <1>5. rows = <<>> /\ rows \in Seq(BarSet) /\ phase = "replay"
    BY DEF Init
  <1>6. Good(book, paper, rows)
    BY <1>1, <1>3, <1>4, <1>5 DEF Good
  <1> QED
    BY <1>5, <1>6 DEF BacktestInv

LEMMA BacktestStep ==
    ASSUME BacktestInv, Next
    PROVE  BacktestInv'
  <1>1. CASE Row
    <2>1. phase = "replay" /\ Good(book, paper, rows)
      BY <1>1 DEF Row, BacktestInv
    <2>2. Good(book', paper', rows') /\ phase' = phase
      BY <1>1, <2>1, RowKeeps
    <2> QED
      BY <2>1, <2>2 DEF BacktestInv
  <1>2. CASE Finish
    <2> DEFINE N == book.next - 1
               a == FinishLoop[N]
    <2>1. /\ phase = "replay" /\ Good(book, paper, rows) /\ rows # <<>>
          /\ book' = a /\ phase' = "done" /\ UNCHANGED <<paper, rows>>
      BY <1>2 DEF Finish, BacktestInv
    <2>2. Closed(a, N)
      BY <2>1, FinishIs
    <2> HIDE DEF a
    <2>3. DOMAIN a.open = {}
      <3>1. ASSUME NEW k \in DOMAIN a.open PROVE FALSE
        <4>1. k \in DOMAIN book.open /\ k > N
          BY <2>2, <3>1 DEF Closed
        <4>2. k \in 1..N /\ N \in Nat
          BY <2>1, <4>1 DEF Good, BookOK
        <4> QED
          BY <4>1, <4>2
      <3> QED
        BY <3>1
    <2>4. /\ BookOK(a) /\ \A i \in 1..Len(a.closed) : ClosedFine(a.closed[i], rows)
      BY <2>2 DEF Closed
    <2>5. Ended'
      BY <2>1, <2>3, <2>4 DEF Ended, Good
    <2> QED
      BY <2>1, <2>5 DEF BacktestInv
  <1> QED
    BY <1>1, <1>2 DEF Next

\* The replay keeps its invariant, whatever the other program does.
THEOREM BacktestInvariant == BacktestSpec => []BacktestInv
  <1>1. Start => BacktestInv
    BY BacktestStarts DEF Start
  <1>2. BacktestInv /\ [EngineStep \/ RunnerStep]_<<program, engineVars, runnerVars>>
          => BacktestInv'
    <2> SUFFICES ASSUME BacktestInv,
                        [EngineStep \/ RunnerStep]_<<program, engineVars, runnerVars>>
                 PROVE  BacktestInv'
      OBVIOUS
    <2>1. CASE EngineStep
      BY <2>1, BacktestStep DEF EngineStep
    <2>2. CASE UNCHANGED engineVars
      BY <2>2 DEF engineVars, vars, BacktestInv, Good, Ended, BookOK, PaperOK,
                  OpenOK, QuoteInside, ClosedFine
    <2> QED
      BY <2>1, <2>2 DEF RunnerStep
  <1> QED
    BY <1>1, <1>2, PTL DEF BacktestSpec
LEMMA ClosedIs ==
    ASSUME BacktestInv, NEW i \in DOMAIN book.closed
    PROVE  book.closed[i] \in ClosingSet /\ ClosedFine(book.closed[i], rows)
  <1>1. BookOK(book) /\ phase \in {"replay", "done"}
    BY DEF BacktestInv, Good, Ended
  <1>2. book.closed \in Seq(ClosingSet)
    BY <1>1 DEF BookOK
  <1>3. i \in 1..Len(book.closed)
    BY <1>2, LenProperties
  <1>4. ClosedFine(book.closed[i], rows)
    BY <1>3 DEF BacktestInv, Good, Ended, ClosedFine
  <1> QED
    BY <1>2, <1>3, <1>4, ElementOfSeq

LEMMA MinIs ==
    ASSUME NEW S \in SUBSET Int, NEW m \in S, \A k \in S : m <= k
    PROVE  Min(S) = m
  <1>1. \E x \in S : \A y \in S : x <= y
    OBVIOUS
  <1>2. Min(S) \in S /\ \A y \in S : Min(S) <= y
    BY <1>1 DEF Min
  <1>3. Min(S) <= m /\ m <= Min(S) /\ Min(S) \in Int /\ m \in Int
    BY <1>2
  <1> QED
    BY <1>3

LEMMA MaxIs ==
    ASSUME NEW S \in SUBSET Int, NEW m \in S, \A k \in S : k <= m
    PROVE  Max(S) = m
  <1>1. \E x \in S : \A y \in S : x >= y
    OBVIOUS
  <1>2. Max(S) \in S /\ \A y \in S : Max(S) >= y
    BY <1>1 DEF Max
  <1>3. Max(S) <= m /\ m <= Max(S) /\ Max(S) \in Int /\ m \in Int
    BY <1>2
  <1> QED
    BY <1>3

(***************************************************************************)
(* No closed trade loses more than its budget and the two half spreads,     *)
(* whatever the bars do: the close fills at the stop, the target or a quote *)
(* that has not met the stop (_check_sl_tp, the end of run()).              *)
(***************************************************************************)
THEOREM LossBoundedHolds == BacktestSpec => []LossBounded
  <1>1. BacktestInv => LossBounded
    <2> SUFFICES ASSUME BacktestInv, NEW i \in DOMAIN book.closed
                 PROVE  LossFine(book.closed[i])
      BY DEF LossBounded, LossFine, Unit
    <2> QED
      BY ClosedIs DEF ClosedFine
  <1> QED
    BY <1>1, BacktestInvariant, PTL

(***************************************************************************)
(* _check_sl_tp closes each trade on the first later bar of its symbol that *)
(* reaches a level, at the stop if both are reached; what is open, or is    *)
(* closed by the end of the history, has met no such bar.                   *)
(***************************************************************************)
THEOREM ExitsMatchHistoryHolds == BacktestSpec => []ExitsMatchHistory
  <1>1. BacktestInv => ExitsMatchHistory
    <2> SUFFICES ASSUME BacktestInv PROVE ExitsMatchHistory
      OBVIOUS
    <2>1. ASSUME NEW i \in DOMAIN book.open PROVE Hits(book.open[i], rows) = {}
      BY <2>1 DEF BacktestInv, Good, Ended, OpenOK
    <2>2. ASSUME NEW i \in DOMAIN book.closed,
                 book.closed[i].reason = "backtest_end"
          PROVE  Hits(book.closed[i].trade, rows) = {}
      BY <2>2, ClosedIs DEF ClosedFine, ExitFine, EndFine
    <2>3. ASSUME NEW i \in DOMAIN book.closed,
                 book.closed[i].reason # "backtest_end"
          PROVE  LET x == book.closed[i]
                     t == x.trade
                 IN  /\ Hits(t, rows) # {} /\ x.row = Min(Hits(t, rows))
                     /\ x.exit = IF StopHit(t, rows[x.row]) THEN t.sl ELSE t.tp
      <3> DEFINE x == book.closed[i]
                 t == x.trade
      <3>1. x \in ClosingSet /\ ExitFine(x, rows)
        BY <2>3, ClosedIs DEF ClosedFine, EndFine
      <3>2. /\ x.row \in Hits(t, rows) /\ \A k \in Hits(t, rows) : x.row <= k
            /\ x.exit = IF StopHit(t, rows[x.row]) THEN t.sl ELSE t.tp
        BY <3>1 DEF ExitFine
      <3>3. Hits(t, rows) \in SUBSET Int
        BY DEF Hits
      <3> HIDE DEF x, t
      <3>4. Min(Hits(t, rows)) = x.row
        BY <3>2, <3>3, MinIs
      <3>5. Hits(t, rows) # {}
        BY <3>2
      <3> QED
        BY <3>2, <3>4, <3>5 DEF x, t
    <2> QED
      BY <2>1, <2>2, <2>3 DEF ExitsMatchHistory, Hits, HitBy
  <1> QED
    BY <1>1, BacktestInvariant, PTL
-----------------------------------------------------------------------------
(***************************************************************************)
(* max_drawdown.  One fall is worse than another when the fraction of its   *)
(* peak is larger; the running peak is the highest point so far, so the     *)
(* fall from it is the worst that ends at the point the loop has reached.   *)
(***************************************************************************)
FallSet == [loss : Int, peak : Nat \ {0}]

Fallen(e, i, j) == [loss |-> e[i] - e[j], peak |-> e[i]]

LEMMA ProductCancel ==
    ASSUME NEW a \in Int, NEW b \in Int, NEW n \in Nat \ {0}, a * n <= b * n
    PROVE  a <= b
  <1> SUFFICES ASSUME b + 1 <= a PROVE FALSE
    OBVIOUS
  <1>1. (b + 1) * n <= a * n
    BY ProductMonotone
  <1>2. (b + 1) * n = b * n + n
    BY ProductSum
  <1>3. b * n \in Int /\ a * n \in Int
    BY ProductInt
  <1> QED
    BY <1>1, <1>2, <1>3

LEMMA FractionOrder ==
    ASSUME NEW a \in Int, NEW b \in Int, NEW c \in Int,
           NEW p \in Nat \ {0}, NEW q \in Nat \ {0}, NEW r \in Nat \ {0},
           a * q <= b * p, b * r <= c * q
    PROVE  a * r <= c * p
  <1>1. a * q \in Int /\ b * p \in Int /\ b * r \in Int /\ c * q \in Int
        /\ a * r \in Int /\ c * p \in Int
    BY ProductInt
  <1>2. (a * q) * r <= (b * p) * r /\ (b * r) * p <= (c * q) * p
    BY <1>1, ProductMonotone
  <1>3. (a * q) * r = (a * r) * q /\ (b * p) * r = (b * r) * p /\ (c * q) * p = (c * p) * q
    BY ProductAssoc, ProductSwap
  <1>4. (a * r) * q <= (c * p) * q
    <2>1. (a * q) * r \in Int /\ (b * p) * r \in Int /\ (c * q) * p \in Int
      BY <1>1, ProductInt
    <2> QED
      BY <1>2, <1>3, <2>1
  <1> QED
    BY <1>1, <1>4, ProductCancel

LEMMA ExceedsOrder ==
    ASSUME NEW x \in FallSet, NEW y \in FallSet, NEW z \in FallSet,
           ~Exceeds(x, y), ~Exceeds(y, z)
    PROVE  ~Exceeds(x, z)
  <1>1. /\ x.loss \in Int /\ y.loss \in Int /\ z.loss \in Int
        /\ x.peak \in Nat \ {0} /\ y.peak \in Nat \ {0} /\ z.peak \in Nat \ {0}
    BY DEF FallSet
  <1>2. /\ x.loss * y.peak \in Int /\ y.loss * x.peak \in Int
        /\ y.loss * z.peak \in Int /\ z.loss * y.peak \in Int
        /\ x.loss * z.peak \in Int /\ z.loss * x.peak \in Int
    BY <1>1, ProductInt
  <1>3. x.loss * y.peak <= y.loss * x.peak
    BY <1>2 DEF Exceeds
  <1>4. y.loss * z.peak <= z.loss * y.peak
    BY <1>2 DEF Exceeds
  <1>5. x.loss * z.peak <= z.loss * x.peak
    BY <1>1, <1>3, <1>4, FractionOrder
  <1> QED
    BY <1>2, <1>5 DEF Exceeds

\* Of two falls the worse one is exceeded by neither.
LEMMA WorseIs ==
    ASSUME NEW x \in FallSet, NEW y \in FallSet
    PROVE  /\ Worse(x, y) \in {x, y}
           /\ ~Exceeds(x, Worse(x, y)) /\ ~Exceeds(y, Worse(x, y))
  <1>1. /\ x.loss \in Int /\ y.loss \in Int
        /\ x.peak \in Nat \ {0} /\ y.peak \in Nat \ {0}
    BY DEF FallSet
  <1>2. /\ x.loss * y.peak \in Int /\ y.loss * x.peak \in Int
        /\ x.loss * x.peak \in Int /\ y.loss * y.peak \in Int
    BY <1>1, ProductInt
  <1>3. CASE Exceeds(x, y)
    <2>1. Worse(x, y) = x
      BY <1>3 DEF Worse
    <2>2. ~Exceeds(y, x) /\ ~Exceeds(x, x)
      BY <1>2, <1>3 DEF Exceeds
    <2> QED
      BY <2>1, <2>2
  <1>4. CASE ~Exceeds(x, y)
    <2>1. Worse(x, y) = y
      BY <1>4 DEF Worse
    <2>2. ~Exceeds(y, y)
      BY <1>2 DEF Exceeds
    <2> QED
      BY <1>4, <2>1, <2>2
  <1> QED
    BY <1>3, <1>4

\* To one point, the fall from a higher peak is at least as bad.
LEMMA HigherPeak ==
    ASSUME NEW u \in Nat \ {0}, NEW top \in Nat \ {0}, NEW v \in Nat, u <= top
    PROVE  ~Exceeds([loss |-> u - v, peak |-> u], [loss |-> top - v, peak |-> top])
  <1>1. u * v <= top * v
    BY ProductMonotone
  <1>2. /\ (u + (-v)) * top = u * top + (-v) * top
        /\ (top + (-v)) * u = top * u + (-v) * u
    BY ProductSum
  <1>3. u - v = u + (-v) /\ top - v = top + (-v)
    OBVIOUS
  <1>4. (-v) * top = -(v * top) /\ (-v) * u = -(v * u)
    BY ProductMinus
  <1>5. u * top = top * u /\ v * top = top * v /\ v * u = u * v
    BY ProductSwap
  <1>6. u * top \in Int /\ v * top \in Int /\ v * u \in Int
    BY ProductInt
  <1>7. (u - v) * top <= (top - v) * u
    BY <1>1, <1>2, <1>3, <1>4, <1>5, <1>6
  <1>8. (u - v) * top \in Int /\ (top - v) * u \in Int
    <2>1. u - v \in Int /\ top - v \in Int
      OBVIOUS
    <2> QED
      BY <2>1, ProductInt
  <1> QED
    BY <1>7, <1>8 DEF Exceeds

\* What the loop knows after n points.
Peaked(e, a, n) ==
    /\ a.top \in Nat \ {0} /\ a.dd \in FallSet
    /\ \A i \in 1..n : e[i] <= a.top
    /\ a.top = StartingBalance \/ \E i \in 1..n : a.top = e[i]
    /\ \A j \in 1..n : \A i \in 1..j : ~Exceeds(Fallen(e, i, j), a.dd)
    /\ a.dd = NoFall \/ \E j \in 1..n : \E i \in 1..j : Fallen(e, i, j) = a.dd

\* A curve that starts at the starting balance and stays above zero.
Curve(e) ==
    /\ e \in Seq(Int) /\ e # <<>> /\ e[1] = StartingBalance
    /\ \A i \in 1..Len(e) : e[i] > 0

LEMMA DrawdownKeeps ==
    ASSUME NEW e, Curve(e), NEW n \in 1..Len(e), NEW a, Peaked(e, a, n - 1),
           NEW q, q = DrawdownStep(e, a, n)
    PROVE  Peaked(e, q, n)
  <1> DEFINE v == e[n]
             top == MaxOf(a.top, v)
             x == [loss |-> top - v, peak |-> top]
  <1>0. /\ Len(e) \in Nat /\ n \in Nat /\ 1 \in 1..n /\ n \in 1..n
        /\ \A i \in 1..n : e[i] \in Nat \ {0}
        /\ \A i \in 1..(n - 1) : i \in 1..n
        /\ \A i \in 1..n : i = n \/ i \in 1..(n - 1)
    <2>1. e \in Seq(Int) /\ Len(e) \in Nat
      BY LenProperties DEF Curve
    <2>2. \A i \in 1..Len(e) : e[i] \in Int /\ e[i] > 0
      BY <2>1, ElementOfSeq DEF Curve
    <2> QED
      BY <2>1, <2>2
  <1>1. q.top = top /\ q.dd = Worse(x, a.dd)
    BY DEF DrawdownStep
  <1>2. /\ a.top \in Nat \ {0} /\ a.dd \in FallSet /\ v \in Nat \ {0}
    BY <1>0 DEF Peaked
  <1>3. /\ top \in Nat \ {0} /\ top >= v /\ top >= a.top /\ (top = v \/ top = a.top)
    <2> HIDE DEF v
    <2> QED
      BY <1>2 DEF MaxOf
  <1>4. x \in FallSet
    BY <1>2, <1>3 DEF FallSet
  <1>5. \A i \in 1..n : e[i] <= top
    <2> TAKE i \in 1..n
    <2>1. CASE i = n
      BY <1>3, <2>1
    <2>2. CASE i \in 1..(n - 1)
      <3>1. e[i] <= a.top /\ e[i] \in Nat
        BY <1>0, <2>2 DEF Peaked
      <3> HIDE DEF top
      <3> QED
        BY <1>2, <1>3, <3>1
    <2> QED
      BY <1>0, <2>1, <2>2
  <1> HIDE DEF v, top
  <1>6. top = StartingBalance \/ \E i \in 1..n : top = e[i]
    BY <1>0, <1>3 DEF Peaked, v
  <1>7. \E i \in 1..n : Fallen(e, i, n) = x
    <2>1. \E i \in 1..n : top = e[i]
      BY <1>0, <1>6 DEF Curve
    <2> QED
      BY <2>1 DEF Fallen, v
  <1>8. /\ Worse(x, a.dd) \in {x, a.dd}
        /\ ~Exceeds(x, Worse(x, a.dd)) /\ ~Exceeds(a.dd, Worse(x, a.dd))
    <2> HIDE DEF x
    <2> QED
      BY <1>2, <1>4, WorseIs
  <1>9. q.dd \in FallSet
    BY <1>1, <1>2, <1>4, <1>8
  <1>10. ASSUME NEW j \in 1..n, NEW i \in 1..j
         PROVE  Fallen(e, i, j) \in FallSet
    <2>1. i \in 1..n
      BY <1>0
    <2>2. e[i] \in Nat \ {0} /\ e[j] \in Nat \ {0}
      BY <1>0, <2>1
    <2> QED
      BY <2>2 DEF Fallen, FallSet
  <1>11. ASSUME NEW j \in 1..n, NEW i \in 1..j
         PROVE  ~Exceeds(Fallen(e, i, j), q.dd)
    <2>1. Fallen(e, i, j) \in FallSet
      BY <1>10
    <2>2. CASE j = n
      <3>1. i \in 1..n /\ e[i] \in Nat \ {0} /\ e[i] <= top
        BY <1>0, <1>5, <2>2
      <3>2. Fallen(e, i, j) = [loss |-> e[i] - v, peak |-> e[i]]
        BY <2>2 DEF Fallen, v
      <3>3. ~Exceeds(Fallen(e, i, j), x)
        <4> DEFINE u == e[i]
        <4>1. u \in Nat \ {0} /\ u <= top /\ v \in Nat
          BY <1>2, <3>1
        <4> HIDE DEF u
        <4>2. ~Exceeds([loss |-> u - v, peak |-> u], x)
          BY <1>3, <4>1, HigherPeak
        <4> QED
          BY <3>2, <4>2 DEF u
      <3> HIDE DEF x
      <3> QED
        BY <1>1, <1>4, <1>8, <1>9, <2>1, <3>3, ExceedsOrder
    <2>3. CASE j # n
      <3>1. j \in 1..(n - 1)
        BY <1>0, <2>3
      <3>2. ~Exceeds(Fallen(e, i, j), a.dd)
        BY <3>1 DEF Peaked
      <3> HIDE DEF x
      <3> QED
        BY <1>1, <1>2, <1>8, <1>9, <2>1, <3>2, ExceedsOrder
    <2> QED
      BY <2>2, <2>3
  <1>12. q.dd = NoFall \/ \E j \in 1..n : \E i \in 1..j : Fallen(e, i, j) = q.dd
    <2>1. CASE q.dd = x
      BY <1>0, <1>7, <2>1
    <2>2. CASE q.dd = a.dd
      BY <1>0, <2>2 DEF Peaked
    <2> QED
      BY <1>1, <1>8, <2>1, <2>2
  <1> QED
    BY <1>1, <1>3, <1>5, <1>6, <1>9, <1>11, <1>12 DEF Peaked

LEMMA DrawdownIs ==
    ASSUME NEW e, Curve(e)
    PROVE  Peaked(e, DrawdownLoop(e)[Len(e)], Len(e))
  <1> DEFINE N == Len(e)
             f == DrawdownLoop(e)
             S == {n \in 0..N : Peaked(e, f[n], n)}
  <1>1. N \in Nat
    BY LenProperties DEF Curve
  <1>2. /\ f[0] = Flat
        /\ \A n \in 1..N : f[n] = DrawdownStep(e, f[n - 1], n)
    BY <1>1, DrawdownLoopIs
  <1> HIDE DEF f
  <1>3. 0 \in S
    <2>1. Peaked(e, Flat, 0)
      BY SettingsAssumption DEF Peaked, Flat, NoFall, FallSet
    <2> QED
      BY <1>1, <1>2, <2>1
  <1>4. ASSUME NEW k \in 0..N, k < N, k \in S PROVE k + 1 \in S
    <2>1. /\ k + 1 \in 1..Len(e) /\ k + 1 \in 0..N
          /\ (k + 1) - 1 = k
      BY <1>1, <1>4
    <2>2. Peaked(e, f[k], (k + 1) - 1)
      BY <1>4, <2>1
    <2>3. f[k + 1] = DrawdownStep(e, f[k], k + 1)
      BY <1>2, <2>1
    <2>4. Peaked(e, f[k + 1], k + 1)
      BY <2>1, <2>2, <2>3, DrawdownKeeps
    <2> QED
      BY <2>1, <2>4
  <1>5. N \in S
    <2> HIDE DEF S, N
    <2>1. \A k \in 0..N : k < N /\ k \in S => k + 1 \in S
      BY <1>4
    <2>2. \A k \in 0..N : k \in S
      BY <1>1, <1>3, <2>1, SegmentInduction
    <2> QED
      BY <1>1, <2>2
  <1>6. Peaked(e, f[N], N)
    BY <1>5
  <1> QED
    BY <1>6 DEF f

(***************************************************************************)
(* TradeStatsAggregator.max_drawdown returns the worst relative fall from   *)
(* any point of the equity curve to a later one, for every curve.           *)
(***************************************************************************)
THEOREM DrawdownExactHolds == BacktestSpec => []DrawdownExact
  <1>1. BacktestInv => DrawdownExact
    <2> SUFFICES ASSUME BacktestInv, \A i \in 1..Len(book.equity) : book.equity[i] > 0
                 PROVE  LET n == Len(book.equity)
                            Fall(i, j) == [loss |-> book.equity[i] - book.equity[j],
                                           peak |-> book.equity[i]]
                            dd == MaxDrawdown(book.equity)
                        IN  /\ \A j \in 1..n : \A i \in 1..j : ~Exceeds(Fall(i, j), dd)
                            /\ dd.loss > 0 =>
                                 \E j \in 1..n : \E i \in 1..j : Fall(i, j) = dd
      BY DEF DrawdownExact
    <2> DEFINE e == book.equity
    <2>1. Curve(e)
      BY DEF BacktestInv, Good, Ended, BookOK, Curve
    <2> HIDE DEF e
    <2>2. Peaked(e, DrawdownLoop(e)[Len(e)], Len(e))
      BY <2>1, DrawdownIs
    <2>3. /\ \A j \in 1..Len(e) : \A i \in 1..j :
               ~Exceeds(Fallen(e, i, j), MaxDrawdown(e))
          /\ \/ MaxDrawdown(e) = NoFall
             \/ \E j \in 1..Len(e) : \E i \in 1..j : Fallen(e, i, j) = MaxDrawdown(e)
      BY <2>2 DEF Peaked, MaxDrawdown
    <2>4. NoFall.loss = 0
      BY DEF NoFall
    <2> QED
      BY <2>3, <2>4 DEF Fallen, e
  <1> QED
    BY <1>1, BacktestInvariant, PTL
-----------------------------------------------------------------------------
(***************************************************************************)
(* The two books of the money: the risk manager's balance and the equity    *)
(* curve of the statistics.  While the replay runs they move together.      *)
(***************************************************************************)
Booked(b) ==
    /\ Last(b.equity) = b.risk.currentBalance
    /\ \A i \in 1..Len(b.equity) : b.equity[i] <= b.risk.highWaterMark
    /\ \E i \in 1..Len(b.equity) : b.equity[i] = b.risk.highWaterMark
    /\ Len(b.closed) + Cardinality(DOMAIN b.open) = b.next - 1
    /\ \A i \in 1..Len(b.closed) :
         /\ b.closed[i].trade.id < b.next
         /\ b.closed[i].trade.id \notin DOMAIN b.open
    /\ \A i \in 1..Len(b.closed) : \A j \in 1..(i - 1) :
         b.closed[j].trade.id # b.closed[i].trade.id

LEMMA OpenFinite ==
    ASSUME NEW b, BookOK(b)
    PROVE  IsFiniteSet(DOMAIN b.open) /\ Cardinality(DOMAIN b.open) \in Nat
  <1>1. b.next - 1 \in Int /\ 1 \in Int /\ DOMAIN b.open \subseteq 1..(b.next - 1)
    BY DEF BookOK
  <1>2. IsFiniteSet(1..(b.next - 1))
    BY <1>1, FS_Interval
  <1>3. IsFiniteSet(DOMAIN b.open)
    BY <1>1, <1>2, FS_Subset
  <1> QED
    BY <1>3, FS_CardinalityType

LEMMA CloseBooked ==
    ASSUME NEW b, BookOK(b), Booked(b), NEW t \in TradeSet, t.id \in DOMAIN b.open,
           NEW day \in Nat, NEW exit \in Int, NEW reason \in ClosingReasons,
           Len(rows) \in Nat, NEW q, q = CloseTrade(b, t, day, exit, reason)
    PROVE  BookOK(q) /\ Booked(q)
  <1> DEFINE x == Closing(t, exit, reason)
             pnl == Pnl(t, exit)
             n == Len(b.equity)
             m == Len(b.closed)
  <1>1. x \in ClosingSet /\ x.trade = t /\ x.pnl = pnl
    BY ClosingIs
  <1>2. x = Closing(t, exit, reason)
    OBVIOUS
  <1> HIDE DEF x
  <1>3. /\ BookOK(q)
        /\ q.risk = AfterTradeClose(b.risk, day, pnl)
        /\ DOMAIN q.open = DOMAIN b.open \ {t.id}
        /\ q.next = b.next
        /\ Longer(q.equity, b.equity, Last(b.equity) + x.pnl)
        /\ Longer(q.closed, b.closed, x)
    BY <1>2, CloseTradeIs
  <1>4. pnl \in Int
    BY PnlInt
  <1> HIDE DEF pnl
  <1>5. /\ b.risk \in RiskType /\ b.equity \in Seq(Int) /\ b.equity # <<>>
        /\ b.closed \in Seq(ClosingSet) /\ b.next \in Nat
        /\ b.risk.currentBalance \in Int /\ b.risk.highWaterMark \in Int
    BY DEF BookOK, RiskType
  <1>6. /\ q.risk.currentBalance = b.risk.currentBalance + pnl
        /\ q.risk.highWaterMark = MaxOf(b.risk.highWaterMark, b.risk.currentBalance + pnl)
    <2> DEFINE r == b.risk
    <2>1. r \in RiskType /\ q.risk = AfterTradeClose(r, day, pnl)
      BY <1>3, <1>5
    <2> HIDE DEF r
    <2>2. /\ AfterTradeClose(r, day, pnl).currentBalance = r.currentBalance + pnl
          /\ AfterTradeClose(r, day, pnl).highWaterMark
               = MaxOf(r.highWaterMark, r.currentBalance + pnl)
      BY <1>4, <2>1, CloseMoney
    <2> QED
      BY <2>1, <2>2 DEF r
  <1>7. Last(b.equity) = b.risk.currentBalance
    BY DEF Booked
  <1> DEFINE v == b.risk.currentBalance + pnl
  <1>8. v \in Int /\ Last(b.equity) + x.pnl = v
    BY <1>1, <1>4, <1>5, <1>7
  <1>9. /\ n \in Nat \ {0} /\ Len(q.equity) = n + 1
        /\ \A i \in 1..n : q.equity[i] = b.equity[i]
        /\ q.equity[n + 1] = v
    <2>1. q.equity = Append(b.equity, v)
      BY <1>3, <1>8 DEF Longer
    <2>2. n \in Nat \ {0}
      BY <1>5, LenProperties, EmptySeq
    <2> HIDE DEF v
    <2> QED
      BY <1>5, <1>8, <2>1, <2>2, AppendProperties
  <1>10. Last(q.equity) = q.risk.currentBalance
    BY <1>6, <1>9 DEF Last
  <1> HIDE DEF v, n
  <1>11. /\ q.risk.highWaterMark \in Int
         /\ q.risk.highWaterMark >= b.risk.highWaterMark /\ q.risk.highWaterMark >= v
         /\ q.risk.highWaterMark = b.risk.highWaterMark \/ q.risk.highWaterMark = v
    BY <1>5, <1>6, <1>8 DEF MaxOf, v
  <1>12. \A i \in 1..n : b.equity[i] <= b.risk.highWaterMark /\ b.equity[i] \in Int
    BY <1>5, ElementOfSeq DEF Booked, n
  <1>13. \A i \in 1..Len(q.equity) : q.equity[i] <= q.risk.highWaterMark
    <2> TAKE i \in 1..Len(q.equity)
    <2>1. i = n + 1 \/ i \in 1..n
      BY <1>9
    <2>2. CASE i = n + 1
      <3>1. q.equity[i] = v
        BY <1>9, <2>2
      <3> QED
        BY <1>11, <3>1
    <2>3. CASE i \in 1..n
      <3>1. /\ q.equity[i] = b.equity[i] /\ b.equity[i] <= b.risk.highWaterMark
            /\ b.equity[i] \in Int
        BY <1>9, <1>12, <2>3
      <3>2. /\ b.risk.highWaterMark \in Int /\ q.risk.highWaterMark \in Int
            /\ b.risk.highWaterMark <= q.risk.highWaterMark
        BY <1>5, <1>11
      <3> QED
        BY <3>1, <3>2
    <2> QED
      BY <2>1, <2>2, <2>3
  <1>14. \E i \in 1..Len(q.equity) : q.equity[i] = q.risk.highWaterMark
    <2>1. PICK i \in 1..n : b.equity[i] = b.risk.highWaterMark
      BY DEF Booked, n
    <2>2. i \in 1..Len(q.equity) /\ n + 1 \in 1..Len(q.equity)
      BY <1>9
    <2> QED
      BY <1>9, <1>11, <2>1, <2>2
  <1>15. /\ m \in Nat /\ Len(q.closed) = m + 1
         /\ \A i \in 1..m : q.closed[i] = b.closed[i]
         /\ q.closed[m + 1] = x
    BY <1>1, <1>3, <1>5, LenProperties, AppendProperties DEF Longer
  <1>16. Len(q.closed) + Cardinality(DOMAIN q.open) = q.next - 1
    <2>1. IsFiniteSet(DOMAIN b.open) /\ Cardinality(DOMAIN b.open) \in Nat
      BY OpenFinite
    <2>2. Cardinality(DOMAIN q.open) = Cardinality(DOMAIN b.open) - 1
      <3> DEFINE D == DOMAIN b.open
                 id == t.id
      <3>1. id \in D /\ IsFiniteSet(D) /\ DOMAIN q.open = D \ {id}
        BY <1>3, <2>1
      <3> HIDE DEF D, id
      <3>2. Cardinality(D \ {id}) = Cardinality(D) - 1
        BY <3>1, FS_RemoveElement
      <3> QED
        BY <3>1, <3>2 DEF D
    <2>3. m + Cardinality(DOMAIN b.open) = b.next - 1
      BY DEF Booked
    <2> QED
      BY <1>3, <1>5, <1>15, <2>1, <2>2, <2>3
  <1>17. /\ \A i \in 1..m : b.closed[i].trade.id < b.next
         /\ \A i \in 1..m : b.closed[i].trade.id \notin DOMAIN b.open
         /\ \A i \in 1..m : \A j \in 1..(i - 1) : b.closed[j].trade.id # b.closed[i].trade.id
    BY DEF Booked
  <1>18. t.id < b.next /\ t.id \in Nat
    BY <1>5 DEF BookOK
  <1> HIDE DEF m
  <1>19. \A i \in 1..Len(q.closed) : /\ q.closed[i].trade.id < q.next
                                     /\ q.closed[i].trade.id \notin DOMAIN q.open
    <2> TAKE i \in 1..Len(q.closed)
    <2>1. i = m + 1 \/ i \in 1..m
      BY <1>15
    <2> QED
      BY <1>1, <1>3, <1>15, <1>17, <1>18, <2>1
  <1>20. \A i \in 1..Len(q.closed) : \A j \in 1..(i - 1) :
           q.closed[j].trade.id # q.closed[i].trade.id
    <2> TAKE i \in 1..Len(q.closed)
    <2> TAKE j \in 1..(i - 1)
    <2>1. (i = m + 1 /\ j \in 1..m) \/ (i \in 1..m /\ j \in 1..m)
      BY <1>15
    <2>2. CASE i = m + 1 /\ j \in 1..m
      BY <1>1, <1>15, <1>17, <2>2
    <2>3. CASE i \in 1..m /\ j \in 1..m
      BY <1>15, <1>17, <2>3
    <2> QED
      BY <2>1, <2>2, <2>3
  <1>21. Booked(q)
    BY <1>10, <1>13, <1>14, <1>16, <1>19, <1>20 DEF Booked
  <1> QED
    BY <1>3, <1>21

\* The sweep over a bar keeps the books.
LEMMA SweepBooked ==
    ASSUME rows \in Seq(BarSet), NEW b, BookOK(b), Booked(b), NEW c, NEW day \in Nat
    PROVE  Booked(CheckSlTp(b, c, day))
  <1> DEFINE N == b.next - 1
             f == SweepLoop(b, c, day)
             Fine(n) == /\ BookOK(f[n]) /\ Booked(f[n])
                        /\ \A k \in DOMAIN b.open : k > n => k \in DOMAIN f[n].open
             S == {n \in 0..N : Fine(n)}
  <1>1. b.next \in Nat \ {0} /\ N \in Nat /\ \A k \in DOMAIN b.open : k \in Nat
    BY DEF BookOK
  <1>2. /\ f[0] = b
        /\ \A n \in 1..N : f[n] = SweepStep(b, c, day, f[n - 1], n)
    BY <1>1, SweepLoopIs
  <1>3. Len(rows) \in Nat
    BY TodayNat
  <1> HIDE DEF f
  <1>4. 0 \in S
    BY <1>1, <1>2
  <1>5. ASSUME NEW k \in 0..N, k < N, k \in S PROVE k + 1 \in S
    <2> DEFINE n == k + 1
               a == f[k]
    <2>1. n \in 1..N /\ n \in 0..N /\ n - 1 = k /\ k \in Nat
      BY <1>1, <1>5
    <2>2. Fine(k)
      BY <1>5
    <2>3. f[n] = SweepStep(b, c, day, a, n)
      BY <1>2, <2>1
    <2> HIDE DEF n
    <2>4. /\ BookOK(a) /\ Booked(a)
          /\ \A i \in DOMAIN b.open : i > k => i \in DOMAIN a.open
      BY <2>2
    <2> HIDE DEF a, Fine
    <2>5. CASE f[n] = a
      <3>1. \A i \in DOMAIN b.open : i > n => i > k
        BY <1>1, <2>1
      <3>2. Fine(n)
        BY <2>4, <2>5, <3>1 DEF Fine
      <3> QED
        BY <2>1, <3>2 DEF n
    <2>6. CASE f[n] # a
      <3> DEFINE t == b.open[n]
      <3>1. /\ n \in DOMAIN b.open /\ f[n] = CheckTrade(a, t, c, day)
            /\ t \in TradeSet /\ t.id = n
        BY <2>3, <2>6 DEF SweepStep, BookOK
      <3>2. t.sl \in Int /\ t.tp \in Int
        BY <3>1 DEF TradeSet
      <3>3. PICK exit \in Int, reason \in ClosingReasons :
              f[n] = CloseTrade(a, t, day, exit, reason)
        <4>1. "stop_loss" \in ClosingReasons /\ "take_profit" \in ClosingReasons
          BY DEF ClosingReasons
        <4>2. \/ f[n] = CloseTrade(a, t, day, t.sl, "stop_loss")
              \/ f[n] = CloseTrade(a, t, day, t.tp, "take_profit")
          BY <2>6, <3>1 DEF CheckTrade
        <4> HIDE DEF t
        <4> QED
          BY <3>2, <4>1, <4>2
      <3> HIDE DEF t
      <3>4. t.id \in DOMAIN a.open
        BY <2>1, <2>4, <3>1
      <3>5. BookOK(f[n]) /\ Booked(f[n])
        BY <1>3, <2>4, <3>1, <3>3, <3>4, CloseBooked
      <3>6. DOMAIN f[n].open = DOMAIN a.open \ {t.id}
        <4> DEFINE x == Closing(t, exit, reason)
                   q == f[n]
        <4>1. x = Closing(t, exit, reason) /\ q = CloseTrade(a, t, day, exit, reason)
          BY <3>3
        <4> HIDE DEF x, q
        <4>2. DOMAIN q.open = DOMAIN a.open \ {t.id}
          BY <1>3, <2>4, <3>1, <4>1, CloseTradeIs
        <4> QED
          BY <4>2 DEF q
      <3>7. ASSUME NEW i \in DOMAIN b.open, i > n PROVE i \in DOMAIN f[n].open
        <4>1. i > k /\ i # n
          BY <1>1, <2>1, <3>7
        <4> QED
          BY <2>4, <3>1, <3>6, <4>1
      <3>8. Fine(n)
        BY <3>5, <3>7 DEF Fine
      <3> QED
        BY <2>1, <3>8 DEF n
    <2> QED
      BY <2>5, <2>6
  <1>6. N \in S
    <2> HIDE DEF S, N
    <2>1. \A k \in 0..N : k < N /\ k \in S => k + 1 \in S
      BY <1>5
    <2>2. \A k \in 0..N : k \in S
      BY <1>1, <1>4, <2>1, SegmentInduction
    <2> QED
      BY <1>1, <2>2
  <1>7. Booked(f[N])
    BY <1>6
  <1> QED
    BY <1>7 DEF CheckSlTp, f
\* Booked reads of a manager its balance and its high-water mark only.
LEMMA EvaluatedBooked ==
    ASSUME NEW b, Booked(b), NEW r,
           r.currentBalance = b.risk.currentBalance,
           r.highWaterMark = b.risk.highWaterMark
    PROVE  Booked(Evaluated(b, r))
  <1> DEFINE a == Evaluated(b, r)
  <1>1. /\ a.risk = r /\ a.open = b.open /\ a.next = b.next /\ a.equity = b.equity
        /\ a.closed = b.closed
    BY DEF Evaluated
  <1> HIDE DEF a
  <1>2. Booked(a)
    BY <1>1 DEF Booked
  <1> QED
    BY <1>2 DEF a

LEMMA OpenedBooked ==
    ASSUME NEW b, BookOK(b), Booked(b), NEW r \in RiskType,
           r.currentBalance = b.risk.currentBalance,
           r.highWaterMark = b.risk.highWaterMark,
           NEW t \in TradeSet, t.id = b.next
    PROVE  Booked(Opened(b, r, t))
  <1> DEFINE a == Opened(b, r, t)
  <1>1. /\ BookOK(a) /\ a.risk = r /\ DOMAIN a.open = DOMAIN b.open \cup {b.next}
        /\ a.next = b.next + 1 /\ a.equity = b.equity /\ a.closed = b.closed
    BY OpenedIs
  <1> HIDE DEF a
  <1>2. /\ b.next \in Nat /\ b.next \notin DOMAIN b.open
        /\ \A i \in 1..Len(b.closed) : b.closed[i].trade.id \in Nat
        /\ Len(b.closed) \in Nat
    <2>1. b.closed \in Seq(ClosingSet) /\ b.next \in Nat
          /\ DOMAIN b.open \subseteq 1..(b.next - 1)
      BY DEF BookOK
    <2>2. \A i \in 1..Len(b.closed) : b.closed[i] \in ClosingSet
      BY <2>1, ElementOfSeq
    <2>3. \A i \in 1..Len(b.closed) : b.closed[i].trade.id \in Nat
      BY <2>2 DEF ClosingSet, TradeSet
    <2> QED
      BY <2>1, <2>3, LenProperties
  <1>3. Len(a.closed) + Cardinality(DOMAIN a.open) = a.next - 1
    <2>1. IsFiniteSet(DOMAIN b.open) /\ Cardinality(DOMAIN b.open) \in Nat
      BY OpenFinite
    <2>2. Cardinality(DOMAIN a.open) = Cardinality(DOMAIN b.open) + 1
      BY <1>1, <1>2, <2>1, FS_AddElement
    <2>3. Len(b.closed) + Cardinality(DOMAIN b.open) = b.next - 1
      BY DEF Booked
    <2>4. Len(a.closed) = Len(b.closed) /\ a.next = b.next + 1
      BY <1>1
    <2> DEFINE k == Cardinality(DOMAIN b.open)
               l == Cardinality(DOMAIN a.open)
    <2> HIDE DEF k, l
    <2>5. k \in Nat /\ l = k + 1 /\ Len(b.closed) + k = b.next - 1
      BY <2>1, <2>2, <2>3 DEF k, l
    <2>6. Len(a.closed) + l = a.next - 1
      <3> DEFINE m == Len(b.closed)
                 next == b.next
      <3>1. m \in Nat /\ next \in Nat
        BY <1>2
      <3>2. Len(a.closed) = m /\ a.next = next + 1 /\ m + k = next - 1
        BY <2>4, <2>5
      <3> HIDE DEF m, next
      <3>3. m + l = (next + 1) - 1
        BY <2>5, <3>1, <3>2
      <3> QED
        BY <3>2, <3>3
    <2> QED
      BY <2>6 DEF l
  <1>4. ASSUME NEW i \in 1..Len(a.closed)
        PROVE  a.closed[i].trade.id < a.next /\ a.closed[i].trade.id \notin DOMAIN a.open
    <2> DEFINE id == b.closed[i].trade.id
    <2>1. id < b.next /\ id \notin DOMAIN b.open
      BY <1>1 DEF Booked
    <2>2. id \in Nat
      BY <1>1, <1>2
    <2>3. a.closed[i].trade.id = id
      BY <1>1
    <2> HIDE DEF id
    <2> QED
      BY <1>1, <1>2, <2>1, <2>2, <2>3
  <1>5. Booked(a)
    BY <1>1, <1>3, <1>4 DEF Booked
  <1> QED
    BY <1>5 DEF a

LEMMA SignalBooked ==
    ASSUME rows \in Seq(BarSet), NEW c, IsBar(c), NEW sig \in SignalsOn(c),
           NEW b, BookOK(b), Booked(b), NEW p,
           p.quotes[c.symbol]
             = {[bid |-> c.close - HalfSpread, ask |-> c.close + HalfSpread]},
           NEW h, h = HandleSignal(b, p, c, sig, Today)
    PROVE  Booked(h.book)
  <1> DEFINE s == RiskSignal(sig)
             r == AfterEvaluate(b.risk, Today, Limits, s)
             t == Trade(p, c, sig, r, b.next)
             r2 == AfterTradeOpen(r, Today)
  <1>1. Today \in Nat /\ b.risk \in RiskType /\ b.next \in Nat
    BY TodayNat DEF BookOK
  <1>2. r \in RiskType
    BY <1>1, EvaluateType
  <1>3. /\ r.currentBalance = b.risk.currentBalance
        /\ r.highWaterMark = b.risk.highWaterMark
    <2> DEFINE r0 == b.risk
    <2>1. r0 \in RiskType
      BY <1>1
    <2> HIDE DEF r0, s
    <2>2. /\ AfterEvaluate(r0, Today, Limits, s).currentBalance = r0.currentBalance
          /\ AfterEvaluate(r0, Today, Limits, s).highWaterMark = r0.highWaterMark
      BY <1>1, <2>1, EvaluateMoney
    <2> QED
      BY <2>2 DEF r0, s
  <1>4. /\ r2 \in RiskType
        /\ r2.currentBalance = r.currentBalance /\ r2.highWaterMark = r.highWaterMark
    <2> HIDE DEF r
    <2> QED
      BY <1>1, <1>2, OpenType, OpenMoney
  <1>5. CASE Decide(b.risk, Today, Limits, s) # "OK"
    <2>1. h.book = Evaluated(b, r)
      BY <1>5 DEF HandleSignal
    <2> HIDE DEF r
    <2> QED
      BY <1>3, <2>1, EvaluatedBooked
  <1>6. CASE Decide(b.risk, Today, Limits, s) = "OK"
    <2>1. h.book = Opened(b, r2, t)
      BY <1>6 DEF HandleSignal
    <2>2. ~(Lots(r, sig) <= 0)
      BY <1>1, <1>6, AcceptedLots
    <2> HIDE DEF r, r2
    <2>3. t \in TradeSet /\ t.id = b.next
      BY <1>1, <1>2, <2>2, TradeIs
    <2> HIDE DEF t
    <2> QED
      BY <1>3, <1>4, <2>1, <2>3, OpenedBooked
  <1> QED
    BY <1>5, <1>6

LEMMA RowBooked ==
    ASSUME Good(book, paper, rows), Booked(book), Row
    PROVE  Booked(book')
  <1>1. PICK s \in Symbols, shape \in BarShapes :
          LET c == [symbol |-> s, low |-> shape.low, high |-> shape.high,
                    close |-> shape.close]
              p == SetQuote(paper, s, c.close)
              b == CheckSlTp(book, c, Today)
          IN  /\ rows' = Append(rows, c)
              /\ \/ book' = b /\ paper' = p
                 \/ \E sig \in SignalsOn(c) :
                      LET h == HandleSignal(b, p, c, sig, Today)
                      IN  book' = h.book /\ paper' = h.paper
    BY DEF Row
  <1> DEFINE c == [symbol |-> s, low |-> shape.low, high |-> shape.high,
                   close |-> shape.close]
             p == SetQuote(paper, c.symbol, c.close)
             b == CheckSlTp(book, c, Today)
  <1>2. IsBar(c)
    BY BacktestAssumption DEF IsBar, BarSet
  <1>3. c.symbol = s
    OBVIOUS
  <1>4. \/ book' = b
        \/ \E sig \in SignalsOn(c) : book' = HandleSignal(b, p, c, sig, Today).book
    BY <1>1
  <1> HIDE DEF c
  <1>5. BookOK(b)
    BY <1>2, AfterSweep DEF Good
  <1>6. rows \in Seq(BarSet) /\ BookOK(book) /\ Today \in Nat
    BY TodayNat DEF Good
  <1>7. Booked(b)
    BY <1>6, SweepBooked
  <1>8. p.quotes[c.symbol]
          = {[bid |-> c.close - HalfSpread, ask |-> c.close + HalfSpread]}
    BY <1>2, SetQuoteIs DEF Good
  <1> HIDE DEF b, p
  <1>9. CASE book' = b
    BY <1>7, <1>9
  <1>10. CASE \E sig \in SignalsOn(c) : book' = HandleSignal(b, p, c, sig, Today).book
    <2>1. PICK sig \in SignalsOn(c) : book' = HandleSignal(b, p, c, sig, Today).book
      BY <1>10
    <2> DEFINE h == HandleSignal(b, p, c, sig, Today)
    <2>2. h = HandleSignal(b, p, c, sig, Today) /\ book' = h.book
      BY <2>1
    <2> HIDE DEF h
    <2>3. Booked(h.book)
      BY <1>2, <1>5, <1>6, <1>7, <1>8, <2>2, SignalBooked
    <2> QED
      BY <2>2, <2>3
  <1> QED
    BY <1>4, <1>9, <1>10
-----------------------------------------------------------------------------
(***************************************************************************)
(* The trades of the end are recorded twice.  Again(c) are the records of a *)
(* trade that stands in c before, Surplus(c) is the sum of their results.   *)
(***************************************************************************)
Again(c) == {i \in DOMAIN c : \E j \in 1..(i - 1) : c[j].trade.id = c[i].trade.id}

Twins(c) == {i \in DOMAIN c : c[i].reason = "backtest_end" /\ i > 1 /\ c[i] = c[i - 1]}

Twice(c) == [i \in DOMAIN c |-> IF i \in Again(c) THEN c[i].pnl ELSE 0]

Surplus(c) == RunningSum(0, Twice(c))[Len(c)]

LEMMA TwiceIs ==
    ASSUME NEW c \in Seq(ClosingSet)
    PROVE  Twice(c) \in Seq(Int) /\ Len(Twice(c)) = Len(c)
  <1>1. \A i \in 1..Len(c) : c[i].pnl \in Int
    <2> TAKE i \in 1..Len(c)
    <2>1. c[i] \in ClosingSet
      BY ElementOfSeq
    <2> QED
      BY <2>1 DEF ClosingSet
  <1>2. Len(c) \in Nat /\ DOMAIN c = 1..Len(c)
    BY LenProperties
  <1>3. Twice(c) \in [1..Len(c) -> Int]
    BY <1>1, <1>2 DEF Twice
  <1>4. Twice(c) \in Seq(Int)
    BY <1>2, <1>3, SeqDef
  <1>5. DOMAIN Twice(c) = 1..Len(c)
    BY <1>3
  <1> QED
    BY <1>2, <1>4, <1>5, LenProperties

LEMMA AgainAppend ==
    ASSUME NEW c \in Seq(ClosingSet), NEW x \in ClosingSet, NEW s, Longer(s, c, x)
    PROVE  /\ Len(c) \in Nat /\ s \in Seq(ClosingSet) /\ Len(s) = Len(c) + 1
           /\ DOMAIN c = 1..Len(c) /\ DOMAIN s = 1..(Len(c) + 1)
           /\ s[Len(c) + 1] = x
           /\ \A i \in 1..Len(c) : s[i] = c[i]
           /\ \A i \in 1..Len(c) : i \in Again(s) <=> i \in Again(c)
           /\ \A i \in 1..Len(c) : i \in Twins(s) <=> i \in Twins(c)
           /\ Len(c) + 1 \in Again(s)
                <=> \E j \in 1..Len(c) : c[j].trade.id = x.trade.id
           /\ Surplus(s) = Surplus(c)
                           + (IF Len(c) + 1 \in Again(s) THEN x.pnl ELSE 0)
  <1> DEFINE n == Len(c)
  <1>1. /\ n \in Nat /\ s \in Seq(ClosingSet) /\ Len(s) = n + 1
        /\ \A i \in 1..n : s[i] = c[i]
        /\ s[n + 1] = x
    BY LenProperties, AppendProperties DEF Longer
  <1>2. DOMAIN c = 1..n /\ DOMAIN s = 1..(n + 1)
    BY <1>1, LenProperties
  <1> HIDE DEF n
  <1>3. ASSUME NEW i \in 1..n PROVE i \in Again(s) <=> i \in Again(c)
    <2>1. i \in DOMAIN s /\ i \in DOMAIN c /\ \A j \in 1..(i - 1) : j \in 1..n
      BY <1>1, <1>2
    <2> QED
      BY <1>1, <2>1 DEF Again
  <1>4. ASSUME NEW i \in 1..n PROVE i \in Twins(s) <=> i \in Twins(c)
    <2>1. i \in DOMAIN s /\ i \in DOMAIN c /\ (i > 1 => i - 1 \in 1..n)
      BY <1>1, <1>2
    <2> QED
      BY <1>1, <2>1 DEF Twins
  <1>5. n + 1 \in Again(s) <=> \E j \in 1..n : c[j].trade.id = x.trade.id
    <2>1. n + 1 \in DOMAIN s /\ (n + 1) - 1 = n
      BY <1>1, <1>2
    <2> QED
      BY <1>1, <2>1 DEF Again
  <1> DEFINE u == Twice(c)
             w == Twice(s)
  <1>6. u \in Seq(Int) /\ Len(u) = n /\ w \in Seq(Int) /\ Len(w) = n + 1
    BY <1>1, TwiceIs DEF n
  <1>7. \A i \in 1..n : w[i] = u[i]
    <2> TAKE i \in 1..n
    <2>1. i \in DOMAIN s /\ i \in DOMAIN c /\ s[i] = c[i]
      BY <1>1, <1>2
    <2> QED
      BY <1>3, <2>1 DEF Twice
  <1>8. w[n + 1] = IF n + 1 \in Again(s) THEN x.pnl ELSE 0
    <2>1. n + 1 \in DOMAIN s
      BY <1>1, <1>2
    <2> QED
      BY <1>1, <2>1 DEF Twice
  <1> HIDE DEF u, w
  <1>9. RunningSum(0, w)[Len(w)] = RunningSum(0, u)[Len(u)] + w[Len(w)]
    <2> DEFINE base == 0
    <2>1. base \in Int
      OBVIOUS
    <2> HIDE DEF base
    <2>2. RunningSum(base, w)[Len(w)] = RunningSum(base, u)[Len(u)] + w[Len(w)]
      BY <1>6, <1>7, <2>1, RunningSumAppend
    <2> QED
      BY <2>2 DEF base
  <1>10. Surplus(s) = Surplus(c) + w[n + 1]
    BY <1>1, <1>6, <1>9 DEF Surplus, u, w, n
  <1> QED
    BY <1>1, <1>2, <1>3, <1>4, <1>5, <1>8, <1>10 DEF n

\* A record of a new trade, and the same record once more.
LEMMA FreshAppend ==
    ASSUME NEW c \in Seq(ClosingSet), NEW x \in ClosingSet, NEW s, Longer(s, c, x),
           \A j \in 1..Len(c) : c[j].trade.id # x.trade.id,
           Again(c) = Twins(c), Surplus(c) \in Int
    PROVE  Again(s) = Twins(s) /\ Surplus(s) = Surplus(c)
  <1> DEFINE n == Len(c)
  <1>1. /\ n \in Nat /\ s \in Seq(ClosingSet)
        /\ DOMAIN c = 1..n /\ DOMAIN s = 1..(n + 1)
        /\ s[n + 1] = x
        /\ \A i \in 1..n : s[i] = c[i]
        /\ \A i \in 1..n : i \in Again(s) <=> i \in Again(c)
        /\ \A i \in 1..n : i \in Twins(s) <=> i \in Twins(c)
        /\ n + 1 \in Again(s) <=> \E j \in 1..n : c[j].trade.id = x.trade.id
        /\ Surplus(s) = Surplus(c) + (IF n + 1 \in Again(s) THEN x.pnl ELSE 0)
    BY AgainAppend
  <1>2. n + 1 \notin Again(s)
    BY <1>1
  <1>3. n + 1 \notin Twins(s)
    <2> SUFFICES ASSUME n + 1 > 1, s[n + 1] = s[n] PROVE FALSE
      BY <1>1 DEF Twins
    <2>1. n \in 1..n
      BY <1>1
    <2>2. c[n].trade.id = x.trade.id
      BY <1>1, <2>1
    <2> QED
      BY <2>1, <2>2
  <1> HIDE DEF n
  <1>4. \A i : i \in Again(s) <=> i \in Twins(s)
    <2> TAKE i
    <2>1. CASE i \in 1..n
      BY <1>1, <2>1
    <2>2. CASE i = n + 1
      BY <1>2, <1>3, <2>2
    <2>3. CASE i \notin 1..n /\ i # n + 1
      <3>1. i \notin DOMAIN s
        BY <1>1, <2>3
      <3> QED
        BY <3>1 DEF Again, Twins
    <2> QED
      BY <2>1, <2>2, <2>3
  <1>5. Surplus(s) = Surplus(c)
    BY <1>1, <1>2
  <1>6. Again(s) = Twins(s)
    BY <1>4
  <1> QED
    BY <1>5, <1>6

LEMMA TwinAppend ==
    ASSUME NEW c \in Seq(ClosingSet), NEW x \in ClosingSet, NEW s, Longer(s, c, x),
           Len(c) > 0, c[Len(c)] = x, x.reason = "backtest_end",
           Again(c) = Twins(c)
    PROVE  Again(s) = Twins(s) /\ Surplus(s) = Surplus(c) + x.pnl
  <1> DEFINE n == Len(c)
  <1>1. /\ n \in Nat /\ s \in Seq(ClosingSet)
        /\ DOMAIN c = 1..n /\ DOMAIN s = 1..(n + 1)
        /\ s[n + 1] = x
        /\ \A i \in 1..n : s[i] = c[i]
        /\ \A i \in 1..n : i \in Again(s) <=> i \in Again(c)
        /\ \A i \in 1..n : i \in Twins(s) <=> i \in Twins(c)
        /\ n + 1 \in Again(s) <=> \E j \in 1..n : c[j].trade.id = x.trade.id
        /\ Surplus(s) = Surplus(c) + (IF n + 1 \in Again(s) THEN x.pnl ELSE 0)
    BY AgainAppend
  <1>2. n \in 1..n /\ n + 1 > 1 /\ (n + 1) - 1 = n /\ n + 1 \in 1..(n + 1)
    BY <1>1
  <1>3. n + 1 \in Again(s)
    BY <1>1, <1>2
  <1>4. n + 1 \in Twins(s)
    BY <1>1, <1>2 DEF Twins
  <1> HIDE DEF n
  <1>5. \A i : i \in Again(s) <=> i \in Twins(s)
    <2> TAKE i
    <2>1. CASE i \in 1..n
      BY <1>1, <2>1
    <2>2. CASE i = n + 1
      BY <1>3, <1>4, <2>2
    <2>3. CASE i \notin 1..n /\ i # n + 1
      <3>1. i \notin DOMAIN s
        BY <1>1, <2>3
      <3> QED
        BY <3>1 DEF Again, Twins
    <2> QED
      BY <2>1, <2>2, <2>3
  <1> QED
    BY <1>1, <1>3, <1>5
\* The curve ends above the balance by what was recorded twice.
Doubled(b) ==
    /\ Surplus(b.closed) \in Int
    /\ Last(b.equity) - b.risk.currentBalance = Surplus(b.closed)
    /\ Again(b.closed) = Twins(b.closed)

LEMMA BookedDoubled ==
    ASSUME NEW b, BookOK(b), Booked(b),
           \A i \in 1..Len(b.closed) : b.closed[i].reason # "backtest_end"
    PROVE  Doubled(b) /\ Again(b.closed) = {}
  <1> DEFINE c == b.closed
             u == Twice(c)
  <1>1. c \in Seq(ClosingSet) /\ DOMAIN c = 1..Len(c) /\ b.risk.currentBalance \in Int
    BY LenProperties DEF BookOK, RiskType
  <1>2. Again(c) = {}
    BY <1>1 DEF Again, Booked
  <1>3. Twins(c) = {}
    BY <1>1 DEF Twins
  <1>4. Surplus(c) = 0
    <2>1. u \in Seq(Int) /\ Len(u) = Len(c)
      BY <1>1, TwiceIs
    <2>2. \A i \in 1..Len(u) : u[i] = 0
      BY <1>1, <1>2, <2>1 DEF Twice
    <2> HIDE DEF u
    <2> DEFINE base == 0
    <2>3. base \in Int
      OBVIOUS
    <2> HIDE DEF base
    <2>4. RunningSum(base, u)[Len(u)] = base
      <3>1. \A i \in 1..Len(u) : u[i] = 0
        BY <2>2
      <3> QED
        BY <2>1, <2>3, <3>1, RunningSumZero
    <2> QED
      BY <2>1, <2>4 DEF Surplus, u, base
  <1>5. Last(b.equity) = b.risk.currentBalance
    BY DEF Booked
  <1>6. Surplus(c) \in Int /\ Last(b.equity) - b.risk.currentBalance = Surplus(c)
    BY <1>1, <1>4, <1>5
  <1> QED
    BY <1>2, <1>3, <1>6 DEF Doubled

\* The books while the closing loop is at the trades up to n.
FinishBooked(a, n) ==
    /\ BookOK(a) /\ Doubled(a)
    /\ \A k \in DOMAIN book.open : k > n =>
         \A i \in 1..Len(a.closed) : a.closed[i].trade.id # k

LEMMA ForceCloseBooked ==
    ASSUME Good(book, paper, rows), rows # <<>>,
           NEW n \in DOMAIN book.open, NEW a, FinishBooked(a, n - 1),
           NEW q, q = ForceClose(a, book.open[n])
    PROVE  FinishBooked(q, n)
  <1> DEFINE t == book.open[n]
             exit == EndPrice(paper, t)
             reason == "backtest_end"
             x == Closing(t, exit, reason)
  <1>1. /\ t \in TradeSet /\ t.id = n /\ Sized(t) /\ QuoteInside(paper, t)
        /\ BookOK(a) /\ rows \in Seq(BarSet)
        /\ \A k \in DOMAIN book.open : k \in Nat
    BY DEF Good, BookOK, OpenOK, FinishBooked
  <1>2. q = ForceClose(a, t) /\ x = Closing(t, EndPrice(paper, t), "backtest_end")
    OBVIOUS
  <1> HIDE DEF t
  <1>3. exit \in Int
    BY <1>1, EndLoss
  <1>4. /\ x.trade = t /\ x.reason = "backtest_end"
    <2>1. reason \in ClosingReasons /\ Len(rows) \in Nat
      BY <1>1, LenProperties DEF ClosingReasons
    <2> HIDE DEF exit, reason
    <2>2. x.trade = t /\ x.reason = reason
      BY <1>1, <1>3, <2>1, ClosingIs
    <2> QED
      BY <2>2 DEF reason
  <1> HIDE DEF x
  <1>5. /\ BookOK(q) /\ x \in ClosingSet
        /\ q.risk = AfterTradeClose(a.risk, EndDay, x.pnl) /\ EndDay \in Nat
        /\ \E s : Longer(s, a.closed, x) /\ Longer(q.closed, s, x)
        /\ \E s : /\ Longer(s, a.equity, Last(a.equity) + x.pnl)
                  /\ Longer(q.equity, s, Last(s) + x.pnl)
    <2>1. EndPrice(paper, t) \in Int
      BY <1>3
    <2> HIDE DEF exit
    <2> QED
      BY <1>1, <1>2, <2>1, ForceCloseIs
  <1>6. /\ a.risk \in RiskType /\ a.closed \in Seq(ClosingSet)
        /\ a.equity \in Seq(Int) /\ a.equity # <<>> /\ x.pnl \in Int
    BY <1>1, <1>5 DEF BookOK, ClosingSet
  <1>7. q.risk.currentBalance = a.risk.currentBalance + x.pnl
        /\ a.risk.currentBalance \in Int
    <2> DEFINE r == a.risk
               w == x.pnl
    <2>1. r \in RiskType /\ w \in Int /\ q.risk = AfterTradeClose(r, EndDay, w)
      BY <1>5, <1>6
    <2>2. EndDay \in Nat
      BY <1>5
    <2> HIDE DEF r, w
    <2>3. AfterTradeClose(r, EndDay, w).currentBalance = r.currentBalance + w
      BY <2>1, <2>2, CloseMoney
    <2>4. r.currentBalance \in Int
      BY <2>1 DEF RiskType
    <2> QED
      BY <2>1, <2>3, <2>4 DEF r, w
  <1>8. Last(q.equity) = (Last(a.equity) + x.pnl) + x.pnl /\ Last(a.equity) \in Int
    <2>1. PICK s : /\ Longer(s, a.equity, Last(a.equity) + x.pnl)
                   /\ Longer(q.equity, s, Last(s) + x.pnl)
      BY <1>5
    <2>2. Last(a.equity) \in Int
      <3>1. Len(a.equity) \in 1..Len(a.equity)
        BY <1>6, LenProperties, EmptySeq
      <3> QED
        BY <1>6, <3>1, ElementOfSeq DEF Last
    <2> DEFINE v == Last(a.equity) + x.pnl
    <2>3. v \in Int /\ Longer(s, a.equity, v)
      BY <1>6, <2>1, <2>2
    <2> HIDE DEF v
    <2>4. s \in Seq(Int) /\ Last(s) = v
      BY <1>6, <2>3, AppendProperties, LenProperties DEF Longer, Last
    <2> DEFINE w == Last(s) + x.pnl
    <2>5. w \in Int /\ Longer(q.equity, s, w)
      BY <1>6, <2>1, <2>3, <2>4
    <2> HIDE DEF w
    <2>6. Last(q.equity) = w
      BY <2>4, <2>5, AppendProperties, LenProperties DEF Longer, Last
    <2> QED
      BY <2>2, <2>4, <2>6 DEF v, w
  <1>9. PICK s : Longer(s, a.closed, x) /\ Longer(q.closed, s, x)
    BY <1>5
  <1>10. \A j \in 1..Len(a.closed) : a.closed[j].trade.id # x.trade.id
    <2>1. n > n - 1 /\ x.trade.id = n
      BY <1>1, <1>4
    <2> QED
      BY <2>1 DEF FinishBooked
  <1>11. Again(a.closed) = Twins(a.closed) /\ Surplus(a.closed) \in Int
         /\ Last(a.equity) - a.risk.currentBalance = Surplus(a.closed)
    BY DEF FinishBooked, Doubled
  <1>12. Again(s) = Twins(s) /\ Surplus(s) = Surplus(a.closed)
    BY <1>5, <1>6, <1>9, <1>10, <1>11, FreshAppend
  <1>13. /\ Len(a.closed) \in Nat /\ s \in Seq(ClosingSet) /\ Len(s) = Len(a.closed) + 1
         /\ \A i \in 1..Len(a.closed) : s[i] = a.closed[i]
         /\ s[Len(s)] = x /\ Len(s) > 0
    <2>1. /\ Len(a.closed) \in Nat /\ s \in Seq(ClosingSet) /\ Len(s) = Len(a.closed) + 1
          /\ \A i \in 1..Len(a.closed) : s[i] = a.closed[i]
          /\ s[Len(a.closed) + 1] = x
      BY <1>5, <1>6, <1>9, LenProperties, AppendProperties DEF Longer
    <2> QED
      BY <2>1
  <1>14. Again(q.closed) = Twins(q.closed) /\ Surplus(q.closed) = Surplus(s) + x.pnl
    BY <1>4, <1>5, <1>9, <1>12, <1>13, TwinAppend
  <1>15. Doubled(q)
    <2>1. Surplus(q.closed) = Surplus(a.closed) + x.pnl
      BY <1>12, <1>14
    <2> DEFINE u == Surplus(a.closed)
               e == Last(a.equity)
               w == x.pnl
               m == a.risk.currentBalance
    <2>2. u \in Int /\ e \in Int /\ w \in Int /\ m \in Int /\ e - m = u
      BY <1>6, <1>7, <1>8, <1>11
    <2>3. /\ Surplus(q.closed) = u + w /\ Last(q.equity) = (e + w) + w
          /\ q.risk.currentBalance = m + w
      BY <1>7, <1>8, <2>1
    <2> HIDE DEF u, e, w, m
    <2>4. /\ Surplus(q.closed) \in Int
          /\ Last(q.equity) - q.risk.currentBalance = Surplus(q.closed)
      BY <2>2, <2>3
    <2> QED
      BY <1>14, <2>4 DEF Doubled
  <1>16. /\ Len(q.closed) = Len(a.closed) + 2
         /\ \A i \in 1..Len(a.closed) : q.closed[i] = a.closed[i]
         /\ q.closed[Len(a.closed) + 1] = x /\ q.closed[Len(a.closed) + 2] = x
    <2>1. /\ Len(q.closed) = Len(s) + 1
          /\ \A i \in 1..Len(s) : q.closed[i] = s[i]
          /\ q.closed[Len(s) + 1] = x
      BY <1>5, <1>9, <1>13, AppendProperties DEF Longer
    <2>2. /\ Len(s) \in 1..Len(s) /\ (Len(a.closed) + 1) + 1 = Len(a.closed) + 2
          /\ \A i \in 1..Len(a.closed) : i \in 1..Len(s)
      BY <1>13
    <2> QED
      BY <1>13, <2>1, <2>2
  <1>17. ASSUME NEW k \in DOMAIN book.open, k > n, NEW i \in 1..Len(q.closed)
         PROVE  q.closed[i].trade.id # k
    <2>1. k > n - 1 /\ k # n
      BY <1>1, <1>17
    <2>2. \/ i \in 1..Len(a.closed)
          \/ i = Len(a.closed) + 1 \/ i = Len(a.closed) + 2
      BY <1>13, <1>16
    <2>3. CASE i \in 1..Len(a.closed)
      BY <1>16, <2>1, <2>3 DEF FinishBooked
    <2>4. CASE i = Len(a.closed) + 1 \/ i = Len(a.closed) + 2
      BY <1>1, <1>4, <1>16, <2>1, <2>4
    <2> QED
      BY <2>2, <2>3, <2>4
  <1> QED
    BY <1>5, <1>15, <1>17 DEF FinishBooked

LEMMA FinishDoubled ==
    ASSUME Good(book, paper, rows), Booked(book), rows # <<>>
    PROVE  Doubled(FinishLoop[book.next - 1])
  <1> DEFINE N == book.next - 1
             f == FinishLoop
             S == {n \in 0..N : FinishBooked(f[n], n)}
  <1>1. /\ book.next \in Nat \ {0} /\ N \in Nat /\ BookOK(book)
        /\ \A k \in DOMAIN book.open : k \in Nat
    BY DEF Good, BookOK
  <1>2. /\ f[0] = book
        /\ \A n \in 1..N : f[n] = FinishStep(f[n - 1], n)
    BY <1>1, FinishLoopIs
  <1> HIDE DEF f
  <1>3. 0 \in S
    <2>1. \A i \in 1..Len(book.closed) : book.closed[i].reason # "backtest_end"
      BY DEF Good, ExitFine
    <2>2. Doubled(book)
      BY <1>1, <2>1, BookedDoubled
    <2>3. FinishBooked(book, 0)
      BY <1>1, <2>2 DEF FinishBooked, Booked
    <2> QED
      BY <1>1, <1>2, <2>3
  <1>4. ASSUME NEW k \in 0..N, k < N, k \in S PROVE k + 1 \in S
    <2> DEFINE n == k + 1
               a == f[k]
    <2>1. n \in 1..N /\ n \in 0..N /\ n - 1 = k /\ n \in Nat
      BY <1>1, <1>4
    <2>2. FinishBooked(a, n - 1)
      BY <1>4, <2>1
    <2>3. f[n] = FinishStep(a, n)
      BY <1>2, <2>1
    <2> HIDE DEF n, a
    <2>4. CASE n \in DOMAIN book.open
      <3>1. f[n] = ForceClose(a, book.open[n])
        BY <2>3, <2>4 DEF FinishStep
      <3>2. FinishBooked(f[n], n)
        BY <2>2, <2>4, <3>1, ForceCloseBooked
      <3> QED
        BY <2>1, <3>2 DEF n
    <2>5. CASE n \notin DOMAIN book.open
      <3>1. f[n] = a
        BY <2>3, <2>5 DEF FinishStep
      <3>2. \A i \in DOMAIN book.open : i > n => i > n - 1
        BY <1>1, <2>1
      <3>3. FinishBooked(a, n)
        BY <2>2, <3>2 DEF FinishBooked
      <3> QED
        BY <2>1, <3>1, <3>3 DEF n
    <2> QED
      BY <2>4, <2>5
  <1>5. N \in S
    <2> HIDE DEF S, N
    <2>1. \A k \in 0..N : k < N /\ k \in S => k + 1 \in S
      BY <1>4
    <2>2. \A k \in 0..N : k \in S
      BY <1>1, <1>3, <2>1, SegmentInduction
    <2> QED
      BY <1>1, <2>2
  <1>6. Doubled(f[N])
    BY <1>5 DEF FinishBooked
  <1> QED
    BY <1>6 DEF f

BooksInv ==
    /\ phase = "replay" => Booked(book)
    /\ phase = "done" => Doubled(book)

(***************************************************************************)
(* run(): during the replay the statistics and the risk manager agree on    *)
(* the money and every close is recorded once; at the end they part by      *)
(* exactly the results of the trades that were closed last, which run()     *)
(* records after _persist already has.                                      *)
(***************************************************************************)
THEOREM ReplayBooksAgreeHolds == BacktestSpec => []ReplayBooksAgree
  <1>1. Start => BooksInv
    <2> SUFFICES ASSUME Init PROVE BooksInv
      BY DEF Start
    <2>1. /\ book.risk = FreshManager(0) /\ DOMAIN book.open = {} /\ book.next = 1
          /\ book.equity = <<StartingBalance>> /\ book.closed = <<>>
          /\ phase = "replay"
      BY DEF Init
    <2>2. /\ book.risk.currentBalance = StartingBalance
          /\ book.risk.highWaterMark = StartingBalance
      BY <2>1 DEF FreshManager
    <2>3. Cardinality(DOMAIN book.open) = 0
      BY <2>1, FS_EmptySet
    <2>4. StartingBalance <= StartingBalance
      BY SettingsAssumption
    <2>5. Booked(book)
      BY <2>1, <2>2, <2>3, <2>4 DEF Booked, Last
    <2> QED
      BY <2>1, <2>5 DEF BooksInv
  <1>2. BacktestInv /\ BooksInv
          /\ [EngineStep \/ RunnerStep]_<<program, engineVars, runnerVars>>
        => BooksInv'
    <2> SUFFICES ASSUME BacktestInv, BooksInv,
                        [EngineStep \/ RunnerStep]_<<program, engineVars, runnerVars>>
                 PROVE  BooksInv'
      OBVIOUS
    <2>1. CASE Row
      <3>1. phase = "replay" /\ phase' = "replay"
        BY <2>1 DEF Row
      <3>2. Good(book, paper, rows) /\ Booked(book)
        BY <3>1 DEF BacktestInv, BooksInv
      <3>3. Booked(book')
        BY <2>1, <3>2, RowBooked
      <3> QED
        BY <3>1, <3>3 DEF BooksInv
    <2>2. CASE Finish
      <3>1. /\ phase = "replay" /\ phase' = "done" /\ rows # <<>>
            /\ book' = FinishLoop[book.next - 1]
        BY <2>2 DEF Finish
      <3>2. Good(book, paper, rows) /\ Booked(book)
        BY <3>1 DEF BacktestInv, BooksInv
      <3>3. Doubled(FinishLoop[book.next - 1])
        BY <3>1, <3>2, FinishDoubled
      <3>4. Doubled(book')
        BY <3>1, <3>3
      <3> QED
        BY <3>1, <3>4 DEF BooksInv
    <2>3. CASE UNCHANGED engineVars
      BY <2>3 DEF engineVars, vars, BooksInv, Booked, Doubled
    <2> QED
      BY <2>1, <2>2, <2>3 DEF EngineStep, RunnerStep, Next
  <1>3. BacktestInv /\ BooksInv => ReplayBooksAgree
    <2> SUFFICES ASSUME BacktestInv, BooksInv PROVE ReplayBooksAgree
      OBVIOUS
    <2> DEFINE c == book.closed
    <2>1. BookOK(book) /\ phase \in {"replay", "done"}
      BY DEF BacktestInv, Good, Ended
    <2>2. ASSUME phase = "replay"
          PROVE  /\ Booked(book) /\ Doubled(book) /\ Again(c) = {}
      <3>1. Booked(book) /\ Good(book, paper, rows)
        BY <2>2 DEF BooksInv, BacktestInv
      <3>2. \A i \in 1..Len(book.closed) : book.closed[i].reason # "backtest_end"
        BY <3>1 DEF Good, ExitFine
      <3> QED
        BY <2>1, <3>1, <3>2, BookedDoubled
    <2>3. Doubled(book)
      BY <2>1, <2>2 DEF BooksInv
    <2>4. book.equity[Len(book.equity)] - book.risk.currentBalance
            = RunningSum(0, Twice(c))[Len(c)]
      BY <2>3 DEF Doubled, Surplus, Last
    <2>5. Again(c) = {i \in DOMAIN c : /\ c[i].reason = "backtest_end"
                                       /\ i > 1 /\ c[i] = c[i - 1]}
      BY <2>3 DEF Doubled, Twins
    <2>6. ASSUME phase = "replay"
          PROVE  book.risk.highWaterMark
                   = Max({book.equity[i] : i \in 1..Len(book.equity)})
      <3> DEFINE E == {book.equity[i] : i \in 1..Len(book.equity)}
                 h == book.risk.highWaterMark
      <3>1. E \in SUBSET Int
        BY <2>1, ElementOfSeq DEF BookOK
      <3>2. h \in E /\ \A v \in E : v <= h
        BY <2>2, <2>6 DEF Booked
      <3> HIDE DEF E, h
      <3>3. Max(E) = h
        BY <3>1, <3>2, MaxIs
      <3> QED
        BY <3>3 DEF E, h
    <2>7. ASSUME phase = "replay"
          PROVE  /\ Again(c) = {}
                 /\ Len(c) + Cardinality(DOMAIN book.open) = book.next - 1
      BY <2>2, <2>7 DEF Booked
    <2> QED
      BY <2>4, <2>5, <2>6, <2>7 DEF ReplayBooksAgree, Again, Twice
  <1> QED
    BY <1>1, <1>2, <1>3, BacktestInvariant, PTL DEF BacktestSpec

-----------------------------------------------------------------------------
(***************************************************************************)
(* The exits of run_backtest.                                               *)
(***************************************************************************)
RunTrade == [dir : Dirs, entry : Nat, stop : Int, opened : Nat, risk : Nat \ {0}]

RunReasons == {"TARGET", "SL", "END_DATA"}

RunExit == [trade : RunTrade, reason : RunReasons, pnl : Int, closed : Nat]

\* The close of the bar reaches half of the target.
HalfWay(t, c) == 2000 * Runner!Gain(t, c) >= t.entry

\* The bar k of cs ends the trade.
Out(cs, t, k) ==
    \/ 1000 * Runner!Gain(t, cs[k + 1]) >= t.entry
    \/ Runner!Worst(t, cs[k + 1]) <= Runner!StopInForce(cs, t, k)

LEMMA GainIs ==
    ASSUME NEW t \in RunTrade, NEW c \in CandleShapes
    PROVE  /\ Runner!Gain(t, c) \in Int /\ Runner!Worst(t, c) \in Int
           /\ Runner!Worst(t, c) <= Runner!Gain(t, c)
  <1>1. /\ c.low \in Int /\ c.high \in Int /\ c.close \in Int /\ t.entry \in Int
        /\ c.low <= c.close /\ c.close <= c.high
    BY RunnerAssumption DEF RunTrade
  <1> DEFINE l == c.low
             h == c.high
             k == c.close
             e == t.entry
  <1>2. /\ Runner!Gain(t, c) = (IF t.dir = "LONG" THEN k - e ELSE e - k)
        /\ Runner!Worst(t, c) = (IF t.dir = "LONG" THEN l - e ELSE e - h)
    BY DEF Runner!Gain, Runner!Worst
  <1> HIDE DEF l, h, k, e
  <1>3. l \in Int /\ h \in Int /\ k \in Int /\ e \in Int /\ l <= k /\ k <= h
    BY <1>1 DEF l, h, k, e
  <1> QED
    BY <1>2, <1>3

\* A later candle leaves the rows before it and the stops in force on them.
LEMMA StopAppend ==
    ASSUME NEW t \in RunTrade, NEW cs \in Seq(CandleShapes), NEW c \in CandleShapes,
           t.opened < Len(cs), NEW cs2, Longer(cs2, cs, c)
    PROVE  /\ Len(cs) \in Nat /\ cs2 \in Seq(CandleShapes) /\ Len(cs2) = Len(cs) + 1
           /\ \A k \in 0..(Len(cs) - 1) : cs2[k + 1] = cs[k + 1]
           /\ cs2[Len(cs) + 1] = c
           /\ \A k \in 0..(Len(cs) - 1) :
                Runner!StopInForce(cs2, t, k) = Runner!StopInForce(cs, t, k)
           /\ Runner!StopInForce(cs2, t, Len(cs))
                = IF HalfWay(t, c) THEN 0 ELSE Runner!StopInForce(cs, t, Len(cs) - 1)
  <1> DEFINE n == Len(cs)
  <1>1. /\ n \in Nat /\ cs2 \in Seq(CandleShapes) /\ Len(cs2) = n + 1
        /\ \A i \in 1..n : cs2[i] = cs[i]
        /\ cs2[n + 1] = c
    BY LenProperties, AppendProperties DEF Longer
  <1>2. t.opened \in Nat /\ t.opened < n
    BY DEF RunTrade
  <1> HIDE DEF n
  <1> DEFINE o == t.opened
  <1> HIDE DEF o
  <1>3. \A k \in 0..(n - 1) : cs2[k + 1] = cs[k + 1]
    BY <1>1
  <1>4. ASSUME NEW k \in 0..(n - 1)
        PROVE  Runner!StopInForce(cs2, t, k) = Runner!StopInForce(cs, t, k)
    <2>1. \A j \in (o + 1)..k : cs2[j + 1] = cs[j + 1]
      BY <1>1, <1>2, <1>3 DEF o
    <2> QED
      BY <2>1 DEF Runner!StopInForce, o
  <1>5. Runner!StopInForce(cs2, t, n)
          = IF HalfWay(t, c) THEN 0 ELSE Runner!StopInForce(cs, t, n - 1)
    <2>1. \A j \in (o + 1)..n : j = n \/ (j \in (o + 1)..(n - 1) /\ j \in 0..(n - 1))
      BY <1>1, <1>2 DEF o
    <2>2. n \in (o + 1)..n /\ \A j \in (o + 1)..(n - 1) : j \in (o + 1)..n /\ j \in 0..(n - 1)
      BY <1>1, <1>2 DEF o
    <2>3. (\E j \in (o + 1)..n : HalfWay(t, cs2[j + 1]))
            <=> HalfWay(t, c) \/ \E j \in (o + 1)..(n - 1) : HalfWay(t, cs[j + 1])
      <3> HIDE DEF HalfWay
      <3> QED
        BY <1>1, <1>3, <2>1, <2>2
    <2>4. Runner!StopInForce(cs2, t, n)
            = IF \E j \in (o + 1)..n : HalfWay(t, cs2[j + 1]) THEN 0 ELSE -t.risk
      BY DEF Runner!StopInForce, HalfWay, o
    <2>5. Runner!StopInForce(cs, t, n - 1)
            = IF \E j \in (o + 1)..(n - 1) : HalfWay(t, cs[j + 1]) THEN 0 ELSE -t.risk
      BY DEF Runner!StopInForce, HalfWay, o
    <2> QED
      BY <2>3, <2>4, <2>5
  <1> QED
    BY <1>1, <1>3, <1>4, <1>5 DEF n

\* A later candle adds its own row to those the trade meets, if it is one.
LEMMA MeetsAppend ==
    ASSUME NEW t \in RunTrade, NEW cs \in Seq(CandleShapes), NEW c \in CandleShapes,
           t.opened < Len(cs), NEW cs2, Longer(cs2, cs, c)
    PROVE  /\ \A k \in Runner!Meets(cs, t) : k \in Runner!Meets(cs2, t)
           /\ \A k \in Runner!Meets(cs2, t) : k \in Runner!Meets(cs, t) \/ k = Len(cs)
           /\ Len(cs) \in Runner!Meets(cs2, t) <=> Out(cs2, t, Len(cs))
  <1> DEFINE n == Len(cs)
             o == t.opened
  <1>1. /\ n \in Nat /\ o \in Nat /\ o < n /\ Len(cs2) = n + 1
        /\ \A k \in 0..(n - 1) : cs2[k + 1] = cs[k + 1]
        /\ \A k \in 0..(n - 1) :
             Runner!StopInForce(cs2, t, k) = Runner!StopInForce(cs, t, k)
    BY StopAppend DEF RunTrade
  <1>2. /\ Runner!Meets(cs, t) = {k \in (o + 1)..(n - 1) : Out(cs, t, k)}
        /\ Runner!Meets(cs2, t) = {k \in (o + 1)..(n + 1 - 1) : Out(cs2, t, k)}
    BY <1>1 DEF Runner!Meets, Out
  <1> HIDE DEF n, o
  <1>3. \A k \in (o + 1)..(n - 1) : Out(cs2, t, k) <=> Out(cs, t, k)
    <2> TAKE k \in (o + 1)..(n - 1)
    <2>1. k \in 0..(n - 1)
      BY <1>1
    <2> QED
      BY <1>1, <2>1 DEF Out
  <1>4. /\ n + 1 - 1 = n /\ n \in (o + 1)..n
        /\ \A k \in (o + 1)..n : k = n \/ k \in (o + 1)..(n - 1)
        /\ \A k \in (o + 1)..(n - 1) : k \in (o + 1)..n
    BY <1>1
  <1> HIDE DEF Out
  <1> QED
    BY <1>2, <1>3, <1>4 DEF n

\* A trade that is still open on the last of the candles cs.
Running(t, cs) ==
    /\ t \in RunTrade /\ t.opened < Len(cs)
    /\ t.entry = cs[t.opened + 1].close
    /\ t.stop = Runner!StopInForce(cs, t, Len(cs) - 1)
    /\ Runner!Meets(cs, t) = {}

Bounded(x) == x.pnl >= -1000 * x.trade.risk /\ x.pnl <= x.trade.entry

\* An exit the loop has made, and one at the end of the data.
Left(x, cs) ==
    /\ x.reason # "END_DATA" /\ Bounded(x) /\ x.trade.opened < Len(cs)
    /\ x.closed \in Runner!Meets(cs, x.trade)
    /\ \A k \in Runner!Meets(cs, x.trade) : x.closed <= k
    /\ x.pnl = IF 1000 * Runner!Gain(x.trade, cs[x.closed + 1]) >= x.trade.entry
               THEN x.trade.entry
               ELSE 1000 * Runner!StopInForce(cs, x.trade, x.closed)

Stayed(x, cs) ==
    x.reason = "END_DATA" /\ Bounded(x) /\ Runner!Meets(cs, x.trade) = {}

\* Two states of one trade, which differ in the stop only.
SameTrade(u, t) ==
    u.dir = t.dir /\ u.entry = t.entry /\ u.opened = t.opened /\ u.risk = t.risk

LEMMA SameMeets ==
    ASSUME NEW t, NEW u, SameTrade(u, t), NEW cs
    PROVE  /\ \A c : Runner!Gain(u, c) = Runner!Gain(t, c)
           /\ \A k : Runner!StopInForce(cs, u, k) = Runner!StopInForce(cs, t, k)
           /\ Runner!Meets(cs, u) = Runner!Meets(cs, t)
  <1>1. \A c : /\ Runner!Gain(u, c) = Runner!Gain(t, c)
               /\ Runner!Worst(u, c) = Runner!Worst(t, c)
    BY DEF SameTrade, Runner!Gain, Runner!Worst
  <1>2. \A k : Runner!StopInForce(cs, u, k) = Runner!StopInForce(cs, t, k)
    BY <1>1 DEF SameTrade, Runner!StopInForce
  <1>3. Runner!Meets(cs, u) = Runner!Meets(cs, t)
    BY <1>1, <1>2 DEF SameTrade, Runner!Meets
  <1> QED
    BY <1>1, <1>2, <1>3

LEMMA MovedIs ==
    ASSUME NEW t \in RunTrade, t.stop \in {0, -t.risk}, NEW c \in CandleShapes
    PROVE  /\ Runner!Moved(t, c) \in RunTrade /\ SameTrade(Runner!Moved(t, c), t)
           /\ Runner!Moved(t, c).stop = Runner!StopAfter(t, c)
           /\ Runner!StopAfter(t, c) = IF HalfWay(t, c) THEN 0 ELSE t.stop
           /\ Runner!StopAfter(t, c) \in {0, -t.risk}
  <1>1. t.risk \in Nat \ {0} /\ t.stop \in Int
    BY DEF RunTrade
  <1>2. /\ Runner!StopAfter(t, c) = IF HalfWay(t, c) THEN 0 ELSE t.stop
        /\ Runner!StopAfter(t, c) \in {0, -t.risk}
    <2> HIDE DEF HalfWay
    <2>1. Runner!BreakEvenReached(t, c) <=> HalfWay(t, c)
      BY DEF Runner!BreakEvenReached, HalfWay
    <2> QED
      BY <1>1, <2>1 DEF Runner!StopAfter
  <1>3. Runner!StopAfter(t, c) \in Int
    BY <1>1, <1>2
  <1> QED
    BY <1>2, <1>3 DEF Runner!Moved, RunTrade, SameTrade

LEMMA InForceIs ==
    ASSUME NEW cs, NEW t, NEW k
    PROVE  Runner!StopInForce(cs, t, k) \in {0, -t.risk}
  BY DEF Runner!StopInForce

\* The test of the loop is that of the history.
LEMMA LeavesIs ==
    ASSUME NEW cs \in Seq(CandleShapes), NEW t, Running(t, cs),
           NEW c \in CandleShapes, NEW cs2, Longer(cs2, cs, c)
    PROVE  /\ t \in RunTrade /\ t.stop \in {0, -t.risk}
           /\ Runner!StopAfter(t, c) = Runner!StopInForce(cs2, t, Len(cs))
           /\ Runner!Leaves(t, c) <=> Out(cs2, t, Len(cs))
  <1>1. t \in RunTrade /\ t.opened < Len(cs) /\ t.stop = Runner!StopInForce(cs, t, Len(cs) - 1)
    BY DEF Running
  <1>2. t.stop \in {0, -t.risk}
    BY <1>1, InForceIs
  <1>3. /\ cs2[Len(cs) + 1] = c
        /\ Runner!StopInForce(cs2, t, Len(cs))
             = IF HalfWay(t, c) THEN 0 ELSE Runner!StopInForce(cs, t, Len(cs) - 1)
    BY <1>1, StopAppend
  <1>4. Runner!StopAfter(t, c) = IF HalfWay(t, c) THEN 0 ELSE t.stop
    BY <1>1, <1>2, MovedIs
  <1>5. Runner!StopAfter(t, c) = Runner!StopInForce(cs2, t, Len(cs))
    BY <1>1, <1>3, <1>4
  <1> QED
    BY <1>1, <1>2, <1>3, <1>5 DEF Runner!Leaves, Runner!TargetReached, Out

LEMMA RunsOn ==
    ASSUME NEW cs \in Seq(CandleShapes), NEW t, Running(t, cs),
           NEW c \in CandleShapes, NEW cs2, Longer(cs2, cs, c), ~Runner!Leaves(t, c),
           NEW u, u = Runner!Moved(t, c)
    PROVE  Running(u, cs2) /\ u.opened = t.opened
  <1> DEFINE n == Len(cs)
  <1>1. /\ t \in RunTrade /\ t.stop \in {0, -t.risk}
        /\ Runner!StopAfter(t, c) = Runner!StopInForce(cs2, t, n)
        /\ ~Out(cs2, t, n)
    BY LeavesIs
  <1>2. /\ t.opened < n /\ t.entry = cs[t.opened + 1].close /\ Runner!Meets(cs, t) = {}
    BY DEF Running
  <1>3. u \in RunTrade /\ SameTrade(u, t) /\ u.stop = Runner!StopAfter(t, c)
    BY <1>1, MovedIs
  <1>4. /\ n \in Nat /\ Len(cs2) = n + 1
        /\ \A k \in 0..(n - 1) : cs2[k + 1] = cs[k + 1]
    BY <1>1, <1>2, StopAppend
  <1>5. Runner!Meets(cs2, t) = {}
    BY <1>1, <1>2, MeetsAppend
  <1> HIDE DEF n
  <1>6. /\ Runner!Meets(cs2, u) = Runner!Meets(cs2, t)
        /\ Runner!StopInForce(cs2, u, n) = Runner!StopInForce(cs2, t, n)
    BY <1>3, SameMeets
  <1>7. t.opened \in Nat /\ u.opened = t.opened /\ u.entry = t.entry
    BY <1>1, <1>3 DEF RunTrade, SameTrade
  <1>8. /\ u.opened < Len(cs2) /\ Len(cs2) - 1 = n
        /\ cs2[t.opened + 1] = cs[t.opened + 1]
    BY <1>2, <1>4, <1>7
  <1>9. Running(u, cs2)
    BY <1>1, <1>2, <1>3, <1>5, <1>6, <1>7, <1>8 DEF Running
  <1> QED
    BY <1>7, <1>9

\* The pnl of an exit of the loop is that of the target or of its stop.
LEMMA ExitIs ==
    ASSUME NEW cs \in Seq(CandleShapes), NEW t, Running(t, cs),
           NEW c \in CandleShapes, NEW cs2, Longer(cs2, cs, c), Runner!Leaves(t, c),
           NEW x, x = Runner!ExitOn(t, c, Len(cs))
    PROVE  /\ x \in RunExit /\ Left(x, cs2)
           /\ x.trade.opened = t.opened /\ x.closed = Len(cs)
  <1> DEFINE n == Len(cs)
             u == x.trade
             stop == Runner!StopAfter(t, c)
  <1>1. /\ t \in RunTrade /\ t.stop \in {0, -t.risk}
        /\ stop = Runner!StopInForce(cs2, t, n) /\ Out(cs2, t, n)
    BY LeavesIs
  <1>2. t.opened < n /\ Runner!Meets(cs, t) = {}
    BY DEF Running
  <1>3. /\ n \in Nat /\ Len(cs2) = n + 1 /\ cs2[n + 1] = c
    BY <1>1, <1>2, StopAppend
  <1>4. stop \in {0, -t.risk} /\ t.risk \in Nat \ {0} /\ t.entry \in Nat
    BY <1>1, MovedIs DEF RunTrade
  <1>5. /\ x = IF 1000 * Runner!Gain(t, c) >= t.entry
               THEN [trade |-> t, reason |-> "TARGET", pnl |-> t.entry, closed |-> n]
               ELSE [trade |-> Runner!Moved(t, c), reason |-> "SL", pnl |-> 1000 * stop,
                     closed |-> n]
    BY DEF Runner!ExitOn, Runner!Exit, Runner!TargetReached
  <1>6. /\ u \in RunTrade /\ SameTrade(u, t)
    <2>1. Runner!Moved(t, c) \in RunTrade /\ SameTrade(Runner!Moved(t, c), t)
      BY <1>1, MovedIs
    <2> QED
      BY <1>1, <1>5, <2>1 DEF SameTrade
  <1>7. /\ x.closed = n /\ x.reason \in RunReasons /\ x.reason # "END_DATA"
        /\ x.pnl = IF 1000 * Runner!Gain(t, c) >= t.entry THEN t.entry ELSE 1000 * stop
    BY <1>5 DEF RunReasons
  <1>8. x.pnl \in Int /\ x.pnl >= -1000 * t.risk /\ x.pnl <= t.entry
    <2> HIDE DEF stop
    <2> DEFINE r == t.risk
               e == t.entry
    <2> HIDE DEF r, e
    <2>1. r \in Nat \ {0} /\ e \in Nat /\ stop \in {0, -r}
      BY <1>4 DEF r, e
    <2>2. x.pnl \in {e, 1000 * stop}
      BY <1>7 DEF e
    <2>3. x.pnl \in Int /\ x.pnl >= -1000 * r /\ x.pnl <= e
      BY <2>1, <2>2
    <2> QED
      BY <2>3 DEF r, e
  <1>9. x \in RunExit
    <2>1. /\ x = [trade |-> u, reason |-> x.reason, pnl |-> x.pnl, closed |-> x.closed]
      BY <1>5
    <2>2. /\ u \in RunTrade /\ x.reason \in RunReasons /\ x.pnl \in Int /\ x.closed \in Nat
      BY <1>3, <1>6, <1>7, <1>8
    <2> HIDE DEF u
    <2> QED
      BY <2>1, <2>2 DEF RunExit
  <1>10. u.opened = t.opened /\ u.entry = t.entry /\ u.risk = t.risk
    BY <1>6 DEF SameTrade
  <1>11. Bounded(x)
    BY <1>8, <1>10 DEF Bounded
  <1>12. /\ Runner!Meets(cs2, u) = Runner!Meets(cs2, t)
         /\ Runner!Gain(u, c) = Runner!Gain(t, c)
         /\ Runner!StopInForce(cs2, u, n) = Runner!StopInForce(cs2, t, n)
    <2> HIDE DEF u, n
    <2> QED
      BY <1>6, SameMeets
  <1>13. n \in Runner!Meets(cs2, t) /\ \A k \in Runner!Meets(cs2, t) : n <= k
    <2>1. /\ n \in Runner!Meets(cs2, t)
          /\ \A k \in Runner!Meets(cs2, t) : k = n
      BY <1>1, <1>2, MeetsAppend
    <2> QED
      BY <1>3, <2>1
  <1>14. Left(x, cs2)
    <2>1. t.opened \in Nat
      BY <1>1 DEF RunTrade
    <2>2. t.opened < Len(cs2)
      BY <1>2, <1>3, <2>1
    <2>3. x.pnl = IF 1000 * Runner!Gain(u, cs2[n + 1]) >= u.entry
                  THEN u.entry ELSE 1000 * Runner!StopInForce(cs2, u, n)
      BY <1>1, <1>3, <1>7, <1>10, <1>12
    <2> HIDE DEF n
    <2> QED
      BY <1>7, <1>10, <1>11, <1>12, <1>13, <2>2, <2>3 DEF Left
  <1> QED
    BY <1>7, <1>9, <1>10, <1>14

\* An exit that was made stays the right one.
LEMMA LeftKept ==
    ASSUME NEW cs \in Seq(CandleShapes), NEW x \in RunExit, Left(x, cs),
           NEW c \in CandleShapes, NEW cs2, Longer(cs2, cs, c)
    PROVE  Left(x, cs2)
  <1> DEFINE t == x.trade
             k0 == x.closed
             n == Len(cs)
  <1>1. t \in RunTrade /\ k0 \in Nat /\ t.opened \in Nat
    BY DEF RunExit, RunTrade
  <1>2. /\ x.reason # "END_DATA" /\ Bounded(x) /\ t.opened < n
        /\ k0 \in Runner!Meets(cs, t)
        /\ \A k \in Runner!Meets(cs, t) : k0 <= k
        /\ x.pnl = IF 1000 * Runner!Gain(t, cs[k0 + 1]) >= t.entry
                   THEN t.entry ELSE 1000 * Runner!StopInForce(cs, t, k0)
    BY DEF Left
  <1>3. /\ n \in Nat /\ Len(cs2) = n + 1
        /\ \A k \in 0..(n - 1) : cs2[k + 1] = cs[k + 1]
        /\ \A k \in 0..(n - 1) :
             Runner!StopInForce(cs2, t, k) = Runner!StopInForce(cs, t, k)
    BY <1>1, <1>2, StopAppend
  <1>4. /\ \A k \in Runner!Meets(cs, t) : k \in Runner!Meets(cs2, t)
        /\ \A k \in Runner!Meets(cs2, t) : k \in Runner!Meets(cs, t) \/ k = n
    BY <1>1, <1>2, MeetsAppend
  <1>5. k0 \in (t.opened + 1)..(n - 1)
    BY <1>2 DEF Runner!Meets
  <1> HIDE DEF t, k0, n
  <1>6. k0 \in 0..(n - 1) /\ k0 <= n /\ t.opened < Len(cs2)
    BY <1>1, <1>2, <1>3, <1>5
  <1>7. \A k \in Runner!Meets(cs2, t) : k0 <= k
    BY <1>2, <1>4, <1>6
  <1>8. /\ cs2[k0 + 1] = cs[k0 + 1]
        /\ Runner!StopInForce(cs2, t, k0) = Runner!StopInForce(cs, t, k0)
        /\ k0 \in Runner!Meets(cs2, t)
    BY <1>2, <1>3, <1>4, <1>6
  <1> QED
    BY <1>2, <1>6, <1>7, <1>8 DEF Left, t, k0

LEMMA EntryIs ==
    ASSUME NEW cs \in Seq(CandleShapes), NEW c \in CandleShapes, NEW cs2, Longer(cs2, cs, c),
           NEW t \in Runner!EntriesOn(c, Len(cs))
    PROVE  Running(t, cs2) /\ t.opened = Len(cs)
  <1> DEFINE n == Len(cs)
  <1>1. n \in Nat /\ Len(cs2) = n + 1 /\ cs2[n + 1] = c
    BY LenProperties, AppendProperties DEF Longer
  <1> DEFINE beyond(d, margin) ==
               margin + (IF d = "LONG" THEN c.close - c.low ELSE c.high - c.close)
  <1>2. PICK d \in {"LONG", "SHORT"}, margin \in StopMargins :
          t = [dir |-> d, entry |-> c.close, stop |-> -beyond(d, margin), opened |-> n,
               risk |-> beyond(d, margin)]
    BY DEF Runner!EntriesOn
  <1> DEFINE risk == beyond(d, margin)
  <1>3. risk \in Nat \ {0} /\ c.close \in Nat
    <2>1. /\ c.close \in Nat /\ c.low \in Nat /\ c.high \in Nat
          /\ c.low <= c.close /\ c.close <= c.high /\ margin \in Nat \ {0}
      BY RunnerAssumption
    <2> DEFINE l == c.low
               h == c.high
               k == c.close
    <2>2. risk = margin + (IF d = "LONG" THEN k - l ELSE h - k)
      OBVIOUS
    <2> HIDE DEF l, h, k, risk
    <2>3. k \in Nat /\ l \in Nat /\ h \in Nat /\ l <= k /\ k <= h
      BY <2>1 DEF l, h, k
    <2> QED
      BY <2>1, <2>2, <2>3 DEF k
  <1> HIDE DEF n, risk, beyond
  <1>4. t \in RunTrade /\ t.opened = n /\ t.risk = risk /\ t.stop = -risk /\ t.entry = c.close
    BY <1>1, <1>2, <1>3 DEF RunTrade, Dirs, risk
  <1>5. Len(cs2) - 1 = n /\ (n + 1)..n = {} /\ n < n + 1
    BY <1>1
  <1>6. Runner!StopInForce(cs2, t, n) = -t.risk
    BY <1>4, <1>5 DEF Runner!StopInForce
  <1>7. Runner!Meets(cs2, t) = {}
    BY <1>4, <1>5 DEF Runner!Meets
  <1> QED
    BY <1>1, <1>4, <1>5, <1>6, <1>7 DEF Running, n

\* A trade that no bar ended leaves at the last close, between its bounds.
LEMMA EndIs ==
    ASSUME NEW cs \in Seq(CandleShapes), cs # <<>>, NEW t, Running(t, cs),
           NEW x, x = Runner!Exit(t, "END_DATA", 1000 * Runner!Gain(t, cs[Len(cs)]), Len(cs) - 1)
    PROVE  x \in RunExit /\ Stayed(x, cs) /\ x.trade = t
  <1> DEFINE n == Len(cs)
             c == cs[n]
             g == Runner!Gain(t, c)
             w == Runner!Worst(t, c)
             r == t.risk
             e == t.entry
  <1>1. n \in Nat \ {0}
    BY EmptySeq
  <1>2. /\ t \in RunTrade /\ t.opened < n /\ e = cs[t.opened + 1].close
        /\ Runner!Meets(cs, t) = {}
    BY DEF Running
  <1>3. c \in CandleShapes
    BY <1>1, ElementOfSeq
  <1>4. g \in Int /\ w \in Int /\ w <= g
    BY <1>2, <1>3, GainIs
  <1>5. r \in Nat \ {0} /\ e \in Nat /\ t.opened \in Nat
    BY <1>2 DEF RunTrade
  <1>6. 1000 * g >= -1000 * r /\ 1000 * g <= e
    <2>1. CASE t.opened = n - 1
      <3>1. t.opened + 1 = n
        BY <1>1, <2>1
      <3>2. c.close = e /\ c.close \in Int
        BY <1>2, <1>3, <3>1, RunnerAssumption
      <3>3. g = 0
        <4>1. e - e = 0
          BY <1>5
        <4> QED
          BY <3>2, <4>1 DEF Runner!Gain
      <3> HIDE DEF g, r, e
      <3> QED
        BY <1>5, <3>3
    <2>2. CASE t.opened # n - 1
      <3>1. n - 1 \in (t.opened + 1)..(n - 1) /\ (n - 1) + 1 = n
        BY <1>1, <1>2, <1>5, <2>2
      <3> DEFINE s == Runner!StopInForce(cs, t, n - 1)
      <3>2. ~(1000 * g >= e) /\ ~(w <= s)
        <4> HIDE DEF n
        <4>1. n - 1 \notin Runner!Meets(cs, t) /\ c = cs[(n - 1) + 1]
          BY <1>2, <3>1
        <4> QED
          BY <3>1, <4>1 DEF Runner!Meets, n
      <3>3. s \in {0, -r}
        BY InForceIs
      <3> HIDE DEF g, w, r, e, s
      <3> QED
        BY <1>4, <1>5, <3>2, <3>3
    <2> QED
      BY <2>1, <2>2
  <1>7. /\ x = [trade |-> t, reason |-> "END_DATA", pnl |-> 1000 * g, closed |-> n - 1]
    BY DEF Runner!Exit
  <1>8. 1000 * g \in Int /\ n - 1 \in Nat
    <2> HIDE DEF g
    <2> QED
      BY <1>1, <1>4
  <1>9. x \in RunExit
    BY <1>2, <1>7, <1>8 DEF RunExit, RunReasons
  <1> QED
    BY <1>2, <1>6, <1>7, <1>9 DEF Stayed, Bounded

-----------------------------------------------------------------------------
(***************************************************************************)
(* The invariant of run_backtest: the open trade, the trades that left and  *)
(* what the loop remembers of the last entry.                               *)
(***************************************************************************)
\* From one trade of ts to the next, and from the last to an entry on row o.
Follows(o, x) == x.closed <= o /\ o - x.trade.opened >= CooldownBars

Spaced(ts) ==
    \A i \in 1..(Len(ts) - 1) : Follows(ts[i + 1].trade.opened, ts[i])

RunTyped ==
    /\ candles \in Seq(CandleShapes) /\ trades \in Seq(RunExit)
    /\ signals \in Nat /\ lastEntry \in Int

\* With no trade open the last entry is that of the last trade.
Idle ==
    /\ openTrade = {} /\ signals = Len(trades)
    /\ trades # <<>> => /\ lastEntry = trades[Len(trades)].trade.opened
                        /\ trades[Len(trades)].closed <= Len(candles) - 1

Carries(t) ==
    /\ openTrade = {t} /\ signals = Len(trades) + 1
    /\ Running(t, candles) /\ lastEntry = t.opened
    /\ trades # <<>> => Follows(t.opened, trades[Len(trades)])

InLoop ==
    /\ \A i \in 1..Len(trades) : Left(trades[i], candles)
    /\ Spaced(trades) /\ (Idle \/ \E t \in openTrade : Carries(t))

Reported ==
    /\ \A i \in 1..Len(trades) : Left(trades[i], candles) \/ Stayed(trades[i], candles)
    /\ Spaced(trades) /\ openTrade = {} /\ signals = Len(trades)
    /\ \A r \in report : r \in Runner!Reports(trades)

RunInv == RunTyped /\ (report = {} => InLoop) /\ (report # {} => Reported)

LEMMA RunStarts ==
    ASSUME Runner!Init
    PROVE  RunInv
  <1>1. /\ openTrade = {} /\ trades = <<>> /\ signals = 0
        /\ lastEntry = -9999 /\ candles = <<>> /\ report = {}
    BY DEF Runner!Init
  <1>2. /\ candles \in Seq(CandleShapes) /\ trades \in Seq(RunExit) /\ Len(trades) = 0
    BY <1>1, EmptySeq
  <1>3. RunTyped /\ Idle
    BY <1>1, <1>2 DEF RunTyped, Idle
  <1>4. InLoop
    BY <1>2, <1>3 DEF InLoop, Spaced
  <1> QED
    BY <1>1, <1>3, <1>4 DEF RunInv

\* One exit more, made after those of ts.
LEMMA SpacedAppend ==
    ASSUME NEW ts \in Seq(RunExit), Spaced(ts), NEW x \in RunExit,
           ts # <<>> => Follows(x.trade.opened, ts[Len(ts)]),
           NEW ts2, Longer(ts2, ts, x)
    PROVE  /\ ts2 \in Seq(RunExit) /\ Len(ts2) = Len(ts) + 1 /\ Len(ts) \in Nat
           /\ \A i \in 1..Len(ts) : ts2[i] = ts[i]
           /\ ts2[Len(ts2)] = x /\ ts2 # <<>> /\ Spaced(ts2)
  <1> DEFINE n == Len(ts)
  <1>1. /\ n \in Nat /\ ts2 \in Seq(RunExit) /\ Len(ts2) = n + 1
        /\ \A i \in 1..n : ts2[i] = ts[i]
        /\ ts2[n + 1] = x
    BY LenProperties, AppendProperties DEF Longer
  <1>2. n # 0 => ts # <<>>
    BY EmptySeq
  <1>3. ts2 # <<>>
    BY <1>1, EmptySeq
  <1> HIDE DEF n
  <1>4. ASSUME NEW i \in 1..(Len(ts2) - 1)
        PROVE  Follows(ts2[i + 1].trade.opened, ts2[i])
    <2>1. i \in 1..n
      BY <1>1
    <2>2. CASE i = n
      <3>1. ts # <<>>
        BY <1>1, <1>2, <2>1
      <3>2. Follows(x.trade.opened, ts[n])
        BY <3>1 DEF n
      <3> QED
        BY <1>1, <2>1, <2>2, <3>2
    <2>3. CASE i # n
      <3>1. i \in 1..(n - 1) /\ i + 1 \in 1..n
        BY <1>1, <2>1, <2>3
      <3>2. Follows(ts[i + 1].trade.opened, ts[i])
        BY <3>1 DEF Spaced, n
      <3> QED
        BY <1>1, <2>1, <3>1, <3>2
    <2> QED
      BY <2>2, <2>3
  <1>5. Spaced(ts2)
    BY <1>4 DEF Spaced
  <1> QED
    BY <1>1, <1>3, <1>5 DEF n

\* The end of a row with no trade left: the strategy is asked.
LEMMA Asked ==
    ASSUME RunTyped, NEW c \in CandleShapes, Longer(candles', candles, c),
           trades' \in Seq(RunExit), Spaced(trades'),
           \A i \in 1..Len(trades') : Left(trades'[i], candles'),
           signals = Len(trades'),
           trades' # <<>> => /\ lastEntry = trades'[Len(trades')].trade.opened
                             /\ trades'[Len(trades')].closed <= Len(candles),
           Runner!Ask(c, Len(candles))
    PROVE  RunTyped' /\ InLoop'
  <1> DEFINE n == Len(candles)
             x == trades'[Len(trades')]
  <1>1. /\ n \in Nat /\ candles' \in Seq(CandleShapes) /\ Len(candles') = n + 1
        /\ signals \in Nat /\ lastEntry \in Int
    BY LenProperties, AppendProperties DEF RunTyped, Longer
  <1>2. CASE openTrade' = {} /\ UNCHANGED <<signals, lastEntry>>
    <2>1. RunTyped'
      BY <1>1, <1>2 DEF RunTyped
    <2>2. Len(candles') - 1 = n
      BY <1>1
    <2>3. Idle'
      BY <1>2, <2>2 DEF Idle
    <2> QED
      BY <2>1, <2>3 DEF InLoop
  <1>3. CASE /\ n - lastEntry >= CooldownBars
             /\ \E t \in Runner!EntriesOn(c, n) : openTrade' = {t}
             /\ signals' = signals + 1 /\ lastEntry' = n
    <2>1. PICK t \in Runner!EntriesOn(c, n) : openTrade' = {t}
      BY <1>3
    <2>2. Running(t, candles') /\ t.opened = n
      BY <2>1, EntryIs DEF RunTyped
    <2>3. signals' \in Nat /\ lastEntry' \in Int
      BY <1>1, <1>3
    <2>4. RunTyped'
      BY <1>1, <2>3 DEF RunTyped
    <2>5. trades' # <<>> => Follows(n, x)
      BY <1>3 DEF Follows
    <2>6. signals' = Len(trades') + 1
      BY <1>3
    <2>7. /\ openTrade' = {t} /\ lastEntry' = t.opened
          /\ (trades' # <<>> => Follows(t.opened, x))
      BY <1>3, <2>1, <2>2, <2>5
    <2>8. \E u \in openTrade' :
            /\ openTrade' = {u} /\ signals' = Len(trades') + 1
            /\ Running(u, candles') /\ lastEntry' = u.opened
            /\ trades' # <<>> => Follows(u.opened, x)
      BY <2>2, <2>6, <2>7
    <2> QED
      BY <2>4, <2>8 DEF InLoop, Carries
  <1> QED
    BY <1>2, <1>3 DEF Runner!Ask

\* The exits of the loop so far stay right on the next row.
LEMMA ExitsKept ==
    ASSUME RunTyped, InLoop, NEW c \in CandleShapes, NEW cs2, Longer(cs2, candles, c)
    PROVE  \A i \in 1..Len(trades) : Left(trades[i], cs2)
  <1> TAKE i \in 1..Len(trades)
  <1>1. trades[i] \in RunExit
    BY ElementOfSeq DEF RunTyped
  <1>2. Left(trades[i], candles)
    BY DEF InLoop
  <1> QED
    BY <1>1, <1>2, LeftKept DEF RunTyped

LEMMA RowRuns ==
    ASSUME RunTyped, InLoop, Runner!Row
    PROVE  RunTyped' /\ InLoop'
  <1> DEFINE n == Len(candles)
  <1>1. PICK c \in CandleShapes :
          /\ Longer(candles', candles, c)
          /\ \/ openTrade = {} /\ UNCHANGED trades /\ Runner!Ask(c, n)
             \/ \E t \in openTrade :
                  IF Runner!Leaves(t, c)
                  THEN /\ trades' = Append(trades, Runner!ExitOn(t, c, n))
                       /\ Runner!Ask(c, n)
                  ELSE /\ openTrade' = {Runner!Moved(t, c)}
                       /\ UNCHANGED <<trades, signals, lastEntry>>
    BY DEF Runner!Row, Longer
  <1>2. /\ candles \in Seq(CandleShapes) /\ trades \in Seq(RunExit)
        /\ signals \in Nat /\ lastEntry \in Int /\ Spaced(trades)
    BY DEF RunTyped, InLoop
  <1>3. n \in Nat /\ Len(trades) \in Nat
    BY <1>2, LenProperties
  <1>4. \A i \in 1..Len(trades) : Left(trades[i], candles')
    BY <1>1, ExitsKept
  <1>5. CASE openTrade = {} /\ UNCHANGED trades /\ Runner!Ask(c, n)
    <2>1. Idle
      BY <1>5 DEF InLoop
    <2>2. signals = Len(trades)
      BY <2>1 DEF Idle
    <2>3. trades # <<>> => /\ lastEntry = trades[Len(trades)].trade.opened
                           /\ trades[Len(trades)].closed <= n
      <3> SUFFICES ASSUME trades # <<>> PROVE trades[Len(trades)].closed <= n
        BY <2>1 DEF Idle
      <3>1. trades[Len(trades)] \in RunExit
        <4>1. Len(trades) \in 1..Len(trades)
          BY <1>2, EmptySeq
        <4> QED
          BY <1>2, <4>1, ElementOfSeq
      <3>2. trades[Len(trades)].closed \in Nat /\ trades[Len(trades)].closed <= n - 1
        BY <2>1, <3>1 DEF Idle, RunExit
      <3> DEFINE k == trades[Len(trades)].closed
      <3> HIDE DEF k
      <3>3. k <= n
        <4>1. k \in Nat /\ k <= n - 1
          BY <3>2 DEF k
        <4> QED
          BY <1>3, <4>1
      <3> QED
        BY <3>3 DEF k
    <2>4. trades' \in Seq(RunExit) /\ Spaced(trades') /\ signals = Len(trades')
      BY <1>2, <1>5, <2>2
    <2>5. /\ \A i \in 1..Len(trades') : Left(trades'[i], candles')
          /\ trades' # <<>> => /\ lastEntry = trades'[Len(trades')].trade.opened
                               /\ trades'[Len(trades')].closed <= n
      BY <1>4, <1>5, <2>3
    <2> QED
      BY <1>1, <1>5, <2>4, <2>5, Asked
  <1>6. ASSUME NEW t \in openTrade,
               IF Runner!Leaves(t, c)
               THEN trades' = Append(trades, Runner!ExitOn(t, c, n)) /\ Runner!Ask(c, n)
               ELSE /\ openTrade' = {Runner!Moved(t, c)}
                    /\ UNCHANGED <<trades, signals, lastEntry>>
        PROVE  RunTyped' /\ InLoop'
    <2>1. Carries(t)
      <3>1. PICK u \in openTrade : Carries(u)
        BY <1>6 DEF InLoop, Idle
      <3>2. u = t
        BY <1>6, <3>1 DEF Carries
      <3> QED
        BY <3>1, <3>2
    <2>2. /\ openTrade = {t} /\ signals = Len(trades) + 1
          /\ Running(t, candles) /\ lastEntry = t.opened
          /\ trades # <<>> => Follows(t.opened, trades[Len(trades)])
      BY <2>1 DEF Carries
    <2>3. CASE Runner!Leaves(t, c)
      <3> DEFINE x == Runner!ExitOn(t, c, n)
      <3>1. /\ x \in RunExit /\ Left(x, candles')
            /\ x.trade.opened = t.opened /\ x.closed = n
        BY <1>1, <1>2, <2>2, <2>3, ExitIs
      <3>2. Longer(trades', trades, x) /\ Runner!Ask(c, n)
        BY <1>6, <2>3 DEF Longer
      <3> HIDE DEF x
      <3>3. trades # <<>> => Follows(x.trade.opened, trades[Len(trades)])
        BY <2>2, <3>1
      <3>4. /\ trades' \in Seq(RunExit) /\ Len(trades') = Len(trades) + 1
            /\ \A i \in 1..Len(trades) : trades'[i] = trades[i]
            /\ trades'[Len(trades')] = x /\ Spaced(trades')
        BY <1>2, <3>1, <3>2, <3>3, SpacedAppend
      <3>5. \A i \in 1..Len(trades') : Left(trades'[i], candles')
        <4> TAKE i \in 1..Len(trades')
        <4>1. i = Len(trades') \/ i \in 1..Len(trades)
          BY <1>3, <3>4
        <4> QED
          BY <1>4, <3>1, <3>4, <4>1
      <3>6. /\ signals = Len(trades')
            /\ lastEntry = trades'[Len(trades')].trade.opened
            /\ trades'[Len(trades')].closed <= n
        BY <1>3, <2>2, <3>1, <3>4
      <3> QED
        BY <1>1, <3>2, <3>4, <3>5, <3>6, Asked
    <2>4. CASE ~Runner!Leaves(t, c)
      <3> DEFINE u == Runner!Moved(t, c)
      <3>1. openTrade' = {u} /\ UNCHANGED <<trades, signals, lastEntry>>
        BY <1>6, <2>4
      <3>2. Running(u, candles') /\ u.opened = t.opened
        BY <1>1, <1>2, <2>2, <2>4, RunsOn
      <3>3. candles' \in Seq(CandleShapes)
        BY <1>1, <1>2, AppendProperties DEF Longer
      <3>4. RunTyped'
        BY <1>2, <3>1, <3>3 DEF RunTyped
      <3> HIDE DEF u
      <3>5. \E v \in openTrade' :
              /\ openTrade' = {v} /\ signals' = Len(trades') + 1
              /\ Running(v, candles') /\ lastEntry' = v.opened
              /\ trades' # <<>> => Follows(v.opened, trades'[Len(trades')])
        BY <2>2, <3>1, <3>2
      <3>6. Spaced(trades') /\ \A i \in 1..Len(trades') : Left(trades'[i], candles')
        BY <1>2, <1>4, <3>1
      <3> QED
        BY <3>4, <3>5, <3>6 DEF InLoop, Carries
    <2> QED
      BY <2>3, <2>4
  <1> QED
    BY <1>1, <1>5, <1>6

LEMMA RunEnds ==
    ASSUME RunTyped, InLoop, Runner!Finish
    PROVE  RunTyped' /\ Reported' /\ report' # {}
  <1>1. /\ candles # <<>> /\ openTrade' = {}
        /\ report' # {} /\ \A r \in report' : r \in Runner!Reports(trades')
        /\ UNCHANGED <<signals, lastEntry, candles>>
        /\ \/ openTrade = {} /\ UNCHANGED trades
           \/ \E t \in openTrade :
                trades' = Append(trades, Runner!Exit(t, "END_DATA",
                                           1000 * Runner!Gain(t, candles[Len(candles)]),
                                           Len(candles) - 1))
    BY DEF Runner!Finish
  <1>2. /\ candles \in Seq(CandleShapes) /\ trades \in Seq(RunExit)
        /\ signals \in Nat /\ lastEntry \in Int /\ Spaced(trades)
        /\ \A i \in 1..Len(trades) : Left(trades[i], candles)
    BY DEF RunTyped, InLoop
  <1>3. CASE openTrade = {} /\ UNCHANGED trades
    <2>1. signals = Len(trades)
      BY <1>3 DEF InLoop, Idle
    <2> QED
      BY <1>1, <1>2, <1>3, <2>1 DEF RunTyped, Reported
  <1>4. ASSUME NEW t \in openTrade,
               trades' = Append(trades, Runner!Exit(t, "END_DATA",
                                          1000 * Runner!Gain(t, candles[Len(candles)]),
                                          Len(candles) - 1))
        PROVE  RunTyped' /\ Reported'
    <2>1. /\ signals = Len(trades) + 1 /\ Running(t, candles)
          /\ trades # <<>> => Follows(t.opened, trades[Len(trades)])
      <3>1. PICK u \in openTrade : Carries(u)
        BY <1>4 DEF InLoop, Idle
      <3>2. u = t
        BY <1>4, <3>1 DEF Carries
      <3> QED
        BY <3>1, <3>2 DEF Carries
    <2> DEFINE x == Runner!Exit(t, "END_DATA", 1000 * Runner!Gain(t, candles[Len(candles)]),
                                Len(candles) - 1)
    <2>2. x \in RunExit /\ Stayed(x, candles) /\ x.trade = t
      BY <1>1, <1>2, <2>1, EndIs
    <2>3. Longer(trades', trades, x)
      BY <1>4 DEF Longer
    <2> HIDE DEF x
    <2>4. trades # <<>> => Follows(x.trade.opened, trades[Len(trades)])
      BY <2>1, <2>2
    <2>5. /\ trades' \in Seq(RunExit) /\ Len(trades') = Len(trades) + 1
          /\ Len(trades) \in Nat
          /\ \A i \in 1..Len(trades) : trades'[i] = trades[i]
          /\ trades'[Len(trades')] = x /\ Spaced(trades')
      BY <1>2, <2>2, <2>3, <2>4, SpacedAppend
    <2>6. \A i \in 1..Len(trades') : Left(trades'[i], candles) \/ Stayed(trades'[i], candles)
      <3> TAKE i \in 1..Len(trades')
      <3>1. i = Len(trades') \/ i \in 1..Len(trades)
        BY <2>5
      <3> QED
        BY <1>2, <2>2, <2>5, <3>1
    <2> QED
      BY <1>1, <1>2, <2>1, <2>5, <2>6 DEF RunTyped, Reported
  <1> QED
    BY <1>1, <1>3, <1>4

LEMMA RunStep ==
    ASSUME RunInv, [EngineStep \/ RunnerStep]_<<program, engineVars, runnerVars>>
    PROVE  RunInv'
  <1>1. CASE Runner!Row
    <2>1. report = {} /\ report' = {}
      BY <1>1 DEF Runner!Row
    <2> QED
      BY <1>1, <2>1, RowRuns DEF RunInv
  <1>2. CASE Runner!Finish
    <2>1. report = {}
      BY <1>2 DEF Runner!Finish
    <2> QED
      BY <1>2, <2>1, RunEnds DEF RunInv
  <1>3. CASE UNCHANGED runnerVars
    <2>1. UNCHANGED <<openTrade, trades, signals, lastEntry, candles, report>>
      BY <1>3 DEF runnerVars
    <2>2. RunTyped' <=> RunTyped
      BY <2>1 DEF RunTyped
    <2>3. InLoop' <=> InLoop
      BY <2>1 DEF InLoop, Idle, Carries
    <2>4. Reported' <=> Reported
      BY <2>1 DEF Reported
    <2> QED
      BY <2>1, <2>2, <2>3, <2>4 DEF RunInv
  <1> QED
    BY <1>1, <1>2, <1>3 DEF EngineStep, RunnerStep, Runner!Next

(***************************************************************************)
(* The runner's open trade has met no bar that ends it, and every trade     *)
(* that left did so on the first such bar or at the end of the data.        *)
(***************************************************************************)
THEOREM RunnerInvariant == BacktestSpec => []RunInv
  <1>1. Start => RunInv
    BY RunStarts DEF Start
  <1> QED
    BY <1>1, RunStep, PTL DEF BacktestSpec

(***************************************************************************)
(* The exit loop of run_backtest, which updates the stop and tests it bar   *)
(* by bar, ends each trade where a reader of the whole history would, with  *)
(* the same result, for every history and all constants.                    *)
(***************************************************************************)
THEOREM RunnerExitsMatchHistoryHolds == BacktestSpec => []RunnerExitsMatchHistory
  <1>1. ASSUME RunInv PROVE Runner!RunnerExitsMatchHistory
    <2>1. ASSUME NEW t \in openTrade PROVE Runner!Meets(candles, t) = {}
      <3>1. InLoop
        BY <1>1, <2>1 DEF RunInv, Reported
      <3>2. PICK u \in openTrade : Carries(u)
        BY <2>1, <3>1 DEF InLoop, Idle
      <3>3. u = t
        BY <2>1, <3>2 DEF Carries
      <3> QED
        BY <3>2, <3>3 DEF Carries, Running
    <2>2. ASSUME NEW i \in DOMAIN trades
          PROVE  Left(trades[i], candles) \/ Stayed(trades[i], candles)
      <3>1. i \in 1..Len(trades)
        BY <1>1, <2>2, LenProperties DEF RunInv, RunTyped
      <3> QED
        BY <1>1, <3>1 DEF RunInv, InLoop, Reported
    <2>3. ASSUME NEW i \in DOMAIN trades
          PROVE  LET x == trades[i]
                     t == x.trade
                 IN  /\ x.pnl >= -1000 * t.risk /\ x.pnl <= t.entry
                     /\ IF x.reason = "END_DATA" THEN Runner!Meets(candles, t) = {}
                        ELSE /\ x.closed \in Runner!Meets(candles, t)
                             /\ \A k \in Runner!Meets(candles, t) : x.closed <= k
                             /\ x.pnl = IF 1000 * Runner!Gain(t, candles[x.closed + 1])
                                             >= t.entry
                                        THEN t.entry
                                        ELSE 1000 * Runner!StopInForce(candles, t, x.closed)
      <3> DEFINE x == trades[i]
      <3>1. Left(x, candles) \/ Stayed(x, candles)
        BY <2>2, <2>3
      <3> HIDE DEF x
      <3>2. CASE Left(x, candles)
        BY <3>2 DEF Left, Bounded, x
      <3>3. CASE Stayed(x, candles)
        BY <3>3 DEF Stayed, Bounded, x
      <3> QED
        BY <3>1, <3>2, <3>3
    <2> QED
      BY <2>1, <2>3 DEF Runner!RunnerExitsMatchHistory
  <1>2. RunInv => RunnerExitsMatchHistory
    BY <1>1 DEF RunnerExitsMatchHistory
  <1> QED
    BY <1>2, RunnerInvariant, PTL

-----------------------------------------------------------------------------
(***************************************************************************)
(* The report of run_backtest: the sums over the trades and the drawdown    *)
(* loop.                                                                    *)
(***************************************************************************)
LEMMA SumsAdd ==
    ASSUME NEW x \in Seq(Int), NEW a \in Seq(Int), NEW b \in Seq(Int),
           Len(a) = Len(x), Len(b) = Len(x), \A i \in 1..Len(x) : x[i] = a[i] + b[i]
    PROVE  RunningSum(0, x)[Len(x)]
             = RunningSum(0, a)[Len(x)] + RunningSum(0, b)[Len(x)]
  <1> DEFINE n == Len(x)
             base == 0
             f == RunningSum(base, x)
             g == RunningSum(base, a)
             h == RunningSum(base, b)
             S == {k \in 0..n : f[k] = g[k] + h[k]}
  <1>1. n \in Nat /\ base \in Int
    BY LenProperties
  <1> HIDE DEF base
  <1>2. /\ f \in [0..n -> Int] /\ f[0] = base
        /\ \A k \in 1..n : f[k] = f[k - 1] + x[k]
    BY <1>1, RunningSumIs
  <1>3. /\ g \in [0..n -> Int] /\ g[0] = base
        /\ \A k \in 1..n : g[k] = g[k - 1] + a[k]
    BY <1>1, RunningSumIs
  <1>4. /\ h \in [0..n -> Int] /\ h[0] = base
        /\ \A k \in 1..n : h[k] = h[k - 1] + b[k]
    BY <1>1, RunningSumIs
  <1>5. \A k \in 1..n : x[k] = a[k] + b[k] /\ a[k] \in Int /\ b[k] \in Int
    BY ElementOfSeq
  <1> HIDE DEF f, g, h, n
  <1>6. 0 \in S
    BY <1>1, <1>2, <1>3, <1>4 DEF base
  <1>7. \A k \in 0..n : k < n /\ k \in S => k + 1 \in S
    <2> SUFFICES ASSUME NEW k \in 0..n, k < n, f[k] = g[k] + h[k]
                 PROVE  k + 1 \in 0..n /\ f[k + 1] = g[k + 1] + h[k + 1]
      OBVIOUS
    <2>1. k + 1 \in 1..n /\ k + 1 \in 0..n /\ (k + 1) - 1 = k
      BY <1>1
    <2>2. /\ f[k + 1] = f[k] + x[k + 1] /\ g[k + 1] = g[k] + a[k + 1]
          /\ h[k + 1] = h[k] + b[k + 1]
      BY <1>2, <1>3, <1>4, <2>1
    <2>3. /\ f[k] \in Int /\ g[k] \in Int /\ h[k] \in Int
          /\ x[k + 1] = a[k + 1] + b[k + 1] /\ a[k + 1] \in Int /\ b[k + 1] \in Int
      BY <1>2, <1>3, <1>4, <1>5, <2>1
    <2> DEFINE F == f[k]
               G == g[k]
               H == h[k]
               A == a[k + 1]
               B == b[k + 1]
    <2>4. F = G + H /\ {F, G, H, A, B} \subseteq Int
      BY <2>3
    <2>5. f[k + 1] = F + (A + B) /\ g[k + 1] = G + A /\ h[k + 1] = H + B
      BY <2>2, <2>3
    <2> HIDE DEF F, G, H, A, B
    <2>6. F + (A + B) = (G + A) + (H + B)
      BY <2>4
    <2> QED
      BY <2>1, <2>5, <2>6
  <1>8. \A k \in 0..n : k \in S
    <2> HIDE DEF S
    <2> QED
      BY <1>1, <1>6, <1>7, SegmentInduction
  <1>9. f[n] = g[n] + h[n]
    BY <1>1, <1>8
  <1> QED
    BY <1>9 DEF f, g, h, n, base

LEMMA SumOfOnes ==
    ASSUME NEW x \in Seq(Int), \A i \in 1..Len(x) : x[i] = 1
    PROVE  RunningSum(0, x)[Len(x)] = Len(x)
  <1> DEFINE n == Len(x)
             base == 0
             f == RunningSum(base, x)
             S == {k \in 0..n : f[k] = k}
  <1>1. n \in Nat /\ base \in Int
    BY LenProperties
  <1> HIDE DEF base
  <1>2. /\ f[0] = base
        /\ \A k \in 1..n : f[k] = f[k - 1] + x[k]
    BY <1>1, RunningSumIs
  <1>3. \A i \in 1..n : x[i] = 1
    OBVIOUS
  <1> HIDE DEF f, n
  <1>4. 0 \in S
    BY <1>1, <1>2 DEF base
  <1>5. \A k \in 0..n : k < n /\ k \in S => k + 1 \in S
    <2> SUFFICES ASSUME NEW k \in 0..n, k < n, f[k] = k
                 PROVE  k + 1 \in 0..n /\ f[k + 1] = k + 1
      OBVIOUS
    <2>1. k + 1 \in 1..n /\ k + 1 \in 0..n /\ (k + 1) - 1 = k
      BY <1>1
    <2> QED
      BY <1>2, <1>3, <2>1
  <1>6. \A k \in 0..n : k \in S
    <2> HIDE DEF S
    <2> QED
      BY <1>1, <1>4, <1>5, SegmentInduction
  <1>7. f[n] = n
    BY <1>1, <1>6
  <1> QED
    BY <1>7 DEF f, n, base

LEMMA RunnerSum ==
    ASSUME NEW base, NEW x
    PROVE  Runner!RunningSum(base, x) = RunningSum(base, x)
  BY DEF Runner!RunningSum, RunningSum

\* The numbers x of the trades that won (lost), the others as 0.
Part(won, ts, x) == [i \in DOMAIN ts |-> IF (ts[i].pnl > 0) = won THEN x[i] ELSE 0]

LEMMA OverIs ==
    ASSUME NEW won, NEW ts, NEW x
    PROVE  Runner!Over(won, ts, x) = RunningSum(0, Part(won, ts, x))[Len(ts)]
  BY RunnerSum DEF Runner!Over, Part

LEMMA PartIs ==
    ASSUME NEW won \in BOOLEAN, NEW ts \in Seq(RunExit), NEW x \in Seq(Int),
           Len(x) = Len(ts)
    PROVE  Part(won, ts, x) \in Seq(Int) /\ Len(Part(won, ts, x)) = Len(ts)
  <1> DEFINE n == Len(ts)
             a == Part(won, ts, x)
  <1>1. /\ n \in Nat /\ DOMAIN ts = 1..n
        /\ \A i \in 1..n : x[i] \in Int
    BY LenProperties, ElementOfSeq
  <1>2. a \in [1..n -> Int]
    BY <1>1 DEF Part
  <1> HIDE DEF a, n
  <1>3. a \in Seq(Int) /\ Len(a) = n
    BY <1>1, <1>2
  <1> QED
    BY <1>3 DEF a, n

LEMMA PartSum ==
    ASSUME NEW won \in BOOLEAN, NEW ts \in Seq(RunExit), NEW x \in Seq(Int),
           Len(x) = Len(ts)
    PROVE  Runner!Over(won, ts, x) \in Int
  <1> DEFINE a == Part(won, ts, x)
             base == 0
  <1>1. a \in Seq(Int) /\ Len(a) = Len(ts) /\ Len(ts) \in Nat /\ base \in Int
    BY PartIs, LenProperties
  <1> HIDE DEF a, base
  <1>2. RunningSum(base, a)[Len(ts)] \in Int
    <2> DEFINE f == RunningSum(base, a)
    <2>1. f \in [0..Len(a) -> Int]
      BY <1>1, RunningSumIs
    <2>2. Len(ts) \in 0..Len(a)
      BY <1>1
    <2> HIDE DEF f
    <2>3. f[Len(ts)] \in Int
      BY <2>1, <2>2
    <2> QED
      BY <2>3 DEF f
  <1> QED
    BY <1>2, OverIs DEF a, base

\* What won and what lost is everything.
LEMMA OverBoth ==
    ASSUME NEW ts \in Seq(RunExit), NEW x \in Seq(Int), Len(x) = Len(ts)
    PROVE  Runner!Over(TRUE, ts, x) + Runner!Over(FALSE, ts, x)
             = RunningSum(0, x)[Len(ts)]
  <1> DEFINE n == Len(ts)
             a == Part(TRUE, ts, x)
             b == Part(FALSE, ts, x)
  <1>1. /\ n \in Nat /\ DOMAIN ts = 1..n
        /\ \A i \in 1..n : x[i] \in Int
    BY LenProperties, ElementOfSeq
  <1>2. \A i \in 1..n : a[i] \in Int /\ b[i] \in Int /\ x[i] = a[i] + b[i]
    <2> TAKE i \in 1..n
    <2> DEFINE w == ts[i].pnl > 0
               y == x[i]
    <2>1. /\ a[i] = (IF w THEN y ELSE 0) /\ b[i] = (IF w THEN 0 ELSE y)
      BY <1>1 DEF Part
    <2>2. y \in Int
      BY <1>1
    <2> HIDE DEF w, y, a, b
    <2>3. a[i] \in Int /\ b[i] \in Int /\ y = a[i] + b[i]
      BY <2>1, <2>2
    <2> QED
      BY <2>3 DEF y
  <1>3. a \in Seq(Int) /\ b \in Seq(Int) /\ Len(a) = n /\ Len(b) = n
    BY PartIs
  <1> HIDE DEF a, b
  <1>4. RunningSum(0, x)[n] = RunningSum(0, a)[n] + RunningSum(0, b)[n]
    BY <1>2, <1>3, SumsAdd
  <1> QED
    BY <1>4, OverIs DEF a, b

NoDrop == [peak |-> 0, dd |-> 0]

LEMMA FallLoopIs ==
    ASSUME NEW ts, Len(ts) \in Nat, NEW e, e = Runner!EquityCurve(ts)
    PROVE  /\ Runner!FallLoop(ts)[0] = NoDrop
           /\ \A n \in 1..(Len(ts)) :
                Runner!FallLoop(ts)[n] = Runner!FallStep(Runner!FallLoop(ts)[n - 1], e[n])
  <1> DEFINE N == Len(ts)
             Loop(f, m) ==
               f = [n \in 0..m |-> IF n = 0 THEN NoDrop
                                   ELSE Runner!FallStep(f[n - 1], e[n])]
             S == {m \in 0..N : \E f : Loop(f, m)}
  <1>0. N \in Nat
    OBVIOUS
  <1> HIDE DEF N
  <1>1. 0 \in S
    <2>1. Loop([n \in 0..0 |-> NoDrop], 0)
      OBVIOUS
    <2> HIDE DEF Loop
    <2> QED
      BY <1>0, <2>1
  <1>2. ASSUME NEW m \in 0..N, m < N, m \in S PROVE m + 1 \in S
    <2>1. PICK f : Loop(f, m)
      BY <1>2
    <2>2. m \in Nat /\ m + 1 \in 0..N
      BY <1>0, <1>2
    <2> DEFINE g == [n \in 0..m + 1 |-> IF n <= m THEN f[n]
                                        ELSE Runner!FallStep(f[m], e[m + 1])]
               h == [n \in 0..m + 1 |-> IF n = 0 THEN NoDrop
                                        ELSE Runner!FallStep(g[n - 1], e[n])]
    <2>3. ASSUME NEW n \in 0..m + 1 PROVE g[n] = h[n]
      <3>1. CASE n = m + 1
        <4>1. n # 0 /\ n - 1 = m /\ m \in 0..m + 1 /\ m <= m /\ ~(n <= m)
          BY <2>2, <3>1
        <4>2. g[m] = f[m]
          BY <4>1
        <4> QED
          BY <3>1, <4>1, <4>2
      <3>2. CASE n # m + 1 /\ n # 0
        <4>1. n \in 0..m /\ n <= m /\ n - 1 \in 0..m + 1 /\ n - 1 <= m
          BY <2>2, <3>2
        <4>2. f[n] = Runner!FallStep(f[n - 1], e[n])
          BY <2>1, <3>2, <4>1
        <4>3. g[n - 1] = f[n - 1]
          BY <4>1
        <4> QED
          BY <3>2, <4>1, <4>2, <4>3
      <3>3. CASE n = 0
        <4>1. f[0] = NoDrop
          BY <2>1, <2>2
        <4> QED
          BY <2>2, <3>3, <4>1
      <3> QED
        BY <3>1, <3>2, <3>3
    <2>4. Loop(g, m + 1)
      <3>1. g = h
        BY <2>3
      <3> QED
        BY <3>1
    <2> HIDE DEF Loop, g
    <2> QED
      BY <2>2, <2>4
  <1>3. N \in S
    <2> HIDE DEF S
    <2>1. \A k \in 0..N : k < N /\ k \in S => k + 1 \in S
      BY <1>2
    <2>2. \A k \in 0..N : k \in S
      BY <1>0, <1>1, <2>1, SegmentInduction
    <2> QED
      BY <1>0, <2>2
  <1>4. PICK f : Loop(f, N)
    BY <1>3
  <1> DEFINE a == CHOOSE g : Loop(g, N)
  <1>5. Loop(a, N)
    BY <1>4
  <1>6. Runner!FallLoop(ts) = a
    BY DEF Runner!FallLoop, NoDrop, N
  <1> HIDE DEF a
  <1>7. a[0] = NoDrop
    BY <1>0, <1>5
  <1>8. \A n \in 1..N : a[n] = Runner!FallStep(a[n - 1], e[n])
    BY <1>0, <1>5
  <1> QED
    BY <1>6, <1>7, <1>8 DEF N

\* What the loop knows after n points of the curve e.
Fell(e, a, n) ==
    /\ a.peak \in Int /\ a.dd \in Int
    /\ \A i \in 0..n : e[i] <= a.peak
    /\ \E i \in 0..n : e[i] = a.peak
    /\ \A i \in 0..n : \A j \in i..n : e[i] - e[j] <= a.dd
    /\ \E i \in 0..n : \E j \in i..n : e[i] - e[j] = a.dd

LEMMA FellOn ==
    ASSUME NEW N \in Nat, NEW e \in [0..N -> Int], NEW n \in 1..N, NEW a,
           Fell(e, a, n - 1), NEW q, q = Runner!FallStep(a, e[n])
    PROVE  Fell(e, q, n)
  <1> DEFINE v == e[n]
             p == a.peak
             d == a.dd
             top == IF v > p THEN v ELSE p
             dd == IF top - v > d THEN top - v ELSE d
  <1>0. /\ n \in Nat /\ n \in 0..n /\ n \in n..n
        /\ \A i \in 0..n : e[i] \in Int /\ (i = n \/ i \in 0..(n - 1))
        /\ \A i \in 0..(n - 1) : i \in 0..n
    OBVIOUS
  <1>1. q.peak = top /\ q.dd = dd
    BY DEF Runner!FallStep
  <1>2. v \in Int /\ p \in Int /\ d \in Int
    BY <1>0 DEF Fell
  <1>3. /\ \A i \in 0..(n - 1) : e[i] <= p
        /\ \E i \in 0..(n - 1) : e[i] = p
        /\ \A i \in 0..(n - 1) : \A j \in i..(n - 1) : e[i] - e[j] <= d
        /\ \E i \in 0..(n - 1) : \E j \in i..(n - 1) : e[i] - e[j] = d
    BY DEF Fell
  <1> HIDE DEF v, p, d
  <1>4. /\ top \in Int /\ dd \in Int /\ v <= top /\ p <= top /\ (top = v \/ top = p)
        /\ top - v <= dd /\ d <= dd /\ (dd = top - v \/ dd = d)
    BY <1>2
  <1> HIDE DEF top, dd
  <1>5. \A i \in 0..n : e[i] <= top
    <2> TAKE i \in 0..n
    <2>1. CASE i = n
      BY <1>4, <2>1 DEF v
    <2>2. CASE i \in 0..(n - 1)
      <3>1. e[i] <= p /\ e[i] \in Int
        BY <1>0, <1>3, <2>2
      <3> QED
        BY <1>2, <1>4, <3>1
    <2> QED
      BY <1>0, <2>1, <2>2
  <1>6. \E i \in 0..n : e[i] = top
    BY <1>0, <1>3, <1>4 DEF v
  <1>7. ASSUME NEW i \in 0..n, NEW j \in i..n PROVE e[i] - e[j] <= dd
    <2>1. i \in Int /\ j \in 0..n /\ e[i] \in Int /\ e[j] \in Int
      BY <1>0
    <2>2. CASE j = n
      <3>1. e[i] <= top /\ e[j] = v
        BY <1>5, <2>2 DEF v
      <3> QED
        BY <1>2, <1>4, <2>1, <3>1
    <2>3. CASE j # n
      <3>1. i \in 0..(n - 1) /\ j \in i..(n - 1)
        BY <1>0, <2>1, <2>3
      <3>2. e[i] - e[j] <= d
        BY <1>3, <3>1
      <3> QED
        BY <1>2, <1>4, <2>1, <3>2
    <2> QED
      BY <2>2, <2>3
  <1>8. \E i \in 0..n : \E j \in i..n : e[i] - e[j] = dd
    <2>1. CASE dd = top - v
      <3>1. PICK i \in 0..n : e[i] = top
        BY <1>6
      <3>2. n \in i..n
        BY <1>0
      <3>3. e[i] - e[n] = dd
        BY <2>1, <3>1 DEF v
      <3> QED
        BY <3>2, <3>3
    <2>2. CASE dd = d
      <3>1. PICK i \in 0..(n - 1) : \E j \in i..(n - 1) : e[i] - e[j] = d
        BY <1>3
      <3>2. PICK j \in i..(n - 1) : e[i] - e[j] = d
        BY <3>1
      <3>3. i \in 0..n /\ j \in i..n
        BY <1>0
      <3> QED
        BY <2>2, <3>2, <3>3
    <2> QED
      BY <1>4, <2>1, <2>2
  <1> QED
    BY <1>1, <1>4, <1>5, <1>6, <1>7, <1>8 DEF Fell

LEMMA CurveIs ==
    ASSUME NEW ts \in Seq(RunExit)
    PROVE  /\ Len(ts) \in Nat
           /\ Runner!Pnls(ts) \in Seq(Int) /\ Len(Runner!Pnls(ts)) = Len(ts)
           /\ Runner!Ones(ts) \in Seq(Int) /\ Len(Runner!Ones(ts)) = Len(ts)
           /\ Runner!EquityCurve(ts) = RunningSum(0, Runner!Pnls(ts))
           /\ Runner!EquityCurve(ts) \in [0..Len(ts) -> Int]
           /\ Runner!EquityCurve(ts)[0] = 0
  <1> DEFINE n == Len(ts)
             x == Runner!Pnls(ts)
             y == Runner!Ones(ts)
  <1>1. n \in Nat /\ DOMAIN ts = 1..n
    BY LenProperties
  <1>2. \A i \in 1..n : ts[i].pnl \in Int
    <2> TAKE i \in 1..n
    <2>1. ts[i] \in RunExit
      BY ElementOfSeq
    <2> QED
      BY <2>1 DEF RunExit
  <1>3. x \in [1..n -> Int] /\ y \in [1..n -> Int]
    BY <1>1, <1>2 DEF Runner!Pnls, Runner!Ones
  <1>4. Runner!EquityCurve(ts) = RunningSum(0, x)
    BY RunnerSum DEF Runner!EquityCurve
  <1> HIDE DEF n, x, y
  <1>5. x \in Seq(Int) /\ Len(x) = n /\ y \in Seq(Int) /\ Len(y) = n
    BY <1>1, <1>3
  <1> DEFINE base == 0
  <1>6. base \in Int
    OBVIOUS
  <1> HIDE DEF base
  <1>7. RunningSum(base, x) \in [0..Len(x) -> Int] /\ RunningSum(base, x)[0] = base
    BY <1>5, <1>6, RunningSumIs
  <1> QED
    BY <1>1, <1>4, <1>5, <1>7 DEF n, x, y, base

LEMMA MaxFallIs ==
    ASSUME NEW ts \in Seq(RunExit), NEW e, e = Runner!EquityCurve(ts)
    PROVE  /\ \A i \in 0..Len(ts) : \A j \in i..Len(ts) : e[i] - e[j] <= Runner!MaxFall(ts)
           /\ \E i \in 0..Len(ts) : \E j \in i..Len(ts) : e[i] - e[j] = Runner!MaxFall(ts)
  <1> DEFINE N == Len(ts)
             f == Runner!FallLoop(ts)
             S == {n \in 0..N : Fell(e, f[n], n)}
  <1>1. N \in Nat /\ e \in [0..N -> Int] /\ e[0] = 0
    BY CurveIs
  <1>2. f[0] = NoDrop /\ \A n \in 1..N : f[n] = Runner!FallStep(f[n - 1], e[n])
    BY <1>1, FallLoopIs
  <1>3. Runner!MaxFall(ts) = f[N].dd
    BY DEF Runner!MaxFall
  <1> HIDE DEF f, N
  <1>4. 0 \in S
    <2>1. 0..0 = {0}
      OBVIOUS
    <2>2. Fell(e, NoDrop, 0)
      BY <1>1, <2>1 DEF Fell, NoDrop
    <2> QED
      BY <1>1, <1>2, <2>2
  <1>5. ASSUME NEW k \in 0..N, k < N, k \in S PROVE k + 1 \in S
    <2>1. k + 1 \in 1..N /\ k + 1 \in 0..N /\ (k + 1) - 1 = k
      BY <1>1, <1>5
    <2>2. Fell(e, f[k], (k + 1) - 1) /\ f[k + 1] = Runner!FallStep(f[k], e[k + 1])
      BY <1>2, <1>5, <2>1
    <2>3. Fell(e, f[k + 1], k + 1)
      BY <1>1, <2>1, <2>2, FellOn
    <2> QED
      BY <2>1, <2>3
  <1>6. Fell(e, f[N], N)
    <2>1. \A k \in 0..N : k < N /\ k \in S => k + 1 \in S
      BY <1>5
    <2> HIDE DEF S
    <2>2. \A k \in 0..N : k \in S
      BY <1>1, <1>4, <2>1, SegmentInduction
    <2> QED
      BY <1>1, <2>2 DEF S
  <1> QED
    BY <1>3, <1>6 DEF Fell, N

(***************************************************************************)
(* round(x, 4) returns a multiple of the last digit, half a digit from x at *)
(* most; three of them rounded apart keep a sum to one digit.               *)
(***************************************************************************)
LEMMA RoundedIs ==
    ASSUME NEW x \in Int, NEW y \in Runner!Rounded(x)
    PROVE  /\ y \in Int /\ \E k \in Int : y = k * Grain
           /\ 2 * (x - y) <= Grain /\ 2 * (y - x) <= Grain
  <1> DEFINE k == x \div Grain
             low == k * Grain
  <1>1. Grain \in Nat \ {0} /\ k \in Int
    BY RunnerAssumption, FloorDivision
  <1>2. /\ y = low \/ y = low + Grain
        /\ 2 * (x - y) <= Grain /\ 2 * (y - x) <= Grain
    BY DEF Runner!Rounded, Runner!Near
  <1> HIDE DEF k
  <1>3. low \in Int /\ (k + 1) * Grain = low + Grain
    <2>1. low \in Int /\ (k + 1) * Grain = k * Grain + 1 * Grain /\ 1 * Grain = Grain
      BY <1>1, ProductInt, ProductSum
    <2> QED
      BY <2>1
  <1>4. \E m \in Int : y = m * Grain
    <2>1. k + 1 \in Int
      BY <1>1
    <2> QED
      BY <1>1, <1>2, <1>3, <2>1
  <1> HIDE DEF low
  <1> QED
    BY <1>1, <1>2, <1>3, <1>4

LEMMA OneDigit ==
    ASSUME NEW a \in Int, NEW b \in Int, NEW c \in Int, a = b - c,
           NEW x \in Runner!Rounded(a), NEW y \in Runner!Rounded(b),
           NEW z \in Runner!Rounded(c)
    PROVE  x - (y - z) \in {-Grain, 0, Grain}
  <1>1. /\ x \in Int /\ y \in Int /\ z \in Int
        /\ 2 * (x - a) <= Grain /\ 2 * (a - x) <= Grain
        /\ 2 * (y - b) <= Grain /\ 2 * (b - y) <= Grain
        /\ 2 * (z - c) <= Grain /\ 2 * (c - z) <= Grain
    BY RoundedIs
  <1>2. PICK i \in Int : x = i * Grain
    BY RoundedIs
  <1>3. PICK j \in Int : y = j * Grain
    BY RoundedIs
  <1>4. PICK k \in Int : z = k * Grain
    BY RoundedIs
  <1> DEFINE g == Grain
             m == i - j + k
             d == x - (y - z)
  <1>5. g \in Nat \ {0}
    BY RunnerAssumption
  <1>6. 2 * d <= 3 * g /\ -(3 * g) <= 2 * d /\ d \in Int
    BY <1>1, <1>5
  <1>7. d = m * g
    <2>1. /\ (i + (-j)) * g = i * g + (-j) * g /\ (-j) * g = -(j * g)
          /\ ((i + (-j)) + k) * g = (i + (-j)) * g + k * g
          /\ m = (i + (-j)) + k
          /\ i * g \in Int /\ j * g \in Int /\ k * g \in Int
      BY <1>5, ProductSum, ProductMinus, ProductInt
    <2> HIDE DEF m
    <2>2. m * g = i * g + (-(j * g)) + k * g
      BY <2>1
    <2> HIDE DEF g
    <2>3. d = i * g - (j * g - k * g)
      BY <1>2, <1>3, <1>4 DEF g
    <2> QED
      BY <2>1, <2>2, <2>3
  <1>8. m \in Int
    OBVIOUS
  <1> HIDE DEF m, d, g
  <1>9. m <= 1
    <2> SUFFICES ASSUME 2 <= m PROVE FALSE
      BY <1>8
    <2>1. 2 * g <= m * g
      BY <1>5, <1>8, ProductMonotone
    <2> QED
      BY <1>5, <1>6, <1>7, <2>1
  <1>10. -1 <= m
    <2> SUFFICES ASSUME m <= -2 PROVE FALSE
      BY <1>8
    <2>1. m * g <= (-2) * g /\ (-2) * g = -(2 * g)
      BY <1>5, <1>8, ProductMonotone, ProductMinus
    <2> QED
      BY <1>5, <1>6, <1>7, <2>1
  <1>11. m = -1 \/ m = 0 \/ m = 1
    BY <1>8, <1>9, <1>10
  <1>12. (-1) * g = -g /\ 0 * g = 0 /\ 1 * g = g
    BY <1>5
  <1>13. d = -g \/ d = 0 \/ d = g
    BY <1>7, <1>11, <1>12
  <1> QED
    BY <1>13 DEF d, g

LEMMA ReportIs ==
    ASSUME NEW ts \in Seq(RunExit), NEW r \in Runner!Reports(ts),
           NEW e, e = Runner!EquityCurve(ts)
    PROVE  /\ r.executed = Len(ts) /\ r.wins + r.losses = Len(ts)
           /\ Runner!Near(e[Len(ts)], r.net)
           /\ r.net - (r.grossProfit - r.grossLoss) \in {-Grain, 0, Grain}
           /\ \A i \in 0..Len(ts) : \A j \in i..Len(ts) :
                2 * (e[i] - e[j] - r.maxDrawdown) <= Grain
           /\ \E i \in 0..Len(ts) : \E j \in i..Len(ts) :
                Runner!Near(e[i] - e[j], r.maxDrawdown)
  <1> DEFINE n == Len(ts)
             x == Runner!Pnls(ts)
             y == Runner!Ones(ts)
             won == Runner!Over(TRUE, ts, x)
             lost == Runner!Over(FALSE, ts, x)
             fall == Runner!MaxFall(ts)
  <1>1. /\ r.executed = n /\ r.wins = Runner!Over(TRUE, ts, y)
        /\ r.losses = Runner!Over(FALSE, ts, y)
        /\ r.grossProfit \in Runner!Rounded(won) /\ r.grossLoss \in Runner!Rounded(-lost)
        /\ r.net \in Runner!Rounded(e[n]) /\ r.maxDrawdown \in Runner!Rounded(fall)
    BY DEF Runner!Reports
  <1>2. /\ n \in Nat /\ x \in Seq(Int) /\ Len(x) = n /\ y \in Seq(Int) /\ Len(y) = n
        /\ e = RunningSum(0, x) /\ e \in [0..n -> Int]
    BY CurveIs
  <1>3. \A i \in 1..n : y[i] = 1
    BY LenProperties DEF Runner!Ones
  <1>4. Runner!Over(TRUE, ts, y) + Runner!Over(FALSE, ts, y) = n
    <2>1. Runner!Over(TRUE, ts, y) + Runner!Over(FALSE, ts, y) = RunningSum(0, y)[n]
      BY <1>2, OverBoth
    <2>2. RunningSum(0, y)[Len(y)] = Len(y)
      BY <1>2, <1>3, SumOfOnes
    <2> QED
      BY <1>2, <2>1, <2>2
  <1>5. won + lost = e[n]
    BY <1>2, OverBoth
  <1>6. won \in Int /\ lost \in Int /\ e[n] \in Int
    <2>1. won \in Int /\ lost \in Int
      BY <1>2, PartSum
    <2>2. e[n] \in Int
      BY <1>2
    <2> QED
      BY <2>1, <2>2
  <1>7. /\ \A i \in 0..n : \A j \in i..n : e[i] - e[j] <= fall
        /\ \E i \in 0..n : \E j \in i..n : e[i] - e[j] = fall
    BY MaxFallIs
  <1> HIDE DEF won, lost, fall
  <1>8. r.net - (r.grossProfit - r.grossLoss) \in {-Grain, 0, Grain}
    <2>1. -lost \in Int /\ e[n] = won - (-lost)
      BY <1>5, <1>6
    <2> QED
      BY <1>1, <1>6, <2>1, OneDigit
  <1>9. Runner!Near(e[n], r.net)
    BY <1>1, <1>6, RoundedIs DEF Runner!Near
  <1>10. PICK i \in 0..n : \E j \in i..n : e[i] - e[j] = fall
    BY <1>7
  <1>11. PICK j \in i..n : e[i] - e[j] = fall
    BY <1>10
  <1>12. j \in 0..n /\ e[i] \in Int /\ e[j] \in Int /\ fall \in Int
    <2>1. j \in 0..n
      BY <1>2
    <2>2. e[i] \in Int /\ e[j] \in Int
      BY <1>2, <2>1
    <2> QED
      BY <1>11, <2>1, <2>2
  <1>13. /\ r.maxDrawdown \in Int
         /\ 2 * (fall - r.maxDrawdown) <= Grain /\ 2 * (r.maxDrawdown - fall) <= Grain
    BY <1>1, <1>12, RoundedIs
  <1>14. Runner!Near(e[i] - e[j], r.maxDrawdown)
    BY <1>11, <1>13 DEF Runner!Near
  <1>15. ASSUME NEW a \in 0..n, NEW b \in a..n
         PROVE  2 * (e[a] - e[b] - r.maxDrawdown) <= Grain
    <2>1. b \in 0..n
      BY <1>2
    <2>2. e[a] \in Int /\ e[b] \in Int /\ e[a] - e[b] <= fall
      BY <1>2, <1>7, <2>1
    <2>3. Grain \in Int
      BY RunnerAssumption
    <2> DEFINE v == e[a] - e[b]
               dd == r.maxDrawdown
    <2>4. v \in Int /\ v <= fall
      BY <2>2
    <2>5. dd \in Int /\ 2 * (fall - dd) <= Grain
      BY <1>13
    <2> HIDE DEF v, dd
    <2>6. 2 * (v - dd) <= Grain
      BY <1>12, <2>3, <2>4, <2>5
    <2> QED
      BY <2>6 DEF v, dd
  <1> QED
    BY <1>1, <1>4, <1>8, <1>9, <1>14, <1>15

(***************************************************************************)
(* The report of run_backtest counts every signal once; its net result and  *)
(* its drawdown are the end and the largest fall of the equity curve to     *)
(* half a digit, its profit and loss add up to one digit; entries lie a     *)
(* cooldown apart, outside other trades.                                    *)
(***************************************************************************)
THEOREM ReportMatchesTradesHolds == BacktestSpec => []ReportMatchesTrades
  <1>1. ASSUME RunInv, NEW r \in report
        PROVE  LET n == Len(trades)
                   equity == Runner!EquityCurve(trades)
               IN  /\ r.executed = signals /\ r.wins + r.losses = signals
                   /\ Runner!Near(equity[n], r.net)
                   /\ r.net - (r.grossProfit - r.grossLoss) \in {-Grain, 0, Grain}
                   /\ \A i \in 0..n : \A j \in i..n :
                        2 * (equity[i] - equity[j] - r.maxDrawdown) <= Grain
                   /\ \E i \in 0..n : \E j \in i..n :
                        Runner!Near(equity[i] - equity[j], r.maxDrawdown)
                   /\ \A i \in 1..(n - 1) :
                        /\ trades[i].closed <= trades[i + 1].trade.opened
                        /\ trades[i + 1].trade.opened - trades[i].trade.opened >= CooldownBars
    <2> DEFINE n == Len(trades)
               e == Runner!EquityCurve(trades)
    <2>1. Reported /\ trades \in Seq(RunExit)
      BY <1>1 DEF RunInv, RunTyped
    <2>2. r \in Runner!Reports(trades) /\ signals = n /\ Spaced(trades)
      BY <1>1, <2>1 DEF Reported
    <2>3. /\ r.executed = n /\ r.wins + r.losses = n
          /\ Runner!Near(e[n], r.net)
          /\ r.net - (r.grossProfit - r.grossLoss) \in {-Grain, 0, Grain}
          /\ \A i \in 0..n : \A j \in i..n : 2 * (e[i] - e[j] - r.maxDrawdown) <= Grain
          /\ \E i \in 0..n : \E j \in i..n : Runner!Near(e[i] - e[j], r.maxDrawdown)
      BY <2>1, <2>2, ReportIs
    <2>4. \A i \in 1..(n - 1) :
            /\ trades[i].closed <= trades[i + 1].trade.opened
            /\ trades[i + 1].trade.opened - trades[i].trade.opened >= CooldownBars
      BY <2>2 DEF Spaced, Follows
    <2> QED
      BY <2>2, <2>3, <2>4
  <1>2. RunInv => ReportMatchesTrades
    BY <1>1 DEF ReportMatchesTrades, Runner!ReportMatchesTrades
  <1> QED
    BY <1>2, RunnerInvariant, PTL
=============================================================================
