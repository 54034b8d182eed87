-------------------------- MODULE SmcStrategyProofs --------------------------
(***************************************************************************)
(* The strategy for every history of bars, every setting and every size of  *)
(* the deques.                                                              *)
(***************************************************************************)
EXTENDS SmcStrategy, RiskRulesProofs

-----------------------------------------------------------------------------
(***************************************************************************)
(* Sets of one or two elements, and what a deque keeps.                     *)
(***************************************************************************)
LEMMA MinOfTwo ==
    ASSUME NEW a \in Int, NEW b \in Int
    PROVE  Min({a, b}) = IF a <= b THEN a ELSE b
  <1>1. Min({a, b}) = CHOOSE x \in {a, b} : \A y \in {a, b} : x <= y
    BY DEF Min
  <1>2. \E x \in {a, b} : \A y \in {a, b} : x <= y
    OBVIOUS
  <1> QED
    BY <1>1, <1>2

LEMMA MaxOfTwo ==
    ASSUME NEW a \in Int, NEW b \in Int
    PROVE  Max({a, b}) = IF a >= b THEN a ELSE b
  <1>1. Max({a, b}) = CHOOSE x \in {a, b} : \A y \in {a, b} : x >= y
    BY DEF Max
  <1>2. \E x \in {a, b} : \A y \in {a, b} : x >= y
    OBVIOUS
  <1> QED
    BY <1>1, <1>2

LEMMA NoneAsSeq == SetToSeq({}) = <<>>
  <1>1. Cardinality({}) = 0
    BY FS_EmptySet
  <1> DEFINE F == [1..0 -> {}]
  <1>2. \A f \in F : f = <<>>
    OBVIOUS
  <1>3. <<>> \in F /\ IsInjective(<<>>)
    BY DEF IsInjective
  <1>4. SetToSeq({}) = CHOOSE f \in F : IsInjective(f)
    BY <1>1 DEF SetToSeq
  <1> HIDE DEF F
  <1> QED
    BY <1>2, <1>3, <1>4

LEMMA OneAsSeq ==
    ASSUME NEW x
    PROVE  SetToSeq({x}) = <<x>>
  <1>1. Cardinality({x}) = 1
    BY FS_Singleton
  <1> DEFINE F == [1..1 -> {x}]
  <1>2. \A f \in F : f = <<x>>
    OBVIOUS
  <1>3. <<x>> \in F /\ IsInjective(<<x>>)
    BY DEF IsInjective
  <1>4. SetToSeq({x}) = CHOOSE f \in F : IsInjective(f)
    BY <1>1 DEF SetToSeq
  <1> HIDE DEF F
  <1> QED
    BY <1>2, <1>3, <1>4

LEMMA KeepType ==
    ASSUME NEW T, NEW s \in Seq(T), NEW cap \in Nat
    PROVE  Keep(s, cap) \in Seq(T)
  <1>1. CASE Len(s) <= cap
    BY <1>1 DEF Keep
  <1>2. CASE ~(Len(s) <= cap)
    <2>1. Len(s) \in Nat
      OBVIOUS
    <2> DEFINE m == Len(s) - cap + 1
    <2>2. m \in Int /\ \A i \in m..Len(s) : s[i] \in T
      BY <1>2, <2>1, ElementOfSeq
    <2>3. SubSeq(s, m, Len(s)) \in Seq(T)
      BY <2>1, <2>2, SubSeqProperties
    <2> QED
      BY <1>2, <2>3 DEF Keep
  <1> QED
    BY <1>1, <1>2

LEMMA MaxIs ==
    ASSUME NEW S, S \subseteq Int, NEW x \in S, \A y \in S : x >= y
    PROVE  Max(S) = x
  <1>1. Max(S) \in S /\ \A y \in S : Max(S) >= y
    BY DEF Max
  <1>2. Max(S) >= x /\ x >= Max(S) /\ Max(S) \in Int
    BY <1>1
  <1> QED
    BY <1>2

LEMMA MaxBounded ==
    ASSUME NEW S, S \subseteq Int, S # {}, NEW b \in Int, \A y \in S : y <= b
    PROVE  Max(S) \in S /\ \A y \in S : Max(S) >= y
  <1> DEFINE T == {k \in Nat : b - k \in S}
             R == OpToRel(<, Nat)
  <1>1. T \subseteq Nat /\ T # {}
    <2>1. PICK y : y \in S
      OBVIOUS
    <2>2. b - y \in Nat /\ b - (b - y) = y
      BY <2>1
    <2> QED
      BY <2>1, <2>2
  <1>2. IsWellFoundedOn(R, Nat)
    BY NatLessThanWellFounded
  <1>3. PICK k \in T : \A j \in T : ~(<<j, k>> \in R)
    <2> HIDE DEF R, T
    <2> QED
      BY <1>1, <1>2, WFMin
  <1>4. k \in Nat /\ b - k \in S
    BY <1>3
  <1>5. \A y \in S : b - k >= y
    <2> TAKE y \in S
    <2>1. b - y \in Nat /\ b - (b - y) = y
      OBVIOUS
    <2>2. b - y \in T
      BY <2>1
    <2>3. ~(<<b - y, k>> \in R)
      BY <1>3, <2>2
    <2>4. ~(b - y < k)
      BY <2>1, <2>3, <1>4 DEF OpToRel
    <2> QED
      BY <2>1, <2>4, <1>4
  <1>6. \E x \in S : \A y \in S : x >= y
    BY <1>4, <1>5
  <1> QED
    BY <1>6 DEF Max

LEMMA MaxExists ==
    ASSUME NEW n \in Nat, NEW S, S \subseteq 1..n, S # {}
    PROVE  Max(S) \in S /\ \A y \in S : Max(S) >= y
  <1>1. S \subseteq Int /\ n \in Int /\ \A y \in S : y <= n
    OBVIOUS
  <1> QED
    BY <1>1, MaxBounded

-----------------------------------------------------------------------------
(***************************************************************************)
(* The types of the state.                                                  *)
(***************************************************************************)
Price == Nat \ {0}

Sides == {"HIGH", "LOW"}

Candle == [ts : Nat, open : Price, high : Price, low : Price, close : Price]

Swing == [side : Sides, price : Price, ts : Nat]

ZoneRecord ==
    [dir : Directions, low : Price, high : Price, ts : Nat, active : BOOLEAN]

Signal == [dir : Directions, ts : Nat, risk : Nat \ {0}, score : Nat, dist : Int,
           swept : Price, candle : Candle]

Trend == Directions \cup {"NONE"}

Structure == [candles : Seq(Candle), swings : Seq(Swing), lastBos : Trend,
              blocks : Seq(ZoneRecord), gaps : Seq(ZoneRecord),
              htfBias : Directions \cup {"NEUTRAL"}]

HtfStructure == [candles : Seq(Candle), swings : Seq(Swing), lastBos : Trend]

\* A bar of the feed: the close lies between low and high.
Bar == {c \in Candle : c.low <= c.close /\ c.close <= c.high}

TypeOK ==
    /\ ms \in Structure /\ htf \in HtfStructure /\ htfWired \in BOOLEAN
    /\ series \in Seq(Candle) /\ bars \in Seq(Bar) /\ fired \in Seq(Signal)
    /\ lastSignalTs \in Nat /\ clock \in Nat /\ ticks \in Nat

-----------------------------------------------------------------------------
(***************************************************************************)
(* Bars as seen from a side, and the deques.                                *)
(***************************************************************************)
LEMMA BarOfShape ==
    ASSUME NEW shape \in Shapes, NEW ts \in Nat
    PROVE  CandleAt(shape, ts) \in Bar /\ CandleAt(shape, ts).ts = ts
  <1>1. /\ {shape.open, shape.high, shape.low, shape.close} \subseteq Nat \ {0}
        /\ shape.low <= Min({shape.open, shape.close})
        /\ shape.high >= Max({shape.open, shape.close})
    BY StrategyAssumption DEF StrategyAssumption
  <1>2. shape.low <= shape.close /\ shape.high >= shape.close
    BY <1>1, MinOfTwo, MaxOfTwo
  <1> QED
    BY <1>1, <1>2 DEF CandleAt, Bar, Candle, Price

LEMMA FacingPrices ==
    ASSUME NEW c \in Candle, NEW view \in Directions \cup Sides
    PROVE  /\ Facing(view, c).open = Level(view, c.open)
           /\ Facing(view, c).close = Level(view, c.close)
           /\ Facing(view, c).high = IF view \in {"BULLISH", "HIGH"} THEN c.high ELSE -c.low
           /\ Facing(view, c).low = IF view \in {"BULLISH", "HIGH"} THEN c.low ELSE -c.high
           /\ Facing(view, c).ts = c.ts
  BY DEF Facing, Level, Candle

LEMMA PriceType ==
    ASSUME NEW c \in Candle
    PROVE  /\ c.open \in Price /\ c.high \in Price /\ c.low \in Price /\ c.close \in Price
           /\ c.ts \in Nat
  BY DEF Candle

\* A price read upside down and back is a price.
LEMMA FacedPrice ==
    ASSUME NEW c \in Candle, NEW view \in Directions \cup Sides
    PROVE  /\ Level(view, Facing(view, c).high) \in Price
           /\ Level(view, Facing(view, c).low) \in Price
  <1>1. /\ c.high \in Price /\ c.low \in Price
        /\ Facing(view, c).high = IF view \in {"BULLISH", "HIGH"} THEN c.high ELSE -c.low
        /\ Facing(view, c).low = IF view \in {"BULLISH", "HIGH"} THEN c.low ELSE -c.high
    BY FacingPrices, PriceType
  <1>2. \A p \in Price : p \in Int /\ -(-p) = p
    BY DEF Price
  <1>3. CASE view \in {"BULLISH", "HIGH"}
    BY <1>1, <1>3 DEF Level
  <1>4. CASE view \notin {"BULLISH", "HIGH"}
    <2>1. /\ Level(view, Facing(view, c).high) = -(-c.low)
          /\ Level(view, Facing(view, c).low) = -(-c.high)
      BY <1>1, <1>4 DEF Level
    <2> QED
      BY <1>1, <1>2, <2>1
  <1> QED
    BY <1>3, <1>4

LEMMA LastKept ==
    ASSUME NEW T, NEW s \in Seq(T), NEW cap \in Nat \ {0}, s # <<>>
    PROVE  /\ Keep(s, cap) \in Seq(T) /\ Keep(s, cap) # <<>>
           /\ \E off \in 0..(Len(s) - 1) :
                /\ Len(Keep(s, cap)) = Len(s) - off
                /\ \A i \in 1..(Len(s) - off) : Keep(s, cap)[i] = s[i + off]
  <1>1. Len(s) \in Nat \ {0}
    OBVIOUS
  <1>2. Keep(s, cap) \in Seq(T)
    BY KeepType
  <1>3. CASE Len(s) <= cap
    <2>1. Keep(s, cap) = s
      BY <1>3 DEF Keep
    <2>2. 0 \in 0..(Len(s) - 1) /\ Len(s) - 0 = Len(s) /\ \A i \in 1..(Len(s) - 0) : i + 0 = i
      BY <1>1
    <2> QED
      BY <2>1, <2>2
  <1>4. CASE ~(Len(s) <= cap)
    <2> DEFINE m == Len(s) - cap + 1
    <2>1. Keep(s, cap) = SubSeq(s, m, Len(s))
      BY <1>4 DEF Keep
    <2>2. m \in Int /\ m <= Len(s) /\ 1 <= m
      BY <1>1, <1>4
    <2>3. /\ Len(SubSeq(s, m, Len(s))) = Len(s) - m + 1
          /\ \A i \in 1..(Len(s) - m + 1) : SubSeq(s, m, Len(s))[i] = s[m + i - 1]
      BY <1>1, <2>2
    <2> DEFINE off == Len(s) - cap
    <2>4. /\ off \in 0..(Len(s) - 1) /\ Len(s) - m + 1 = Len(s) - off
          /\ \A i \in 1..(Len(s) - off) : m + i - 1 = i + off
      BY <1>1, <1>4
    <2>5. /\ Len(Keep(s, cap)) = Len(s) - off
          /\ \A i \in 1..(Len(s) - off) : Keep(s, cap)[i] = s[i + off]
      BY <2>1, <2>3, <2>4
    <2>6. Keep(s, cap) # <<>>
      BY <1>2, <2>4, <2>5
    <2> QED
      BY <1>2, <2>4, <2>5, <2>6
  <1> QED
    BY <1>3, <1>4

-----------------------------------------------------------------------------
(***************************************************************************)
(* _detect_swings, _add_swing and _latest_swing.                            *)
(***************************************************************************)
LEMMA SwingFound ==
    ASSUME NEW cs \in Seq(Candle), NEW k \in Nat \ {0}, NEW side \in Sides,
           NEW adaptive, NEW s \in ConfirmedSwing(cs, k, side, adaptive)
    PROVE  /\ ConfirmedSwing(cs, k, side, adaptive) = {s}
           /\ s \in Swing /\ s.side = side
           /\ Facing(side, cs[Len(cs)]).high <= Level(side, s.price)
  <1> DEFINE p == Len(cs) - k
             High(i) == Facing(side, cs[i]).high
             window == (p - k) .. Len(cs)
             new == [side |-> side, price |-> Level(side, High(p)), ts |-> cs[p].ts]
  <1>1. /\ ConfirmedSwing(cs, k, side, adaptive) = {new}
        /\ p - k >= 1 /\ \A i \in window : High(i) <= High(p)
    BY DEF ConfirmedSwing
  <1>2. p \in 1..Len(cs) /\ Len(cs) \in 1..Len(cs) /\ Len(cs) \in window
    BY <1>1
  <1>3. cs[p] \in Candle
    BY <1>2, ElementOfSeq
  <1>4. High(p) = IF side = "HIGH" THEN cs[p].high ELSE -cs[p].low
    BY <1>3, FacingPrices DEF Sides
  <1>5. cs[p].high \in Price /\ cs[p].low \in Price /\ cs[p].ts \in Nat
    BY <1>3, PriceType
  <1>6. Level(side, High(p)) \in Price /\ Level(side, Level(side, High(p))) = High(p)
    <2> HIDE DEF p
    <2> QED
      BY <1>4, <1>5 DEF Level, Price, Sides
  <1>7. new \in Swing /\ new.side = side /\ new.price = Level(side, High(p))
    BY <1>5, <1>6 DEF Swing
  <1>8. High(Len(cs)) <= High(p)
    BY <1>1, <1>2
  <1>9. s = new
    BY <1>1
  <1>10. Facing(side, cs[Len(cs)]).high <= Level(side, s.price)
    BY <1>6, <1>7, <1>8, <1>9
  <1> QED
    BY <1>1, <1>7, <1>9, <1>10

\* What _latest_swing finds in a deque of swings.
Latest(swings, side) ==
    LET hits == {i \in DOMAIN swings : swings[i].side = side}
    IN  IF hits = {} THEN {} ELSE {swings[Max(hits)].price}

LEMMA LatestSwingIs ==
    ASSUME NEW m, NEW side
    PROVE  LatestSwing(m, side) = Latest(m.swings, side)
  BY DEF LatestSwing, Latest

LEMMA LatestType ==
    ASSUME NEW swings \in Seq(Swing), NEW side
    PROVE  Latest(swings, side) \subseteq Price
  <1> DEFINE hits == {i \in DOMAIN swings : swings[i].side = side}
  <1>1. CASE hits = {}
    BY <1>1 DEF Latest
  <1>2. CASE hits # {}
    <2>1. Len(swings) \in Nat /\ hits \subseteq 1..Len(swings)
      OBVIOUS
    <2>2. Max(hits) \in hits
      BY <1>2, <2>1, MaxExists
    <2>3. swings[Max(hits)] \in Swing
      BY <2>1, <2>2, ElementOfSeq
    <2>4. swings[Max(hits)].price \in Price
      BY <2>3 DEF Swing
    <2> QED
      BY <1>2, <2>4 DEF Latest
  <1> QED
    BY <1>1, <1>2

LEMMA AddSwingType ==
    ASSUME NEW swings \in Seq(Swing), NEW found \in SUBSET Swing
    PROVE  AddSwing(swings, found) \in Seq(Swing)
  <1>1. CASE found = {}
    BY <1>1 DEF AddSwing
  <1>2. CASE found # {}
    <2>1. (CHOOSE s \in found : TRUE) \in Swing
      BY <1>2
    <2>2. Append(swings, CHOOSE s \in found : TRUE) \in Seq(Swing)
      BY <2>1, AppendProperties
    <2>3. SwingCap \in Nat
      BY StructureAssumption DEF StructureAssumption
    <2>4. Keep(Append(swings, CHOOSE s \in found : TRUE), SwingCap) \in Seq(Swing)
      BY <2>2, <2>3, KeepType
    <2> QED
      BY <2>4 DEF AddSwing
  <1> QED
    BY <1>1, <1>2

\* A new swing replaces the one in force on its side and no other.
LEMMA LatestAfterAdd ==
    ASSUME NEW swings \in Seq(Swing), NEW found \in SUBSET Swing, NEW side,
           \A s, t \in found : s = t
    PROVE  Latest(AddSwing(swings, found), side)
             \subseteq Latest(swings, side) \cup {s.price : s \in {t \in found : t.side = side}}
  <1>1. CASE AddSwing(swings, found) = swings
    BY <1>1
  <1>2. CASE AddSwing(swings, found) # swings
    <2> DEFINE x == CHOOSE s \in found : TRUE
               long == Append(swings, x)
               kept == Keep(long, SwingCap)
    <2>1. found # {} /\ AddSwing(swings, found) = kept
      BY <1>2 DEF AddSwing
    <2>2. x \in found /\ x \in Swing
      BY <2>1
    <2>3. /\ long \in Seq(Swing) /\ long # <<>> /\ Len(long) = Len(swings) + 1
          /\ long[Len(swings) + 1] = x
          /\ \A i \in 1..Len(swings) : long[i] = swings[i]
      BY <2>2, AppendProperties
    <2>4. SwingCap \in Nat \ {0}
      BY StructureAssumption DEF StructureAssumption
    <2> HIDE DEF x, long, kept
    <2>b. long \in Seq(Swing) /\ long # <<>>
      BY <2>3
    <2>5. /\ Keep(long, SwingCap) \in Seq(Swing)
          /\ \E off \in 0..(Len(long) - 1) :
               /\ Len(Keep(long, SwingCap)) = Len(long) - off
               /\ \A i \in 1..(Len(long) - off) :
                    Keep(long, SwingCap)[i] = long[i + off]
      BY <2>b, <2>4, LastKept, Zenon
    <2>6. kept \in Seq(Swing)
      BY <2>5 DEF kept
    <2>a. PICK off \in 0..(Len(long) - 1) :
            /\ Len(kept) = Len(long) - off
            /\ \A i \in 1..(Len(long) - off) : kept[i] = long[i + off]
      BY <2>5 DEF kept
    <2> DEFINE n == Len(swings)
    <2>7. n \in Nat /\ off \in 0..n /\ Len(kept) = n + 1 - off /\ Len(long) = n + 1
      BY <2>3, <2>a
    <2>8. kept[n + 1 - off] = x
      BY <2>3, <2>a, <2>7
    <2>9. \A i \in 1..(n - off) : kept[i] = swings[i + off]
      BY <2>3, <2>a, <2>7
    <2>10. DOMAIN kept = 1..(n + 1 - off) /\ DOMAIN swings = 1..n
      BY <2>6, <2>7
    <2> DEFINE hits == {i \in DOMAIN kept : kept[i].side = side}
               old == {i \in DOMAIN swings : swings[i].side = side}
    <2>11. CASE x.side = side
      <3>1. hits \subseteq Int /\ n + 1 - off \in hits /\ \A y \in hits : n + 1 - off >= y
        BY <2>7, <2>8, <2>10, <2>11
      <3>2. Max(hits) = n + 1 - off
        BY <3>1, MaxIs
      <3>3. Latest(kept, side) = {x.price}
        BY <3>1, <3>2, <2>8 DEF Latest
      <3> QED
        BY <3>3, <2>1, <2>2, <2>11
    <2>12. CASE x.side # side
      <3>1. CASE hits = {}
        BY <3>1, <2>1 DEF Latest
      <3>2. CASE hits # {}
        <4>1. hits \subseteq 1..(n - off) /\ n - off \in Nat
          BY <2>7, <2>8, <2>10, <2>12
        <4>2. Max(hits) \in hits /\ \A y \in hits : Max(hits) >= y
          BY <3>2, <4>1, MaxExists
        <4> DEFINE top == Max(hits)
        <4>3. top \in 1..(n - off) /\ kept[top].side = side
          BY <4>1, <4>2
        <4>4. kept[top] = swings[top + off]
          BY <2>9, <4>3
        <4>5. top + off \in old
          BY <2>7, <2>10, <4>3, <4>4
        <4>6. \A y \in old : top + off >= y
          <5> TAKE y \in old
          <5>1. y \in 1..n /\ swings[y].side = side
            BY <2>10
          <5>2. CASE y > off
            <6>1. y - off \in 1..(n - off) /\ (y - off) + off = y
              BY <5>1, <5>2, <2>7
            <6>2. kept[y - off] = swings[y]
              BY <6>1, <2>9
            <6>3. y - off \in hits
              BY <6>1, <6>2, <5>1, <2>7, <2>10
            <6>4. top >= y - off
              BY <6>3, <4>2
            <6> QED
              BY <6>4, <6>1, <4>3, <2>7
          <5>3. CASE ~(y > off)
            BY <5>3, <5>1, <4>3, <2>7
          <5> QED
            BY <5>2, <5>3
        <4>7. Max(old) = top + off
          <5>1. old \subseteq Int
            BY <2>10
          <5> HIDE DEF old, top
          <5> QED
            BY <5>1, <4>5, <4>6, MaxIs
        <4>8. Latest(swings, side) = {swings[top + off].price}
          BY <4>5, <4>7 DEF Latest
        <4>9. Latest(kept, side) = {kept[top].price}
          BY <3>2 DEF Latest
        <4> QED
          BY <4>4, <4>8, <4>9, <2>1
      <3> QED
        BY <3>1, <3>2
    <2> QED
      BY <2>11, <2>12
  <1> QED
    BY <1>1, <1>2

\* The swings of a structure that has taken one more bar.
Tracked(swings, cs, k, adaptive) ==
    AddSwing(AddSwing(swings, ConfirmedSwing(cs, k, "HIGH", adaptive)),
             ConfirmedSwing(cs, k, "LOW", adaptive))

LEMMA FoundType ==
    ASSUME NEW cs \in Seq(Candle), NEW k \in Nat \ {0}, NEW side \in Sides, NEW adaptive
    PROVE  /\ ConfirmedSwing(cs, k, side, adaptive) \in SUBSET Swing
           /\ \A s, t \in ConfirmedSwing(cs, k, side, adaptive) : s = t
  <1> DEFINE found == ConfirmedSwing(cs, k, side, adaptive)
  <1>1. \A s \in found : found = {s} /\ s \in Swing
    BY SwingFound
  <1> HIDE DEF found
  <1>2. found \in SUBSET Swing /\ \A s, t \in found : s = t
    BY <1>1
  <1> QED
    BY <1>2 DEF found

LEMMA TrackedType ==
    ASSUME NEW swings \in Seq(Swing), NEW cs \in Seq(Candle), NEW k \in Nat \ {0},
           NEW adaptive
    PROVE  Tracked(swings, cs, k, adaptive) \in Seq(Swing)
  <1>1. /\ ConfirmedSwing(cs, k, "HIGH", adaptive) \in SUBSET Swing
        /\ ConfirmedSwing(cs, k, "LOW", adaptive) \in SUBSET Swing
    BY FoundType DEF Sides
  <1>2. AddSwing(swings, ConfirmedSwing(cs, k, "HIGH", adaptive)) \in Seq(Swing)
    BY <1>1, AddSwingType
  <1>3. AddSwing(AddSwing(swings, ConfirmedSwing(cs, k, "HIGH", adaptive)),
                 ConfirmedSwing(cs, k, "LOW", adaptive)) \in Seq(Swing)
    BY <1>1, <1>2, AddSwingType
  <1> QED
    BY <1>3 DEF Tracked

\* What a bar puts in force was in force before, or is a swing the bar does
\* not pass.
LEMMA LatestAfterBar ==
    ASSUME NEW swings \in Seq(Swing), NEW cs \in Seq(Candle), NEW k \in Nat \ {0},
           NEW adaptive, NEW side \in Sides,
           NEW p \in Latest(Tracked(swings, cs, k, adaptive), side)
    PROVE  \/ p \in Latest(swings, side)
           \/ Facing(side, cs[Len(cs)]).high <= Level(side, p)
  <1> DEFINE High == ConfirmedSwing(cs, k, "HIGH", adaptive)
             Low == ConfirmedSwing(cs, k, "LOW", adaptive)
             Found == ConfirmedSwing(cs, k, side, adaptive)
             mid == AddSwing(swings, High)
             New(found) == {s.price : s \in {t \in found : t.side = side}}
  <1>1. /\ High \in SUBSET Swing /\ \A s, t \in High : s = t
        /\ Low \in SUBSET Swing /\ \A s, t \in Low : s = t
    BY FoundType DEF Sides
  <1>2. mid \in Seq(Swing)
    BY <1>1, AddSwingType
  <1>3. Latest(mid, side) \subseteq Latest(swings, side) \cup New(High)
    BY <1>1, LatestAfterAdd
  <1>4. Latest(AddSwing(mid, Low), side) \subseteq Latest(mid, side) \cup New(Low)
    BY <1>1, <1>2, LatestAfterAdd
  <1>5. p \in Latest(AddSwing(mid, Low), side)
    BY DEF Tracked
  <1>6. /\ \A s \in High : s.side = "HIGH"
        /\ \A s \in Low : s.side = "LOW"
    BY SwingFound DEF Sides
  <1>7. New(High) \cup New(Low) \subseteq {s.price : s \in Found}
    BY <1>6 DEF Sides
  <1>8. \A s \in Found : Facing(side, cs[Len(cs)]).high <= Level(side, s.price)
    BY SwingFound
  <1> HIDE DEF High, Low, Found, mid
  <1>9. p \in Latest(swings, side) \/ \E s \in Found : p = s.price
    BY <1>3, <1>4, <1>5, <1>7
  <1> QED
    BY <1>8, <1>9

\* The candles after one more bar.
Kept(m, c) == Keep(Append(m.candles, c), CandleCap)

LEMMA TrackFields ==
    ASSUME NEW m, m \in Structure \/ m \in HtfStructure, NEW c \in Candle,
           NEW k \in Nat \ {0}, NEW adaptive
    PROVE  /\ Kept(m, c) \in Seq(Candle) /\ Kept(m, c)[Len(Kept(m, c))] = c
           /\ Kept(m, c) # <<>>
           /\ Tracked(m.swings, Kept(m, c), k, adaptive) \in Seq(Swing)
  <1> DEFINE long == Append(m.candles, c)
             cs == Kept(m, c)
             sw == Tracked(m.swings, cs, k, adaptive)
  <1>1. m.candles \in Seq(Candle) /\ m.swings \in Seq(Swing)
    BY DEF Structure, HtfStructure
  <1>2. /\ long \in Seq(Candle) /\ long # <<>> /\ long[Len(long)] = c /\ Len(long) \in Nat
    BY <1>1, AppendProperties
  <1>3. CandleCap \in Nat \ {0}
    BY StructureAssumption DEF StructureAssumption
  <1>4. cs \in Seq(Candle)
    <2> HIDE DEF long
    <2>1. Keep(long, CandleCap) \in Seq(Candle)
      BY <1>2, <1>3, LastKept
    <2> QED
      BY <2>1 DEF Kept, long
  <1>5. cs[Len(cs)] = c
    <2> HIDE DEF long, cs
    <2>1. PICK off \in 0..(Len(long) - 1) :
            /\ Len(cs) = Len(long) - off
            /\ \A i \in 1..(Len(long) - off) : cs[i] = long[i + off]
      BY <1>2, <1>3, LastKept, Zenon DEF cs, Kept, long
    <2>2. Len(long) - off \in 1..(Len(long) - off) /\ (Len(long) - off) + off = Len(long)
      BY <2>1, <1>2
    <2> QED
      BY <2>1, <2>2, <1>2
  <1>6. sw \in Seq(Swing)
    BY <1>1, <1>4, TrackedType
  <1>8. cs # <<>>
    <2> HIDE DEF long
    <2>1. Keep(long, CandleCap) # <<>>
      BY <1>2, <1>3, LastKept, Zenon
    <2> QED
      BY <2>1 DEF Kept, long
  <1> QED
    BY <1>4, <1>5, <1>6, <1>8

-----------------------------------------------------------------------------
(***************************************************************************)
(* What one bar makes of the structure.                                     *)
(***************************************************************************)
LEMMA LtfTrackFields ==
    ASSUME NEW m \in Structure, NEW c \in Candle
    PROVE  /\ LtfTrack(m, c) \in Structure
           /\ LtfTrack(m, c).candles = Kept(m, c)
           /\ LtfTrack(m, c).swings = Tracked(m.swings, Kept(m, c), SwingLookback, TRUE)
           /\ \A f \in {"lastBos", "blocks", "gaps", "htfBias"} : LtfTrack(m, c)[f] = m[f]
  <1> DEFINE yes == TRUE
             cs == Kept(m, c)
             sw == Tracked(m.swings, cs, SwingLookback, yes)
             t == LtfTrack(m, c)
  <1>1. SwingLookback \in Nat \ {0}
    BY StructureAssumption DEF StructureAssumption
  <1> HIDE DEF t, yes
  <1>3. /\ cs \in Seq(Candle) /\ sw \in Seq(Swing)
        /\ t = [m EXCEPT !.candles = cs, !.swings = sw]
    <2>1. cs \in Seq(Candle)
      BY <1>1, TrackFields
    <2>2. sw \in Seq(Swing)
      BY <1>1, TrackFields
    <2>3. t = [m EXCEPT !.candles = cs, !.swings = sw]
      BY DEF t, yes, LtfTrack, Track, Tracked, Kept
    <2> QED
      BY <2>1, <2>2, <2>3
  <1> HIDE DEF sw, cs
  <1> DEFINE Cs == Seq(Candle)
             Ss == Seq(Swing)
             Zs == Seq(ZoneRecord)
  <1>4. m \in [candles : Cs, swings : Ss, lastBos : Trend, blocks : Zs, gaps : Zs,
               htfBias : Directions \cup {"NEUTRAL"}]
    BY DEF Structure
  <1>5. cs \in Cs /\ sw \in Ss
    BY <1>3
  <1> HIDE DEF Cs, Ss, Zs
  <1>6. t \in [candles : Cs, swings : Ss, lastBos : Trend, blocks : Zs, gaps : Zs,
               htfBias : Directions \cup {"NEUTRAL"}]
    BY <1>3, <1>4, <1>5
  <1>7. t \in Structure
    BY <1>6 DEF Structure, Cs, Ss, Zs
  <1>8. \A f \in {"lastBos", "blocks", "gaps", "htfBias"} : t[f] = m[f]
    BY <1>3, <1>4
  <1>9. t.candles = cs /\ t.swings = sw
    BY <1>3, <1>4
  <1> QED
    BY <1>7, <1>8, <1>9 DEF cs, sw, t, yes

LEMMA TrendAfterType ==
    ASSUME NEW m, m.lastBos \in Trend, NEW c
    PROVE  TrendAfter(m, c) \in Trend /\ BreakOf(m, c) \in Trend
  BY DEF TrendAfter, BreakOf, Trend, Directions

LEMMA ZoneType ==
    ASSUME NEW dir \in Directions, NEW a \in Price, NEW b \in Price, NEW ts \in Nat
    PROVE  Zone(dir, Min({a, b}), Max({a, b}), ts) \in ZoneRecord
  <1>1. Min({a, b}) \in Price /\ Max({a, b}) \in Price
    BY MinOfTwo, MaxOfTwo DEF Price
  <1> QED
    BY <1>1 DEF Zone, ZoneRecord

LEMMA AddBlockType ==
    ASSUME NEW blocks \in Seq(ZoneRecord), NEW cs \in Seq(Candle), NEW dir \in Trend
    PROVE  AddBlock(blocks, cs, dir) \in Seq(ZoneRecord)
  <1> DEFINE end == Len(cs)
             opposing == {i \in Max({1, end - BlockWindow}) .. (end - 1) :
                            Rising(Facing(Opposite(dir), cs[i]))}
             ob == cs[Max(opposing)]
             new == Zone(dir, Min({ob.open, ob.close}), Max({ob.open, ob.close}), ob.ts)
  <1>1. CASE AddBlock(blocks, cs, dir) = blocks
    BY <1>1
  <1>2. CASE AddBlock(blocks, cs, dir) # blocks
    <2>1. /\ dir # "NONE" /\ opposing # {}
          /\ AddBlock(blocks, cs, dir) = Keep(Append(blocks, new), ZoneCap)
      BY <1>2 DEF AddBlock
    <2>2. end \in Nat /\ BlockWindow \in Nat /\ ZoneCap \in Nat
      BY StructureAssumption DEF StructureAssumption
    <2>3. Max({1, end - BlockWindow}) \in Int /\ Max({1, end - BlockWindow}) >= 1
      BY <2>2, MaxOfTwo
    <2>4. opposing \subseteq 1..end
      BY <2>2, <2>3
    <2>5. Max(opposing) \in 1..end
      BY <2>1, <2>2, <2>4, MaxExists
    <2>6. ob \in Candle
      BY <2>5, ElementOfSeq
    <2> HIDE DEF ob
    <2>7. new \in ZoneRecord
      BY <2>1, <2>6, ZoneType, PriceType DEF Trend
    <2> HIDE DEF new
    <2>8. Append(blocks, new) \in Seq(ZoneRecord)
      BY <2>7, AppendProperties
    <2>9. Keep(Append(blocks, new), ZoneCap) \in Seq(ZoneRecord)
      BY <2>2, <2>8, KeepType
    <2> QED
      BY <2>1, <2>9
  <1> QED
    BY <1>1, <1>2

LEMMA GapInType ==
    ASSUME NEW cs \in Seq(Candle), NEW dir \in Directions
    PROVE  GapIn(cs, dir) \in SUBSET ZoneRecord
  <1> DEFINE n == Len(cs)
             b0 == Facing(dir, cs[n - 2])
             b2 == Facing(dir, cs[n])
             x == Level(dir, b0.high)
             y == Level(dir, b2.low)
  <1>1. CASE GapIn(cs, dir) = {}
    BY <1>1
  <1>2. CASE GapIn(cs, dir) # {}
    <2>1. n >= 3 /\ GapIn(cs, dir) = {Zone(dir, Min({x, y}), Max({x, y}), cs[n - 1].ts)}
      BY <1>2 DEF GapIn
    <2>2. n \in Nat /\ n \in 1..n /\ n - 1 \in 1..n /\ n - 2 \in 1..n
      BY <2>1
    <2>3. cs[n] \in Candle /\ cs[n - 1] \in Candle /\ cs[n - 2] \in Candle
      BY <2>2, ElementOfSeq
    <2> HIDE DEF n
    <2>4. cs[n - 1].ts \in Nat
      BY <2>3, PriceType
    <2>5. x \in Price /\ y \in Price
      BY <2>3, FacedPrice
    <2> HIDE DEF x, y
    <2>7. Zone(dir, Min({x, y}), Max({x, y}), cs[n - 1].ts) \in ZoneRecord
      BY <2>4, <2>5, ZoneType
    <2> QED
      BY <2>1, <2>7
  <1> QED
    BY <1>1, <1>2

LEMMA AddGapsType ==
    ASSUME NEW gaps \in Seq(ZoneRecord), NEW cs \in Seq(Candle)
    PROVE  AddGaps(gaps, cs) \in Seq(ZoneRecord)
  <1> DEFINE Add(s, found) ==
                 IF found = {} THEN s
                 ELSE Keep(Append(s, CHOOSE g \in found : TRUE), ZoneCap)
  <1>1. ASSUME NEW s \in Seq(ZoneRecord), NEW found \in SUBSET ZoneRecord
        PROVE  Add(s, found) \in Seq(ZoneRecord)
    <2>1. CASE found = {}
      BY <2>1
    <2>2. CASE found # {}
      <3> DEFINE g == CHOOSE x \in found : TRUE
      <3>1. g \in ZoneRecord
        BY <2>2
      <3>2. Append(s, g) \in Seq(ZoneRecord)
        BY <3>1, AppendProperties
      <3>3. ZoneCap \in Nat
        BY StructureAssumption DEF StructureAssumption
      <3>4. Keep(Append(s, g), ZoneCap) \in Seq(ZoneRecord)
        BY <3>2, <3>3, KeepType
      <3> QED
        BY <2>2, <3>4
    <2> QED
      BY <2>1, <2>2
  <1>2. AddGaps(gaps, cs) = Add(Add(gaps, GapIn(cs, "BULLISH")), GapIn(cs, "BEARISH"))
    BY DEF AddGaps
  <1>3. GapIn(cs, "BULLISH") \in SUBSET ZoneRecord /\ GapIn(cs, "BEARISH") \in SUBSET ZoneRecord
    BY GapInType DEF Directions
  <1> HIDE DEF Add
  <1>4. Add(gaps, GapIn(cs, "BULLISH")) \in Seq(ZoneRecord)
    BY <1>1, <1>3
  <1>5. Add(Add(gaps, GapIn(cs, "BULLISH")), GapIn(cs, "BEARISH")) \in Seq(ZoneRecord)
    BY <1>1, <1>3, <1>4
  <1> QED
    BY <1>2, <1>5

LEMMA ZonePatched ==
    ASSUME NEW z \in ZoneRecord, NEW hit \in BOOLEAN
    PROVE  /\ [z EXCEPT !.active = @ /\ ~hit] \in ZoneRecord
           /\ [z EXCEPT !.active = @ /\ ~hit].active = (z.active /\ ~hit)
           /\ \A f \in {"dir", "low", "high", "ts"} : [z EXCEPT !.active = @ /\ ~hit][f] = z[f]
  BY DEF ZoneRecord

LEMMA MitigateObsType ==
    ASSUME NEW blocks \in Seq(ZoneRecord), NEW c \in Candle
    PROVE  /\ MitigateObs(blocks, c) \in Seq(ZoneRecord)
           /\ \A i \in DOMAIN MitigateObs(blocks, c) :
                MitigateObs(blocks, c)[i].active => ~TouchesBlock(MitigateObs(blocks, c)[i], c)
  <1> DEFINE new == MitigateObs(blocks, c)
             n == Len(blocks)
  <1>1. n \in Nat /\ DOMAIN blocks = 1..n /\ \A i \in 1..n : blocks[i] \in ZoneRecord
    BY ElementOfSeq
  <1>2. new = [i \in 1..n |-> [blocks[i] EXCEPT !.active = @ /\ ~TouchesBlock(blocks[i], c)]]
    BY <1>1 DEF MitigateObs
  <1> HIDE DEF new, n
  <1>3. ASSUME NEW i \in 1..n
        PROVE  /\ new[i] \in ZoneRecord
               /\ new[i].active => ~TouchesBlock(new[i], c)
    <2> DEFINE hit == TouchesBlock(blocks[i], c)
    <2>1. hit \in BOOLEAN
      <3>1. blocks[i] \in ZoneRecord
        BY <1>1
      <3>2. /\ blocks[i].low \in Int /\ blocks[i].high \in Int
            /\ c.low \in Int /\ c.high \in Int
        BY <3>1 DEF ZoneRecord, Candle, Price
      <3>3. CASE blocks[i].dir = "BULLISH"
        BY <3>2, <3>3 DEF TouchesBlock
      <3>4. CASE blocks[i].dir # "BULLISH"
        BY <3>2, <3>4 DEF TouchesBlock
      <3> QED
        BY <3>3, <3>4
    <2>2. new[i] = [blocks[i] EXCEPT !.active = @ /\ ~hit]
      BY <1>2
    <2>3. blocks[i] \in ZoneRecord
      BY <1>1
    <2> HIDE DEF hit
    <2>4. /\ new[i] \in ZoneRecord /\ new[i].active = (blocks[i].active /\ ~hit)
          /\ \A f \in {"dir", "low", "high", "ts"} : new[i][f] = blocks[i][f]
      BY <2>1, <2>2, <2>3, ZonePatched
    <2>5. TouchesBlock(new[i], c) = TouchesBlock(blocks[i], c)
      BY <2>4 DEF TouchesBlock
    <2>6. new[i].active => ~hit
      BY <2>4
    <2> QED
      BY <2>4, <2>5, <2>6 DEF hit
  <1>4. new \in [1..n -> ZoneRecord]
    BY <1>2, <1>3
  <1>5. new \in Seq(ZoneRecord) /\ DOMAIN new = 1..n
    BY <1>1, <1>4, IsASeq
  <1> QED
    BY <1>3, <1>5 DEF new

LEMMA FillFvgsType ==
    ASSUME NEW gaps \in Seq(ZoneRecord), NEW c \in Candle
    PROVE  FillFvgs(gaps, c) \in Seq(ZoneRecord)
  <1> DEFINE new == FillFvgs(gaps, c)
             n == Len(gaps)
  <1>1. n \in Nat /\ DOMAIN gaps = 1..n /\ \A i \in 1..n : gaps[i] \in ZoneRecord
    BY ElementOfSeq
  <1>2. new = [i \in 1..n |-> [gaps[i] EXCEPT !.active = @ /\ ~FillsGap(gaps[i], c)]]
    BY <1>1 DEF FillFvgs
  <1> HIDE DEF new, n
  <1>3. ASSUME NEW i \in 1..n
        PROVE  new[i] \in ZoneRecord
    <2> DEFINE hit == FillsGap(gaps[i], c)
    <2>1. hit \in BOOLEAN
      <3>1. gaps[i] \in ZoneRecord
        BY <1>1
      <3>2. /\ gaps[i].low \in Int /\ gaps[i].high \in Int
            /\ c.low \in Int /\ c.high \in Int
        BY <3>1 DEF ZoneRecord, Candle, Price
      <3>3. CASE gaps[i].dir = "BULLISH"
        BY <3>2, <3>3 DEF FillsGap
      <3>4. CASE gaps[i].dir # "BULLISH"
        BY <3>2, <3>4 DEF FillsGap
      <3> QED
        BY <3>3, <3>4
    <2>2. new[i] = [gaps[i] EXCEPT !.active = @ /\ ~hit]
      BY <1>2
    <2>3. gaps[i] \in ZoneRecord
      BY <1>1
    <2> HIDE DEF hit
    <2> QED
      BY <2>1, <2>2, <2>3, ZonePatched
  <1>4. new \in [1..n -> ZoneRecord]
    BY <1>2, <1>3
  <1> QED
    BY <1>1, <1>4, IsASeq DEF new

LEMMA UpdateFields ==
    ASSUME NEW m \in Structure, NEW c \in Candle
    PROVE  LET t == LtfTrack(m, c)
               u == Update(m, c)
           IN  /\ u \in Structure
               /\ u.candles = t.candles /\ u.swings = t.swings
               /\ u.lastBos = TrendAfter(t, c) /\ u.htfBias = m.htfBias
               /\ u.blocks = MitigateObs(AddBlock(m.blocks, t.candles, BreakOf(t, c)), c)
               /\ u.gaps = FillFvgs(AddGaps(m.gaps, t.candles), c)
  <1> DEFINE t == LtfTrack(m, c)
             u == Update(m, c)
             trend == TrendAfter(t, c)
             bs == MitigateObs(AddBlock(t.blocks, t.candles, BreakOf(t, c)), c)
             gs == FillFvgs(AddGaps(t.gaps, t.candles), c)
             Cs == Seq(Candle)
             Ss == Seq(Swing)
             Zs == Seq(ZoneRecord)
  <1>1. t \in Structure /\ \A f \in {"lastBos", "blocks", "gaps", "htfBias"} : t[f] = m[f]
    BY LtfTrackFields
  <1>2. u = [t EXCEPT !.lastBos = trend, !.blocks = bs, !.gaps = gs]
    BY DEF Update, Settle
  <1> HIDE DEF t, u
  <1>3. /\ t.candles \in Seq(Candle) /\ t.blocks \in Seq(ZoneRecord)
        /\ t.gaps \in Seq(ZoneRecord) /\ t.lastBos \in Trend
    BY <1>1 DEF Structure
  <1>4. trend \in Trend /\ BreakOf(t, c) \in Trend
    BY <1>3, TrendAfterType
  <1>5. AddBlock(t.blocks, t.candles, BreakOf(t, c)) \in Seq(ZoneRecord)
    BY <1>3, <1>4, AddBlockType
  <1>6. bs \in Zs
    BY <1>5, MitigateObsType
  <1>7. AddGaps(t.gaps, t.candles) \in Seq(ZoneRecord)
    BY <1>3, AddGapsType
  <1>8. gs \in Zs
    BY <1>7, FillFvgsType
  <1>9. t \in [candles : Cs, swings : Ss, lastBos : Trend, blocks : Zs, gaps : Zs,
               htfBias : Directions \cup {"NEUTRAL"}]
    BY <1>1 DEF Structure
  <1> HIDE DEF trend, bs, gs, Cs, Ss, Zs
  <1>10. u \in [candles : Cs, swings : Ss, lastBos : Trend, blocks : Zs, gaps : Zs,
                htfBias : Directions \cup {"NEUTRAL"}]
    BY <1>2, <1>4, <1>6, <1>8, <1>9
  <1>11. u \in Structure
    BY <1>10 DEF Structure, Cs, Ss, Zs
  <1>12. /\ u.candles = t.candles /\ u.swings = t.swings /\ u.lastBos = trend
         /\ u.htfBias = t.htfBias /\ u.blocks = bs /\ u.gaps = gs
    BY <1>2, <1>9
  <1>13. bs = MitigateObs(AddBlock(m.blocks, t.candles, BreakOf(t, c)), c)
    BY <1>1 DEF bs
  <1>14. gs = FillFvgs(AddGaps(m.gaps, t.candles), c)
    BY <1>1 DEF gs
  <1> QED
    BY <1>1, <1>11, <1>12, <1>13, <1>14 DEF t, u, trend

LEMMA HtfUpdateType ==
    ASSUME NEW h \in HtfStructure, NEW c \in Candle
    PROVE  HtfUpdate(h, c) \in HtfStructure
  <1> DEFINE no == FALSE
             cs == Kept(h, c)
             sw == Tracked(h.swings, cs, HtfLookback, no)
             t == [h EXCEPT !.candles = cs, !.swings = sw]
             trend == TrendAfter(t, c)
             Cs == Seq(Candle)
             Ss == Seq(Swing)
  <1>1. HtfLookback \in Nat \ {0}
    BY StructureAssumption DEF StructureAssumption
  <1>2. HtfTrack(h, c) = t
    BY DEF HtfTrack, Track, Tracked, Kept
  <1>3. HtfUpdate(h, c) = [t EXCEPT !.lastBos = trend]
    BY <1>2 DEF HtfUpdate
  <1> HIDE DEF no
  <1>4. cs \in Cs /\ sw \in Ss
    BY <1>1, TrackFields
  <1>5. h \in [candles : Cs, swings : Ss, lastBos : Trend]
    BY DEF HtfStructure
  <1> HIDE DEF cs, sw, Cs, Ss, trend
  <1>6. t \in [candles : Cs, swings : Ss, lastBos : Trend]
    BY <1>4, <1>5
  <1>7. t.lastBos \in Trend
    BY <1>6
  <1>8. trend \in Trend
    BY <1>7, TrendAfterType DEF trend
  <1> HIDE DEF t
  <1>9. [t EXCEPT !.lastBos = trend] \in [candles : Cs, swings : Ss, lastBos : Trend]
    BY <1>6, <1>8
  <1> QED
    BY <1>3, <1>9 DEF HtfStructure, Cs, Ss

-----------------------------------------------------------------------------
(***************************************************************************)
(* The events of a bar, the blocks it leaves and the signals it may fire.   *)
(***************************************************************************)
LEMMA EventsAt ==
    ASSUME NEW t \in Structure, NEW c, NEW e \in Events(t, c)
    PROVE  /\ e.side \in Sides /\ e.price \in LatestSwing(t, e.side) /\ e.price \in Price
           /\ \/ IsSweep(e.side, c, e.price)
              \/ e.side = "HIGH" /\ \E p \in LatestSwing(t, "HIGH") : c.close > p
              \/ e.side = "LOW" /\ \E p \in LatestSwing(t, "LOW") : c.close < p
  <1>1. e.side \in Sides /\ e.price \in LatestSwing(t, e.side)
    BY DEF Events, Sweeps, Breaks, Sides, SideOf, BreakOf
  <1>2. t.swings \in Seq(Swing)
    BY DEF Structure
  <1>3. e.price \in Price
    BY <1>1, <1>2, LatestSwingIs, LatestType
  <1>4. CASE e \in Sweeps(t, c)
    BY <1>1, <1>3, <1>4 DEF Sweeps
  <1>5. CASE e \in Breaks(t, c)
    <2>1. BreakOf(t, c) # "NONE" /\ e.side = SideOf(BreakOf(t, c))
      BY <1>5 DEF Breaks
    <2>2. CASE \E p \in LatestSwing(t, "HIGH") : c.close > p
      BY <1>1, <1>3, <2>1, <2>2 DEF BreakOf, SideOf
    <2>3. CASE ~\E p \in LatestSwing(t, "HIGH") : c.close > p
      BY <1>1, <1>3, <2>1, <2>3 DEF BreakOf, SideOf
    <2> QED
      BY <2>2, <2>3
  <1> QED
    BY <1>4, <1>5 DEF Events

LEMMA NoBlockHolds ==
    ASSUME NEW m \in Structure, NEW c \in Bar, NEW dir \in Directions
    PROVE  ~Holds(Update(m, c).blocks, dir, c.close)
  <1> DEFINE old == AddBlock(m.blocks, LtfTrack(m, c).candles, BreakOf(LtfTrack(m, c), c))
             new == Update(m, c).blocks
  <1>1. c \in Candle /\ c.low <= c.close /\ c.close <= c.high
    BY DEF Bar
  <1>2. new = MitigateObs(old, c)
    BY <1>1, UpdateFields
  <1>3. /\ m.blocks \in Seq(ZoneRecord) /\ LtfTrack(m, c).candles \in Seq(Candle)
        /\ LtfTrack(m, c).lastBos \in Trend
    BY <1>1, LtfTrackFields DEF Structure
  <1>4. old \in Seq(ZoneRecord)
    BY <1>3, AddBlockType, TrendAfterType
  <1> HIDE DEF old, new
  <1>5. /\ new \in Seq(ZoneRecord)
        /\ \A i \in DOMAIN new : new[i].active => ~TouchesBlock(new[i], c)
    BY <1>1, <1>2, <1>4, MitigateObsType
  <1>6. ASSUME NEW i \in DOMAIN new, new[i].active, new[i].dir = dir,
               new[i].low <= c.close, c.close <= new[i].high
        PROVE  FALSE
    <2>1. new[i] \in ZoneRecord
      BY <1>5, ElementOfSeq
    <2>2. new[i].low \in Int /\ new[i].high \in Int
      BY <2>1 DEF ZoneRecord, Price
    <2>3. c.low \in Int /\ c.high \in Int /\ c.close \in Int
      BY <1>1, PriceType DEF Price
    <2>4. ~TouchesBlock(new[i], c)
      BY <1>5, <1>6
    <2>5. CASE dir = "BULLISH"
      BY <1>1, <1>6, <2>2, <2>3, <2>4, <2>5 DEF TouchesBlock
    <2>6. CASE dir # "BULLISH"
      BY <1>1, <1>6, <2>2, <2>3, <2>4, <2>6 DEF TouchesBlock
    <2> QED
      BY <2>5, <2>6
  <1> QED
    BY <1>6 DEF Holds, Active, new

\* What a signal promises: stop, reward and target.
Sound(s) ==
    LET f == Facing(s.dir, s.candle)
    IN  /\ f.close - s.risk < Min({f.low, Level(s.dir, s.swept)})
        /\ s.dist >= 200 * MinRrPct * s.risk
        /\ s.dist >= 2 * TpMinBp * s.candle.close
        /\ s.dist <= 3 * TpMaxBp * s.candle.close

LEMMA ScoreBounds ==
    ASSUME NEW m, NEW events, NEW c, NEW dir
    PROVE  /\ Score(m, events, c, dir) \in Nat
           /\ ~Holds(m.blocks, dir, c.close) => Score(m, events, c, dir) <= 90
  BY DEF Score

LEMMA Evaluated ==
    ASSUME NEW m, NEW events, \A e \in events : e.price \in Price,
           NEW c \in Bar, NEW dir \in Directions,
           NEW out \in Evaluate(m, events, c, dir), out # {}
    PROVE  \E s \in Signal :
             /\ out = {s} /\ s.dir = dir /\ s.ts = c.ts /\ s.candle = c
             /\ s.score = Score(m, events, c, dir)
             /\ Sound(s) /\ ~Opposed(m, dir)
  <1> DEFINE swept == {e.price : e \in {x \in events : /\ x.kind = "SWEEP"
                                                       /\ x.side = SideOf(Opposite(dir))}}
             score == Score(m, events, c, dir)
             p == CHOOSE x \in swept : TRUE
             s == BuildSignal(c, p, dir, score)
             f == Facing(dir, c)
             risk == f.close - (Min({Level(dir, p), f.low}) - Pip)
             a == 2 * TpMinBp * c.close
             b == 200 * MinRrPct * risk
             d == 3 * TpMaxBp * c.close
  <1>1. /\ ~Opposed(m, dir) /\ swept # {} /\ ~(s.risk <= 0)
        /\ \E refused \in RrRefused(s) : out = IF refused THEN {} ELSE {s}
    BY DEF Evaluate
  <1>2. s = [dir |-> dir, ts |-> c.ts, risk |-> risk, score |-> score,
             dist |-> Min({Max({a, b}), d}), swept |-> p, candle |-> c]
    BY DEF BuildSignal
  <1>3. p \in Price
    <2>1. p \in swept /\ swept \subseteq Price
      BY <1>1
    <2> QED
      BY <2>1
  <1>4. c \in Candle /\ c.ts \in Nat /\ c.close \in Price /\ c.low \in Price /\ c.high \in Price
    BY PriceType DEF Bar
  <1>5. score \in Nat
    BY ScoreBounds
  <1> HIDE DEF score, swept, p, s
  <1>6. f.close \in Int /\ f.low \in Int /\ Level(dir, p) \in Int
    <2>1. /\ f.close = Level(dir, c.close)
          /\ f.low = IF dir \in {"BULLISH", "HIGH"} THEN c.low ELSE -c.high
      BY <1>4, FacingPrices
    <2> HIDE DEF f
    <2> QED
      BY <2>1, <1>3, <1>4 DEF Level, Price
  <1>7. Pip \in Nat \ {0} /\ TpMinBp \in Nat /\ TpMaxBp \in Nat /\ TpMinBp <= TpMaxBp
        /\ MinRrPct \in Nat
    BY StrategyAssumption DEF StrategyAssumption
  <1>8. /\ Min({Level(dir, p), f.low}) = Min({f.low, Level(dir, p)})
        /\ Min({Level(dir, p), f.low}) \in Int
    BY <1>6, MinOfTwo
  <1>9. risk \in Int /\ f.close - risk < Min({f.low, Level(dir, p)})
    BY <1>6, <1>7, <1>8
  <1> HIDE DEF risk
  <1>10. a \in Int /\ b \in Int /\ d \in Int /\ a <= d
    <2>1. c.close \in Nat
      BY <1>4 DEF Price
    <2>2. 2 * TpMinBp \in Nat /\ 3 * TpMaxBp \in Nat /\ 2 * TpMinBp <= 3 * TpMaxBp
      BY <1>7
    <2>3. (2 * TpMinBp) * c.close <= (3 * TpMaxBp) * c.close
      BY <2>1, <2>2, ProductMonotone
    <2>4. 200 * MinRrPct \in Int
      BY <1>7
    <2>5. a \in Int /\ d \in Int /\ a <= d
      BY <2>1, <2>2, <2>3
    <2>6. b \in Int
      BY <1>9, <2>4
    <2> QED
      BY <2>5, <2>6
  <1> HIDE DEF a, b, d
  <1>11. /\ Min({Max({a, b}), d}) \in Int
         /\ Min({Max({a, b}), d}) >= a /\ Min({Max({a, b}), d}) <= d
    <2>1. Max({a, b}) = IF a >= b THEN a ELSE b
      BY <1>10, MaxOfTwo
    <2>2. Max({a, b}) \in Int /\ Max({a, b}) >= a
      BY <2>1, <1>10
    <2>3. Min({Max({a, b}), d}) = IF Max({a, b}) <= d THEN Max({a, b}) ELSE d
      BY <2>2, <1>10, MinOfTwo
    <2> QED
      BY <2>2, <2>3, <1>10
  <1> DEFINE dist == Min({Max({a, b}), d})
  <1> HIDE DEF dist
  <1>12. /\ s.dir = dir /\ s.ts = c.ts /\ s.risk = risk /\ s.score = score
         /\ s.dist = dist /\ s.swept = p /\ s.candle = c
    BY <1>2 DEF dist
  <1>13. PICK refused \in RrRefused(s) : out = IF refused THEN {} ELSE {s}
    BY <1>1
  <1>14. s.dist = b \/ ~(s.dist < b)
    <2>1. RrRefused(s) = IF s.dist = b THEN BOOLEAN ELSE {s.dist < b}
      BY <1>12 DEF RrRefused, b
    <2>2. CASE s.dist = b
      BY <2>2
    <2>3. CASE s.dist # b
      <3>1. refused = (s.dist < b)
        BY <1>13, <2>1, <2>3
      <3>2. ~refused
        BY <1>13
      <3> QED
        BY <3>1, <3>2
    <2> QED
      BY <2>2, <2>3
  <1>15. out = {s}
    BY <1>13
  <1>16. dist \in Int /\ dist >= a /\ dist <= d /\ dist >= b
    BY <1>10, <1>11, <1>12, <1>14 DEF dist
  <1>17. risk \in Nat \ {0}
    BY <1>1, <1>9, <1>12
  <1>18. s \in Signal
    BY <1>2, <1>3, <1>4, <1>5, <1>16, <1>17 DEF Signal, dist
  <1>19. Sound(s)
    BY <1>9, <1>12, <1>16 DEF Sound, a, b, d
  <1> QED
    BY <1>1, <1>12, <1>15, <1>18, <1>19 DEF score

-----------------------------------------------------------------------------
(***************************************************************************)
(* The inductive invariant.                                                 *)
(***************************************************************************)
\* The bias of the tracker is the one its wiring has last set.
BiasFollows == htfWired => ms.htfBias = Bias(htf)

\* The guard of on_candle remembers the time of the last signal, which is that
\* of no signal before it; while no bar comes late, the times of the signals
\* grow and none passes that of the newest bar.
FiredInOrder ==
    /\ fired # <<>> => lastSignalTs = fired[Len(fired)].ts
    /\ \A i, j \in DOMAIN fired : j = i + 1 => fired[i].ts # fired[j].ts
    /\ NoneLate(bars) =>
         /\ \A i, j \in DOMAIN fired : i < j => fired[i].ts < fired[j].ts
         /\ \A i \in DOMAIN fired : bars # <<>> /\ fired[i].ts <= bars[Len(bars)].ts

\* The newest bar is in no active block, and no signal got points for one.
BlocksClear ==
    /\ bars # <<>> =>
         \A dir \in Directions : ~Holds(ms.blocks, dir, Last(bars).close)
    /\ \A i \in DOMAIN fired : fired[i].score <= 90

IInv == TypeOK /\ BiasFollows /\ FiredInOrder /\ BlocksClear

LEMMA InitIInv == Init => IInv
  <1> SUFFICES ASSUME Init PROVE IInv
    OBVIOUS
  <1> DEFINE Cs == Seq(Candle)
             Ss == Seq(Swing)
             Zs == Seq(ZoneRecord)
  <1>1. <<>> \in Cs /\ <<>> \in Ss /\ <<>> \in Zs
    OBVIOUS
  <1> HIDE DEF Cs, Ss, Zs
  <1>2. FreshStructure \in [candles : Cs, swings : Ss, lastBos : Trend, blocks : Zs,
                            gaps : Zs, htfBias : Directions \cup {"NEUTRAL"}]
    BY <1>1 DEF FreshStructure, Trend
  <1>3. FreshHtf \in [candles : Cs, swings : Ss, lastBos : Trend]
    BY <1>1 DEF FreshHtf, Trend
  <1>4. FreshStructure \in Structure /\ FreshHtf \in HtfStructure
    BY <1>2, <1>3 DEF Structure, HtfStructure, Cs, Ss, Zs
  <1>5. TypeOK
    BY <1>4 DEF Init, TypeOK
  <1>6. BiasFollows
    BY DEF Init, BiasFollows, Bias, FreshStructure, FreshHtf
  <1>7. FiredInOrder /\ BlocksClear
    BY DEF Init, FiredInOrder, BlocksClear
  <1> QED
    BY <1>5, <1>6, <1>7 DEF IInv

\* What a signal of the bar c is.
NewSignal(s, c) ==
    /\ s \in Signal /\ s.ts = c.ts /\ s.candle = c
    /\ Sound(s) /\ ~Opposed(Update(ms, c), s.dir) /\ s.score <= 90

LEMMA EventPrices ==
    ASSUME NEW m \in Structure, NEW c \in Candle
    PROVE  \A e \in UpdateEvents(m, c) : e.price \in Price
  BY LtfTrackFields, EventsAt DEF UpdateEvents

LEMMA Ingested ==
    ASSUME TypeOK, NEW c \in Bar, Ingest(c)
    PROVE  /\ ms' = Update(ms, c) /\ bars' = Append(bars, c)
           /\ series' = AppendBar(series, c) /\ UNCHANGED <<htf, htfWired>>
           /\ \/ fired' = fired /\ lastSignalTs' = lastSignalTs
              \/ \E s \in Signal : /\ NewSignal(s, c)
                                   /\ fired' = Append(fired, s) /\ lastSignalTs' = c.ts
  <1> DEFINE m == Update(ms, c)
             events == UpdateEvents(ms, c)
  <1>1. c \in Candle /\ ms \in Structure /\ fired \in Seq(Signal)
    BY DEF Bar, TypeOK
  <1>2. \A e \in events : e.price \in Price
    BY <1>1, EventPrices
  <1>3. PICK long \in Evaluate(m, events, c, "BULLISH"),
             short \in Evaluate(m, events, c, "BEARISH") :
          LET out == IF long # {} THEN long ELSE short
          IN  /\ fired' = fired \o SetToSeq(out)
              /\ lastSignalTs' = IF out # {} THEN c.ts ELSE lastSignalTs
    BY DEF Ingest, EvaluateLong, EvaluateShort
  <1> DEFINE out == IF long # {} THEN long ELSE short
  <1>4. /\ fired' = fired \o SetToSeq(out)
        /\ lastSignalTs' = IF out # {} THEN c.ts ELSE lastSignalTs
    BY <1>3
  <1>5. CASE out = {}
    <2>1. fired' = fired
      BY <1>1, <1>4, <1>5, NoneAsSeq, ConcatEmptySeq
    <2> QED
      BY <1>4, <1>5, <2>1 DEF Ingest
  <1>6. CASE out # {}
    <2>1. PICK dir \in Directions : out \in Evaluate(m, events, c, dir)
      BY DEF Directions
    <2> HIDE DEF out, events
    <2>2. PICK s \in Signal : /\ out = {s} /\ s.dir = dir /\ s.ts = c.ts /\ s.candle = c
                              /\ s.score = Score(m, events, c, dir)
                              /\ Sound(s) /\ ~Opposed(m, dir)
      BY <1>2, <1>6, <2>1, Evaluated
    <2>3. s.score <= 90
      BY <1>1, <2>2, NoBlockHolds, ScoreBounds
    <2>4. NewSignal(s, c)
      BY <2>2, <2>3 DEF NewSignal
    <2>5. fired' = Append(fired, s)
      <3>1. fired' = fired \o <<s>>
        BY <1>4, <2>2, OneAsSeq
      <3>2. Append(fired, s) = fired \o <<s>>
        BY <1>1, AppendIsConcat
      <3> QED
        BY <3>1, <3>2
    <2>6. lastSignalTs' = c.ts
      BY <1>4, <1>6
    <2> QED
      BY <2>4, <2>5, <2>6 DEF Ingest
  <1> QED
    BY <1>5, <1>6

LEMMA AppendBarType ==
    ASSUME NEW s \in Seq(Candle), NEW c \in Candle
    PROVE  AppendBar(s, c) \in Seq(Candle)
  <1>1. CASE s = <<>>
    BY <1>1, AppendProperties DEF AppendBar
  <1>2. CASE s # <<>>
    <2>1. Len(s) - 1 \in Nat /\ Len(s) \in Nat
      BY <1>2
    <2>2. SubSeq(s, 1, Len(s) - 1) \in Seq(Candle)
      <3>1. \A i \in 1..(Len(s) - 1) : s[i] \in Candle
        BY <2>1, ElementOfSeq
      <3> QED
        BY <2>1, <3>1, SubSeqProperties
    <2> QED
      BY <2>2, AppendProperties DEF AppendBar, Front
  <1> QED
    BY <1>1, <1>2

LEMMA SignalTime ==
    ASSUME NEW s \in Seq(Signal), NEW i \in DOMAIN s
    PROVE  s[i].ts \in Nat
  <1>1. i \in 1..Len(s)
    OBVIOUS
  <1>2. s[i] \in Signal
    BY <1>1, ElementOfSeq
  <1> QED
    BY <1>2 DEF Signal

LEMMA NewestTime ==
    ASSUME NEW h \in Seq(Bar), h # <<>>
    PROVE  Len(h) \in 1..Len(h) /\ h[Len(h)].ts \in Nat
  <1>1. Len(h) \in 1..Len(h)
    OBVIOUS
  <1>2. h[Len(h)] \in Bar
    BY <1>1, ElementOfSeq
  <1> QED
    BY <1>1, <1>2 DEF Bar, Candle

\* A bar that does not come late follows bars none of which did.
LEMMA LateOrNot ==
    ASSUME NEW h \in Seq(Bar), NEW c \in Bar
    PROVE  LET g == Append(h, c)
           IN  /\ g[Len(g)] = c
               /\ NoneLate(g) => NoneLate(h) /\ (h # <<>> => h[Len(h)].ts <= c.ts)
  <1> DEFINE g == Append(h, c)
             N == Len(h)
  <1>1. /\ N \in Nat /\ Len(g) = N + 1 /\ DOMAIN g = 1..(N + 1) /\ DOMAIN h = 1..N
        /\ g[N + 1] = c /\ \A i \in 1..N : g[i] = h[i]
    BY AppendProperties
  <1> HIDE DEF g
  <1>2. ASSUME NoneLate(g) PROVE NoneLate(h)
    <2> SUFFICES ASSUME NEW i \in 1..N, NEW j \in 1..N, i < j PROVE h[i].ts <= h[j].ts
      BY <1>1 DEF NoneLate
    <2>1. i \in DOMAIN g /\ j \in DOMAIN g /\ g[i] = h[i] /\ g[j] = h[j]
      BY <1>1
    <2> QED
      BY <1>2, <2>1 DEF NoneLate
  <1>3. ASSUME NoneLate(g), h # <<>> PROVE h[N].ts <= c.ts
    <2>1. N \in 1..N
      BY <1>3, NewestTime
    <2>2. N \in DOMAIN g /\ N + 1 \in DOMAIN g /\ N < N + 1 /\ g[N] = h[N]
      BY <1>1, <2>1
    <2> QED
      BY <1>1, <1>3, <2>2 DEF NoneLate
  <1>4. g[Len(g)] = c
    BY <1>1
  <1> QED
    BY <1>2, <1>3, <1>4 DEF g

LEMMA IngestIInv ==
    ASSUME IInv, NEW c \in Bar, Ingest(c), clock' \in Nat, ticks' \in Nat,
           ~AlreadyFired(c.ts)
    PROVE  IInv'
  <1>1. c \in Candle /\ c.ts \in Nat
    BY PriceType DEF Bar
  <1>2. /\ ms \in Structure /\ htf \in HtfStructure /\ htfWired \in BOOLEAN
        /\ series \in Seq(Candle) /\ bars \in Seq(Bar) /\ fired \in Seq(Signal)
        /\ lastSignalTs \in Nat /\ clock \in Nat
    BY DEF IInv, TypeOK
  <1>3. /\ ms' = Update(ms, c) /\ bars' = Append(bars, c)
        /\ series' = AppendBar(series, c) /\ htf' = htf /\ htfWired' = htfWired
        /\ \/ fired' = fired /\ lastSignalTs' = lastSignalTs
           \/ \E s \in Signal : /\ NewSignal(s, c)
                                /\ fired' = Append(fired, s) /\ lastSignalTs' = c.ts
    BY Ingested DEF IInv
  <1>4. ms' \in Structure /\ ms'.htfBias = ms.htfBias
    BY <1>1, <1>2, <1>3, UpdateFields
  <1>5. series' \in Seq(Candle)
    BY <1>1, <1>2, <1>3, AppendBarType
  <1>6. bars' \in Seq(Bar) /\ bars' # <<>> /\ Last(bars') = c
    BY <1>2, <1>3, AppendProperties DEF Last
  <1>7. \A dir \in Directions : ~Holds(ms'.blocks, dir, Last(bars').close)
    BY <1>2, <1>3, <1>6, NoBlockHolds
  <1>8. BiasFollows'
    BY <1>3, <1>4 DEF IInv, BiasFollows
  <1>9. CASE fired' = fired /\ lastSignalTs' = lastSignalTs
    <2>1. TypeOK'
      BY <1>2, <1>3, <1>4, <1>5, <1>6, <1>9 DEF TypeOK
    <2>2. FiredInOrder'
      <3>1. fired' = fired /\ lastSignalTs' = lastSignalTs /\ bars' # <<>>
        BY <1>6, <1>9
      <3>2. ASSUME NoneLate(bars'), NEW i \in DOMAIN fired
            PROVE  fired[i].ts <= bars'[Len(bars')].ts
        <4>1. NoneLate(bars) /\ (bars # <<>> => bars[Len(bars)].ts <= c.ts)
              /\ bars'[Len(bars')].ts = c.ts
          BY <1>1, <1>2, <1>3, <3>2, LateOrNot
        <4>2. bars # <<>> /\ fired[i].ts <= bars[Len(bars)].ts
          BY <4>1 DEF IInv, FiredInOrder
        <4>3. fired[i].ts \in Nat /\ bars[Len(bars)].ts \in Nat
          BY <1>2, <4>2, SignalTime, NewestTime
        <4> QED
          BY <1>1, <4>1, <4>2, <4>3
      <3>3. NoneLate(bars') => NoneLate(bars)
        BY <1>1, <1>2, <1>3, LateOrNot
      <3> QED
        BY <3>1, <3>2, <3>3 DEF IInv, FiredInOrder
    <2>3. BlocksClear'
      BY <1>7, <1>9 DEF IInv, BlocksClear
    <2> QED
      BY <1>8, <2>1, <2>2, <2>3 DEF IInv
  <1>10. ASSUME NEW s \in Signal, NewSignal(s, c), fired' = Append(fired, s),
                lastSignalTs' = c.ts
         PROVE  IInv'
    <2>1. /\ fired' \in Seq(Signal) /\ DOMAIN fired' = 1..(Len(fired) + 1)
          /\ DOMAIN fired = 1..Len(fired) /\ Len(fired) \in Nat
          /\ fired'[Len(fired) + 1] = s
          /\ \A i \in 1..Len(fired) : fired'[i] = fired[i]
      BY <1>2, <1>10, AppendProperties
    <2>2. TypeOK'
      BY <1>1, <1>2, <1>3, <1>4, <1>5, <1>6, <1>10, <2>1 DEF TypeOK
    <2>3. \A i \in 1..Len(fired) : fired[i].ts \in Nat
      BY <1>2, <2>1, SignalTime
    <2>4. s.ts = c.ts /\ s.score <= 90
      BY <1>10 DEF NewSignal
    <2>5. FiredInOrder'
      <3>1. fired' # <<>> /\ Len(fired') = Len(fired) + 1
        BY <2>1
      <3>2. fired # <<>> => fired[Len(fired)].ts # c.ts
        BY DEF IInv, FiredInOrder, AlreadyFired
      <3>3. ASSUME NEW i \in DOMAIN fired', NEW j \in DOMAIN fired', j = i + 1
            PROVE  fired'[i].ts # fired'[j].ts
        <4>1. i \in 1..Len(fired) /\ fired # <<>>
          BY <2>1, <3>3
        <4>2. CASE j = Len(fired) + 1
          BY <2>1, <2>4, <3>2, <3>3, <4>1, <4>2
        <4>3. CASE j # Len(fired) + 1
          <5>1. j \in 1..Len(fired)
            BY <2>1, <4>3
          <5>2. fired[i].ts # fired[j].ts
            BY <2>1, <3>3, <4>1, <5>1 DEF IInv, FiredInOrder
          <5> QED
            BY <2>1, <4>1, <5>1, <5>2
        <4> QED
          BY <4>2, <4>3
      <3>4. ASSUME NoneLate(bars')
            PROVE  /\ \A i, j \in DOMAIN fired' : i < j => fired'[i].ts < fired'[j].ts
                   /\ \A i \in DOMAIN fired' :
                        bars' # <<>> /\ fired'[i].ts <= bars'[Len(bars')].ts
        <4>1. NoneLate(bars) /\ (bars # <<>> => bars[Len(bars)].ts <= c.ts)
              /\ bars'[Len(bars')].ts = c.ts
          BY <1>1, <1>2, <1>3, <3>4, LateOrNot
        <4>2. ASSUME NEW i \in 1..Len(fired) PROVE fired[i].ts < c.ts
          <5>1. bars # <<>> /\ fired[Len(fired)].ts <= bars[Len(bars)].ts
                /\ (i < Len(fired) => fired[i].ts < fired[Len(fired)].ts)
            BY <2>1, <4>1, <4>2 DEF IInv, FiredInOrder
          <5>2. /\ fired[Len(fired)].ts \in Nat /\ fired[i].ts \in Nat
                /\ bars[Len(bars)].ts \in Nat
            BY <1>2, <2>1, <2>3, <4>2, <5>1, NewestTime
          <5>3. fired[Len(fired)].ts # c.ts
            BY <2>1, <3>2, <4>2
          <5>4. i < Len(fired) \/ i = Len(fired)
            <6>1. Len(fired) \in Nat
              BY <1>2, LenProperties
            <6> QED
              BY <4>2, <6>1
          <5>5. c.ts \in Nat /\ bars[Len(bars)].ts <= c.ts
            BY <1>1, <4>1, <5>1
          <5>6. fired[Len(fired)].ts < c.ts
            BY <5>1, <5>2, <5>3, <5>5
          <5> QED
            BY <5>1, <5>2, <5>4, <5>5, <5>6
        <4>3. \A i \in DOMAIN fired' : fired'[i].ts <= c.ts
          <5> TAKE i \in DOMAIN fired'
          <5>1. i \in 1..Len(fired) \/ i = Len(fired) + 1
            BY <2>1
          <5> QED
            BY <1>1, <2>1, <2>3, <2>4, <4>2, <5>1
        <4>4. ASSUME NEW i \in DOMAIN fired', NEW j \in DOMAIN fired', i < j
              PROVE  fired'[i].ts < fired'[j].ts
          <5>1. i \in 1..Len(fired)
            BY <2>1, <4>4
          <5>2. CASE j = Len(fired) + 1
            BY <2>1, <2>4, <4>2, <5>1, <5>2
          <5>3. CASE j # Len(fired) + 1
            <6>1. j \in 1..Len(fired)
              BY <2>1, <5>3
            <6>2. fired[i].ts < fired[j].ts
              BY <2>1, <4>1, <4>4, <5>1, <6>1 DEF IInv, FiredInOrder
            <6> QED
              BY <2>1, <5>1, <6>1, <6>2
          <5> QED
            BY <5>2, <5>3
        <4> QED
          BY <1>6, <4>1, <4>3, <4>4
      <3>5. fired'[Len(fired')].ts = lastSignalTs'
        BY <1>10, <2>1, <2>4, <3>1
      <3> QED
        BY <3>3, <3>4, <3>5 DEF FiredInOrder
    <2>6. BlocksClear'
      <3>1. \A i \in DOMAIN fired' : fired'[i].score <= 90
        BY <2>1, <2>4 DEF IInv, BlocksClear
      <3> QED
        BY <1>7, <3>1 DEF BlocksClear
    <2> QED
      BY <1>8, <2>2, <2>5, <2>6 DEF IInv
  <1> QED
    BY <1>3, <1>9, <1>10

LEMMA IdleIInv ==
    ASSUME IInv, UNCHANGED <<ms, series, lastSignalTs, bars, fired, htf, htfWired>>,
           clock' \in Nat, ticks' \in Nat
    PROVE  IInv'
  <1>2. TypeOK'
    BY DEF IInv, TypeOK
  <1>3. FiredInOrder'
    BY DEF IInv, FiredInOrder
  <1>4. BiasFollows' /\ BlocksClear'
    BY DEF IInv, BiasFollows, BlocksClear
  <1> QED
    BY <1>2, <1>3, <1>4 DEF IInv

\* A delivery of the feed: the bar is taken, or nothing but the feed moves.
LEMMA Delivered ==
    ASSUME NEW c, NEW fits, OnCandle(c, fits)
    PROVE  \/ IsActive(c.ts) /\ ~AlreadyFired(c.ts) /\ Ingest(c)
           \/ UNCHANGED <<ms, series, lastSignalTs, bars, fired, htf, htfWired>>
  BY DEF OnCandle

\* A step takes a bar of a feed, or moves the higher timeframe, or neither.
LEMMA StepCases ==
    ASSUME IInv, [Next]_vars
    PROVE  \/ \E c \in Bar : /\ IsActive(c.ts) /\ ~AlreadyFired(c.ts) /\ Ingest(c)
                             /\ clock' \in Nat /\ ticks' \in Nat
           \/ HtfBar
           \/ /\ UNCHANGED <<ms, series, lastSignalTs, bars, fired, htf, htfWired>>
              /\ clock' \in Nat /\ ticks' \in Nat
  <1>1. clock \in Nat /\ ticks \in Nat
    BY DEF IInv, TypeOK
  <1>2. ASSUME clock' \in Nat, ticks' \in Nat, NEW shape \in Shapes, NEW ts \in Nat,
               OnCandle(CandleAt(shape, ts), TRUE)
        PROVE  \/ \E c \in Bar : IsActive(c.ts) /\ ~AlreadyFired(c.ts) /\ Ingest(c)
               \/ UNCHANGED <<ms, series, lastSignalTs, bars, fired, htf, htfWired>>
    <2> DEFINE c == CandleAt(shape, ts)
    <2>1. c \in Bar
      BY BarOfShape
    <2> HIDE DEF c
    <2> QED
      BY <1>2, <2>1, Delivered DEF c
  <1>3. CASE NewBar
    <2>1. clock' \in Nat /\ ticks' \in Nat /\ clock + 1 \in Nat
      BY <1>1, <1>3 DEF NewBar
    <2>2. \E shape \in Shapes : OnCandle(CandleAt(shape, clock + 1), TRUE)
      BY <1>3 DEF NewBar
    <2> QED
      BY <1>2, <2>1, <2>2
  <1>4. CASE MissedBar
    BY <1>1, <1>4 DEF MissedBar
  <1>5. CASE OldBar
    <2>1. clock' \in Nat /\ ticks' \in Nat
      BY <1>1, <1>5 DEF OldBar
    <2>2. \E shape \in Shapes, ts \in 1..clock : OnCandle(CandleAt(shape, ts), TRUE)
      BY <1>5 DEF OldBar
    <2>3. 1..clock \subseteq Nat
      BY <1>1
    <2> QED
      BY <1>2, <2>1, <2>2, <2>3
  <1>6. CASE ForeignBar
    BY <1>1, <1>6 DEF ForeignBar, OnCandle
  <1>7. CASE UNCHANGED vars
    BY <1>1, <1>7 DEF vars
  <1> QED
    BY <1>3, <1>4, <1>5, <1>6, <1>7 DEF Next

LEMMA HtfBarIInv == ASSUME IInv, HtfBar PROVE IInv'
  <1>1. /\ ms \in Structure /\ htf \in HtfStructure /\ htfWired
        /\ bars \in Seq(Bar) /\ Len(htf.candles) < Len(bars)
        /\ htf' = HtfUpdate(htf, bars[Len(htf.candles) + 1])
        /\ ms' = [ms EXCEPT !.htfBias = Bias(htf')]
        /\ UNCHANGED <<series, lastSignalTs, htfWired, clock, ticks, bars, fired>>
    BY DEF IInv, TypeOK, HtfBar, SetHtfBias
  <1>2. htf.candles \in Seq(Candle)
    BY <1>1 DEF HtfStructure
  <1>3. Len(htf.candles) + 1 \in 1..Len(bars)
    BY <1>1, <1>2
  <1>4. bars[Len(htf.candles) + 1] \in Bar
    BY <1>1, <1>3, ElementOfSeq
  <1>5. bars[Len(htf.candles) + 1] \in Candle
    BY <1>4 DEF Bar
  <1>6. htf' \in HtfStructure
    BY <1>1, <1>5, HtfUpdateType
  <1>7. Bias(htf') \in Directions \cup {"NEUTRAL"}
    <2>1. htf'.lastBos \in Trend
      BY <1>6 DEF HtfStructure
    <2> QED
      BY <2>1 DEF Bias, Trend
  <1>8. ms' \in Structure /\ ms'.htfBias = Bias(htf') /\ ms'.blocks = ms.blocks
    <2> DEFINE Cs == Seq(Candle)
               Ss == Seq(Swing)
               Zs == Seq(ZoneRecord)
               bias == Bias(htf')
    <2>1. ms \in [candles : Cs, swings : Ss, lastBos : Trend, blocks : Zs, gaps : Zs,
                  htfBias : Directions \cup {"NEUTRAL"}]
      BY <1>1 DEF Structure
    <2>2. bias \in Directions \cup {"NEUTRAL"} /\ ms' = [ms EXCEPT !.htfBias = bias]
      BY <1>1, <1>7
    <2> HIDE DEF Cs, Ss, Zs, bias
    <2>3. /\ ms' \in [candles : Cs, swings : Ss, lastBos : Trend, blocks : Zs, gaps : Zs,
                      htfBias : Directions \cup {"NEUTRAL"}]
          /\ ms'.htfBias = bias /\ ms'.blocks = ms.blocks
      BY <2>1, <2>2
    <2> QED
      BY <2>3 DEF Structure, Cs, Ss, Zs, bias
  <1>9. TypeOK'
    BY <1>1, <1>6, <1>8 DEF IInv, TypeOK
  <1>10. BiasFollows'
    BY <1>8 DEF BiasFollows
  <1>11. FiredInOrder' /\ BlocksClear'
    BY <1>1, <1>8 DEF IInv, FiredInOrder, BlocksClear
  <1> QED
    BY <1>9, <1>10, <1>11 DEF IInv

LEMMA StepIInv == IInv /\ [Next]_vars => IInv'
  BY StepCases, IngestIInv, HtfBarIInv, IdleIInv

THEOREM StrategyInvariant == Spec => []IInv
  BY InitIInv, StepIInv, PTL DEF Spec

(***************************************************************************)
(* Every tracker keeps deques of the right records, whatever the feed       *)
(* delivers.                                                                *)
(***************************************************************************)
THEOREM TypeCorrect == Spec => []TypeOK
  <1>1. IInv => TypeOK
    BY DEF IInv
  <1> QED
    BY <1>1, StrategyInvariant, PTL

(***************************************************************************)
(* What "one signal per bar" in on_candle comes to with two feeds: for      *)
(* every feed, every setting and any number of repeated and late bars, a    *)
(* second signal of a bar has a signal of another bar before it and a late  *)
(* bar among those taken.                                                   *)
(***************************************************************************)
THEOREM RefiresOnlyWhenLateHolds == Spec => []RefiresOnlyWhenLate
  <1>1. IInv => RefiresOnlyWhenLate
    <2> SUFFICES ASSUME IInv, NEW i \in DOMAIN fired, NEW j \in DOMAIN fired, i < j,
                        fired[i].ts = fired[j].ts
                 PROVE  /\ \E k \in i..j : fired[k].ts # fired[i].ts
                        /\ ~NoneLate(bars)
      BY DEF RefiresOnlyWhenLate
    <2>1. fired \in Seq(Signal)
      BY DEF IInv, TypeOK
    <2>2. i \in Nat /\ j \in Nat /\ j - 1 \in DOMAIN fired /\ j - 1 \in i..j /\ j = (j - 1) + 1
      BY <2>1
    <2>3. fired[j - 1].ts # fired[j].ts
      BY <2>2 DEF IInv, FiredInOrder
    <2>4. fired[j].ts \in Nat
      BY <2>1, SignalTime
    <2>5. ~NoneLate(bars)
      BY <2>4 DEF IInv, FiredInOrder
    <2> QED
      BY <2>2, <2>3, <2>5
  <1> QED
    BY <1>1, StrategyInvariant, PTL

(***************************************************************************)
(* update() mitigates every order block the bar has reached before the      *)
(* strategy scores it, so that no active block holds the entry, no signal   *)
(* scores more than 90 and no confluence more than 75.                      *)
(***************************************************************************)
THEOREM NoBlockAtEntryHolds == Spec => []NoBlockAtEntry
  <1>1. IInv => NoBlockAtEntry
    <2> SUFFICES ASSUME IInv, bars # <<>>, NEW dir \in Directions
                 PROVE  /\ ~Holds(ms.blocks, dir, Last(bars).close)
                        /\ EntryGrade(ms, Last(bars).close, dir) <= 75
                        /\ \A i \in DOMAIN fired : fired[i].score <= 90
      BY DEF NoBlockAtEntry
    <2>1. /\ ~Holds(ms.blocks, dir, Last(bars).close)
          /\ \A i \in DOMAIN fired : fired[i].score <= 90
      BY DEF IInv, BlocksClear
    <2>2. EntryGrade(ms, Last(bars).close, dir) <= 75
      BY <2>1 DEF EntryGrade
    <2> QED
      BY <2>1, <2>2
  <1> QED
    BY <1>1, StrategyInvariant, PTL

(***************************************************************************)
(* What _build_signal_long and _build_signal_short return: the stop beyond  *)
(* both extremes, the target between the bounds and worth min_rr, never     *)
(* against the bias a wired higher timeframe has set.                       *)
(***************************************************************************)
THEOREM SignalSoundHolds == Spec => SignalSound
  <1> DEFINE Right(s) ==
        /\ Sound(s) /\ (htfWired => htf.lastBos # Opposite(s.dir)) /\ IsActive(s.ts)
  <1>1. IInv /\ [Next]_vars =>
          (fired' # fired => Right(Last(fired')))
    <2> SUFFICES ASSUME IInv, [Next]_vars, fired' # fired
                 PROVE  Right(Last(fired'))
      OBVIOUS
    <2>1. ~HtfBar
      BY DEF HtfBar
    <2>2. PICK c \in Bar : IsActive(c.ts) /\ Ingest(c)
      BY <2>1, StepCases
    <2>3. PICK s \in Signal : NewSignal(s, c) /\ fired' = Append(fired, s)
      BY <2>2, Ingested DEF IInv
    <2>4. fired \in Seq(Signal) /\ ms \in Structure /\ htf \in HtfStructure /\ c \in Candle
      BY DEF IInv, TypeOK, Bar
    <2>5. Last(fired') = s
      BY <2>3, <2>4, AppendProperties DEF Last
    <2>6. Sound(s) /\ s.ts = c.ts /\ ~Opposed(Update(ms, c), s.dir)
      BY <2>3 DEF NewSignal
    <2>7. ms.htfBias # Opposite(s.dir)
      BY <2>4, <2>6, UpdateFields DEF Opposed
    <2>8. ASSUME htfWired PROVE htf.lastBos # Opposite(s.dir)
      <3>1. ms.htfBias = Bias(htf)
        BY <2>8 DEF IInv, BiasFollows
      <3> QED
        BY <2>7, <3>1 DEF Bias, Opposite
    <2> QED
      BY <2>2, <2>5, <2>6, <2>8
  <1>2. (fired' # fired => Right(Last(fired'))) =>
          (fired' # fired =>
             LET s == Last(fired')
                 f == Facing(s.dir, s.candle)
             IN  /\ f.close - s.risk < Min({f.low, Level(s.dir, s.swept)})
                 /\ s.dist >= 200 * MinRrPct * s.risk
                 /\ s.dist >= 2 * TpMinBp * s.candle.close
                 /\ s.dist <= 3 * TpMaxBp * s.candle.close
                 /\ htfWired => htf.lastBos # Opposite(s.dir)
                 /\ IsActive(s.ts))
    BY DEF Sound
  <1> QED
    BY <1>1, <1>2, StrategyInvariant, PTL DEF Spec, SignalSound

(***************************************************************************)
(* The strategy does not look ahead: update() looks for swings in a window  *)
(* that ends with the new bar before it looks for sweeps and breaks, and    *)
(* still every swing the bar sweeps or breaks was in force before it.       *)
(***************************************************************************)
THEOREM EventsUseOldSwingsHolds == Spec => EventsUseOldSwings
  <1>1. IInv /\ [Next]_vars =>
          (bars' # bars =>
             \A e \in UpdateEvents(ms, Last(bars')) : e.price \in LatestSwing(ms, e.side))
    <2> SUFFICES ASSUME IInv, [Next]_vars, bars' # bars,
                        NEW e \in UpdateEvents(ms, Last(bars'))
                 PROVE  e.price \in LatestSwing(ms, e.side)
      OBVIOUS
    <2>1. ~HtfBar
      BY DEF HtfBar
    <2>2. PICK c \in Bar : Ingest(c)
      BY <2>1, StepCases
    <2>3. bars' = Append(bars, c)
      BY <2>2 DEF Ingest
    <2>4. /\ ms \in Structure /\ bars \in Seq(Bar) /\ ms.swings \in Seq(Swing)
          /\ c \in Candle /\ c.low <= c.close /\ c.close <= c.high
      BY DEF IInv, TypeOK, Bar, Structure
    <2>5. Last(bars') = c
      BY <2>3, <2>4, AppendProperties DEF Last
    <2> DEFINE t == LtfTrack(ms, c)
               cs == Kept(ms, c)
    <2>6. e \in Events(t, c)
      BY <2>5 DEF UpdateEvents
    <2>7. SwingLookback \in Nat \ {0}
      BY StructureAssumption DEF StructureAssumption
    <2>8. cs \in Seq(Candle) /\ cs[Len(cs)] = c
      BY <2>4, <2>7, TrackFields
    <2>9. t \in Structure /\ t.swings = Tracked(ms.swings, cs, SwingLookback, TRUE)
      BY <2>4, LtfTrackFields
    <2> HIDE DEF t, cs
    <2> DEFINE q == e.price
               side == e.side
    <2>10. /\ side \in Sides /\ q \in Price /\ q \in LatestSwing(t, side)
           /\ \/ IsSweep(side, c, q)
              \/ side = "HIGH" /\ \E p \in LatestSwing(t, "HIGH") : c.close > p
              \/ side = "LOW" /\ \E p \in LatestSwing(t, "LOW") : c.close < p
      BY <2>6, <2>9, EventsAt
    <2> HIDE DEF q, side
    <2>11. q \in Latest(t.swings, side)
      BY <2>10, LatestSwingIs
    <2>12. CASE q \in Latest(ms.swings, side)
      BY <2>12, LatestSwingIs DEF q, side
    <2>13. CASE Facing(side, c).high <= Level(side, q)
      <3>1. \A p \in Latest(t.swings, side) : p = q
        BY <2>11 DEF Latest
      <3>2. /\ c.high \in Price /\ c.low \in Price /\ c.close \in Price
            /\ Facing(side, c).high = IF side = "HIGH" THEN c.high ELSE -c.low
        BY <2>4, <2>10, PriceType, FacingPrices DEF Sides
      <3>3. ~IsSweep(side, c, q)
        BY <2>10, <2>13, <3>2 DEF IsSweep, Level, Price, Sides
      <3>4. CASE side = "HIGH" /\ \E p \in LatestSwing(t, "HIGH") : c.close > p
        <4>1. c.close > q
          BY <3>1, <3>4, LatestSwingIs
        <4> QED
          BY <4>1, <2>4, <2>10, <2>13, <3>2, <3>4 DEF Level, Price
      <3>5. CASE side = "LOW" /\ \E p \in LatestSwing(t, "LOW") : c.close < p
        <4>1. c.close < q
          BY <3>1, <3>5, LatestSwingIs
        <4> QED
          BY <4>1, <2>4, <2>10, <2>13, <3>2, <3>5 DEF Level, Price
      <3> QED
        BY <2>10, <3>3, <3>4, <3>5
    <2>14. \/ q \in Latest(ms.swings, side)
           \/ Facing(side, cs[Len(cs)]).high <= Level(side, q)
      <3> DEFINE yes == TRUE
      <3>1. q \in Latest(Tracked(ms.swings, cs, SwingLookback, yes), side)
        BY <2>9, <2>11
      <3> HIDE DEF yes
      <3> QED
        BY <2>4, <2>7, <2>8, <2>10, <3>1, LatestAfterBar
    <2> QED
      BY <2>8, <2>12, <2>13, <2>14
  <1> QED
    BY <1>1, StrategyInvariant, PTL DEF Spec, EventsUseOldSwings

-----------------------------------------------------------------------------
(***************************************************************************)
(* Histories, their prefixes and what a deque keeps of them.                *)
(***************************************************************************)
LEMMA PrefixIs ==
    ASSUME NEW T, NEW h \in Seq(T), NEW n \in 0..Len(h)
    PROVE  /\ UpTo(h, n) \in Seq(T) /\ Len(UpTo(h, n)) = n
           /\ \A i \in 1..n : UpTo(h, n)[i] = h[i]
  <1>1. Len(h) \in Nat /\ 1 \in 1..(n + 1) /\ n \in Nat /\ n <= Len(h)
    OBVIOUS
  <1>2. \A i \in 1..n : h[i] \in T /\ 1 + i - 1 = i
    BY <1>1, ElementOfSeq
  <1>3. /\ SubSeq(h, 1, n) \in Seq(T) /\ Len(SubSeq(h, 1, n)) = n
        /\ \A i \in 1..n : SubSeq(h, 1, n)[i] = h[i]
    BY <1>1, <1>2, SubSeqProperties
  <1> QED
    BY <1>3 DEF UpTo

LEMMA PrefixWhole ==
    ASSUME NEW T, NEW h \in Seq(T)
    PROVE  UpTo(h, Len(h)) = h
  <1>1. Len(h) \in 0..Len(h)
    OBVIOUS
  <1> QED
    BY <1>1, PrefixIs, SeqEqual

\* A new bar leaves what the earlier ones ended as it was.
LEMMA PrefixOfAppend ==
    ASSUME NEW T, NEW h \in Seq(T), NEW c \in T, NEW n \in 0..Len(h)
    PROVE  UpTo(Append(h, c), n) = UpTo(h, n)
  <1> DEFINE g == Append(h, c)
  <1>1. /\ g \in Seq(T) /\ Len(g) = Len(h) + 1 /\ \A i \in 1..Len(h) : g[i] = h[i]
        /\ Len(h) \in Nat
    BY AppendProperties
  <1> HIDE DEF g
  <1>2. n \in 0..Len(g) /\ \A i \in 1..n : i \in 1..Len(h)
    BY <1>1
  <1>3. /\ UpTo(g, n) \in Seq(T) /\ Len(UpTo(g, n)) = n
        /\ \A i \in 1..n : UpTo(g, n)[i] = g[i]
    BY <1>1, <1>2, PrefixIs
  <1>4. /\ UpTo(h, n) \in Seq(T) /\ Len(UpTo(h, n)) = n
        /\ \A i \in 1..n : UpTo(h, n)[i] = h[i]
    BY PrefixIs
  <1>5. \A i \in 1..n : UpTo(g, n)[i] = UpTo(h, n)[i]
    BY <1>1, <1>2, <1>3, <1>4
  <1> QED
    BY <1>3, <1>4, <1>5, SeqEqual DEF g

LEMMA KeepIs ==
    ASSUME NEW T, NEW s \in Seq(T), NEW cap \in Nat \ {0}
    PROVE  /\ Keep(s, cap) \in Seq(T)
           /\ Len(Keep(s, cap)) = IF Len(s) <= cap THEN Len(s) ELSE cap
           /\ \A i \in 1..Len(Keep(s, cap)) :
                Keep(s, cap)[i] = s[i + (Len(s) - Len(Keep(s, cap)))]
  <1>0. cap \in Nat
    OBVIOUS
  <1>1. Len(s) \in Nat /\ Keep(s, cap) \in Seq(T)
    <2>1. Keep(s, cap) \in Seq(T)
      BY <1>0, KeepType
    <2> QED
      BY <2>1
  <1>2. CASE Len(s) <= cap
    BY <1>1, <1>2 DEF Keep
  <1>3. CASE ~(Len(s) <= cap)
    <2> DEFINE m == Len(s) - cap + 1
    <2>1. Keep(s, cap) = SubSeq(s, m, Len(s))
      BY <1>3 DEF Keep
    <2>2. m \in Int /\ m <= Len(s) /\ 1 <= m /\ Len(s) - m + 1 = cap
      BY <1>1, <1>3
    <2>3. /\ Len(SubSeq(s, m, Len(s))) = cap
          /\ \A i \in 1..cap : SubSeq(s, m, Len(s))[i] = s[m + i - 1]
      BY <1>1, <2>2
    <2>4. \A i \in 1..cap : m + i - 1 = i + (Len(s) - cap)
      BY <1>1
    <2> QED
      BY <1>1, <1>3, <2>1, <2>3, <2>4
  <1> QED
    BY <1>2, <1>3

\* cs is what is left of h after some of its first elements are gone.
EndOf(cs, h) ==
    /\ Len(cs) <= Len(h)
    /\ \A i \in 1..Len(cs) : cs[i] = h[i + (Len(h) - Len(cs))]

LEMMA KeepIsEnd ==
    ASSUME NEW T, NEW s \in Seq(T), NEW cap \in Nat \ {0}
    PROVE  EndOf(Keep(s, cap), s)
  <1>1. Len(s) \in Nat /\ Len(Keep(s, cap)) <= Len(s)
    BY KeepIs
  <1> QED
    BY <1>1, KeepIs DEF EndOf

\* A deque forgets no more than the deque of the whole history would.
LEMMA KeepAgain ==
    ASSUME NEW T, NEW s \in Seq(T), NEW x \in T, NEW cap \in Nat \ {0}
    PROVE  Keep(Append(Keep(s, cap), x), cap) = Keep(Append(s, x), cap)
  <1> DEFINE d == Keep(s, cap)
             dx == Append(d, x)
             sx == Append(s, x)
             n == Len(s)
             k == Len(d)
  <1>1. /\ n \in Nat /\ d \in Seq(T) /\ k = IF n <= cap THEN n ELSE cap
        /\ \A i \in 1..k : d[i] = s[i + (n - k)]
    BY KeepIs
  <1>2. /\ sx \in Seq(T) /\ Len(sx) = n + 1 /\ sx[n + 1] = x
        /\ \A i \in 1..n : sx[i] = s[i]
    BY AppendProperties
  <1> HIDE DEF d
  <1>3. /\ dx \in Seq(T) /\ Len(dx) = k + 1 /\ dx[k + 1] = x
        /\ \A i \in 1..k : dx[i] = d[i]
    BY <1>1, AppendProperties
  <1> DEFINE a == Keep(dx, cap)
             b == Keep(sx, cap)
             l == IF n + 1 <= cap THEN n + 1 ELSE cap
  <1> HIDE DEF dx, sx, n, k
  <1>4. /\ a \in Seq(T) /\ Len(a) = IF k + 1 <= cap THEN k + 1 ELSE cap
        /\ \A i \in 1..Len(a) : a[i] = dx[i + ((k + 1) - Len(a))]
    <2>1. /\ a \in Seq(T) /\ Len(a) = IF Len(dx) <= cap THEN Len(dx) ELSE cap
          /\ \A i \in 1..Len(a) : a[i] = dx[i + (Len(dx) - Len(a))]
      BY <1>3, KeepIs, Zenon
    <2> QED
      BY <1>3, <2>1
  <1>5. /\ b \in Seq(T) /\ Len(b) = l
        /\ \A i \in 1..l : b[i] = sx[i + ((n + 1) - l)]
    <2>1. /\ b \in Seq(T) /\ Len(b) = IF Len(sx) <= cap THEN Len(sx) ELSE cap
          /\ \A i \in 1..Len(b) : b[i] = sx[i + (Len(sx) - Len(b))]
      BY <1>2, KeepIs, Zenon
    <2> QED
      BY <1>2, <2>1
  <1> HIDE DEF a, b
  <1>6. Len(a) = l /\ k \in Nat /\ l \in Nat /\ l <= k + 1 /\ l <= n + 1
    <2>1. cap \in Nat /\ n \in Nat /\ k = IF n <= cap THEN n ELSE cap
      BY <1>1
    <2>2. Len(a) = IF k + 1 <= cap THEN k + 1 ELSE cap
      BY <1>4
    <2> QED
      BY <2>1, <2>2
  <1>7. ASSUME NEW i \in 1..l PROVE a[i] = b[i]
    <2> HIDE DEF l
    <2>1. a[i] = dx[i + ((k + 1) - l)] /\ b[i] = sx[i + ((n + 1) - l)]
      <3>1. i \in 1..Len(a)
        BY <1>6
      <3>2. a[i] = dx[i + ((k + 1) - Len(a))]
        BY <1>4, <3>1
      <3> QED
        BY <1>5, <1>6, <3>2
    <2>0. n \in Nat /\ k \in Nat /\ l \in Nat /\ l <= k + 1 /\ l <= n + 1
      BY <1>1, <1>6
    <2>2. CASE i = l
      <3>1. i + ((k + 1) - l) = k + 1 /\ i + ((n + 1) - l) = n + 1
        BY <2>0, <2>2
      <3> QED
        BY <1>2, <1>3, <2>1, <3>1
    <2>3. CASE i # l
      <3>1. i + ((k + 1) - l) \in 1..k /\ i + ((n + 1) - l) \in 1..n
        BY <2>0, <2>3
      <3>2. (i + ((k + 1) - l)) + (n - k) = i + ((n + 1) - l)
        BY <2>0
      <3>3. dx[i + ((k + 1) - l)] = d[i + ((k + 1) - l)]
        BY <1>3, <3>1
      <3>4. d[i + ((k + 1) - l)] = s[i + ((n + 1) - l)]
        BY <1>1, <3>1, <3>2
      <3>5. sx[i + ((n + 1) - l)] = s[i + ((n + 1) - l)]
        BY <1>2, <3>1
      <3> QED
        BY <2>1, <3>3, <3>4, <3>5
    <2> QED
      BY <2>2, <2>3
  <1>8. a = b
    BY <1>4, <1>5, <1>6, <1>7, SeqEqual
  <1> QED
    BY <1>8 DEF a, b, dx, sx, d

-----------------------------------------------------------------------------
(***************************************************************************)
(* _compute_atr looks at the same bars in the deque and in the history.     *)
(***************************************************************************)
LEMMA SampleIs ==
    ASSUME NEW cs, Len(cs) \in Nat
    PROVE  /\ Min({AtrPeriod, Len(cs) - 1}) \in Int
           /\ Min({AtrPeriod, Len(cs) - 1}) <= Len(cs) - 1
           /\ Min({AtrPeriod, Len(cs) - 1})
                = IF AtrPeriod <= Len(cs) - 1 THEN AtrPeriod ELSE Len(cs) - 1
  <1>1. AtrPeriod \in Nat
    BY StructureAssumption DEF StructureAssumption
  <1> QED
    BY <1>1, MinOfTwo

LEMMA MaxOfThree ==
    ASSUME NEW a \in Int, NEW b \in Int, NEW c \in Int
    PROVE  Max({a, b, c}) \in Int
  <1>1. \E x \in {a, b, c} : \A y \in {a, b, c} : x >= y
    <2>1. CASE a >= b /\ a >= c
      BY <2>1
    <2>2. CASE b >= a /\ b >= c
      BY <2>2
    <2>3. CASE c >= a /\ c >= b
      BY <2>3
    <2> QED
      BY <2>1, <2>2, <2>3
  <1>2. Max({a, b, c}) \in {a, b, c}
    BY <1>1 DEF Max
  <1> QED
    BY <1>2

LEMMA AtrType ==
    ASSUME NEW cs \in Seq(Candle)
    PROVE  AtrSum(cs) \in Int /\ AtrCount(cs) \in Nat
  <1> DEFINE n == Len(cs)
             m == Min({AtrPeriod, n - 1})
             rs == TrueRanges(cs)
  <1>1. n \in Nat /\ m \in Int /\ m <= n - 1
    BY SampleIs
  <1>2. rs = [j \in 1..m |-> TrueRange(cs[n - j], cs[n - j + 1])]
    BY DEF TrueRanges
  <1> HIDE DEF n, m, rs
  <1>3. ASSUME NEW j \in 1..m PROVE TrueRange(cs[n - j], cs[n - j + 1]) \in Int
    <2>1. n - j \in 1..n /\ n - j + 1 \in 1..n
      BY <1>1
    <2>2. cs[n - j] \in Candle /\ cs[n - j + 1] \in Candle
      BY <2>1, ElementOfSeq DEF n
    <2> DEFINE p == cs[n - j]
               q == cs[n - j + 1]
    <2> HIDE DEF p, q
    <2>3. /\ p.close \in Int /\ q.high \in Int /\ q.low \in Int
      BY <2>2, PriceType DEF Price, p, q
    <2>4. /\ q.high - q.low \in Int /\ Abs(q.high - p.close) \in Int
          /\ Abs(q.low - p.close) \in Int
      <3>1. \A x \in Int : Abs(x) \in Int
        BY DEF Abs
      <3>2. q.high - q.low \in Int /\ q.high - p.close \in Int /\ q.low - p.close \in Int
        BY <2>3
      <3> QED
        BY <3>1, <3>2
    <2>5. TrueRange(p, q) \in Int
      BY <2>4, MaxOfThree DEF TrueRange
    <2> QED
      BY <2>5 DEF p, q
  <1> DEFINE l == IF m >= 0 THEN m ELSE 0
  <1>4. 1..m = 1..l /\ l \in Nat
    BY <1>1
  <1>5. rs \in [1..l -> Int]
    BY <1>2, <1>3, <1>4
  <1>6. rs \in Seq(Int) /\ Len(rs) = l
    BY <1>4, <1>5, IsASeq
  <1>7. RunningSum(0, rs) \in [0..l -> Int] /\ l \in 0..l
    BY <1>4, <1>6, RunningSumIs
  <1> QED
    BY <1>4, <1>6, <1>7 DEF AtrSum, AtrCount, rs

\* The deque is the whole history or longer than the sample.
Enough(cs, h) ==
    /\ cs \in Seq(Candle) /\ h \in Seq(Candle) /\ EndOf(cs, h)
    /\ \/ Len(cs) = Len(h)
       \/ /\ Len(cs) >= 2 * SwingLookback + 1 /\ Len(cs) >= 3
          /\ Len(cs) > AtrPeriod /\ Len(cs) > BlockWindow

LEMMA SameSample ==
    ASSUME NEW cs, NEW h, Enough(cs, h)
    PROVE  /\ AtrSum(cs) = AtrSum(h) /\ AtrCount(cs) = AtrCount(h)
           /\ \A x, pct : ReachesAtr(x, pct, cs) <=> ReachesAtr(x, pct, h)
  <1> DEFINE n == Len(cs)
             N == Len(h)
             m == Min({AtrPeriod, n - 1})
             M == Min({AtrPeriod, N - 1})
  <1>0. cs \in Seq(Candle) /\ h \in Seq(Candle) /\ EndOf(cs, h)
    BY DEF Enough
  <1>1. n \in Nat /\ N \in Nat /\ n <= N /\ AtrPeriod \in Nat /\ (n = N \/ n > AtrPeriod)
    <2>1. n \in Nat /\ N \in Nat
      BY <1>0
    <2>2. n <= N
      BY <1>0 DEF EndOf
    <2>3. AtrPeriod \in Nat
      BY StructureAssumption DEF StructureAssumption
    <2>4. n = N \/ n > AtrPeriod
      BY DEF Enough
    <2> QED
      BY <2>1, <2>2, <2>3, <2>4
  <1>6. \A i \in 1..n : cs[i] = h[i + (N - n)]
    BY <1>0 DEF EndOf
  <1>7. /\ m \in Int /\ m <= n - 1 /\ m = IF AtrPeriod <= n - 1 THEN AtrPeriod ELSE n - 1
        /\ M = IF AtrPeriod <= N - 1 THEN AtrPeriod ELSE N - 1
    BY <1>1, SampleIs
  <1>3. TrueRanges(cs) = [j \in 1..m |-> TrueRange(cs[n - j], cs[n - j + 1])]
    BY DEF TrueRanges
  <1>4. TrueRanges(h) = [j \in 1..M |-> TrueRange(h[N - j], h[N - j + 1])]
    BY DEF TrueRanges
  <1> HIDE DEF n, N, m, M
  <1>2. m = M
    BY <1>1, <1>7
  <1>5. ASSUME NEW j \in 1..m PROVE cs[n - j] = h[N - j] /\ cs[n - j + 1] = h[N - j + 1]
    <2>1. /\ n - j \in 1..n /\ n - j + 1 \in 1..n
          /\ (n - j) + (N - n) = N - j /\ (n - j + 1) + (N - n) = N - j + 1
      BY <1>1, <1>7
    <2> QED
      BY <1>6, <2>1
  <1>8. TrueRanges(cs) = TrueRanges(h)
    BY <1>2, <1>3, <1>4, <1>5
  <1> QED
    BY <1>8 DEF AtrSum, AtrCount, ReachesAtr

-----------------------------------------------------------------------------
(***************************************************************************)
(* _detect_swings finds the pivots of the history.                          *)
(***************************************************************************)
LEMMA ReachesMore ==
    ASSUME NEW h \in Seq(Candle), NEW pct \in Nat, NEW x \in Int, NEW y \in Int,
           x <= y, ReachesAtr(x, pct, h)
    PROVE  ReachesAtr(y, pct, h)
  <1> DEFINE C == AtrCount(h)
             A == AtrSum(h)
  <1>1. C \in Nat /\ A \in Int
    BY AtrType
  <1>2. (100 * x) * C >= pct * A
    BY DEF ReachesAtr
  <1> HIDE DEF C, A
  <1>3. 100 * x <= 100 * y /\ 100 * x \in Int /\ 100 * y \in Int
    OBVIOUS
  <1>4. (100 * x) * C <= (100 * y) * C
    BY <1>1, <1>3, ProductMonotone
  <1>5. (100 * x) * C \in Int /\ (100 * y) * C \in Int /\ pct * A \in Int
    BY <1>1, <1>3, ProductInt
  <1>6. (100 * y) * C >= pct * A
    BY <1>2, <1>4, <1>5
  <1> QED
    BY <1>6 DEF ReachesAtr, C, A

LEMMA ReachesNothing ==
    ASSUME NEW h \in Seq(Candle), NEW pct \in Nat, NEW x \in Nat, AtrSum(h) = 0
    PROVE  ReachesAtr(x, pct, h)
  <1> DEFINE C == AtrCount(h)
  <1>1. C \in Nat
    BY AtrType
  <1> HIDE DEF C
  <1>2. 0 <= 100 * x /\ 100 * x \in Int
    OBVIOUS
  <1>3. 0 * C <= (100 * x) * C
    BY <1>1, <1>2, ProductMonotone
  <1>4. 0 * C = 0 /\ pct * 0 = 0 /\ (100 * x) * C \in Int
    BY <1>1, <1>2, ProductInt
  <1>5. (100 * x) * C >= pct * 0
    BY <1>3, <1>4
  <1> QED
    BY <1>5 DEF ReachesAtr, C

SwingAt(h, p, side) ==
    [side |-> side, price |-> Level(side, Facing(side, h[p]).high), ts |-> h[p].ts]

LEMMA HighType ==
    ASSUME NEW h \in Seq(Candle), NEW i \in 1..Len(h), NEW view \in Directions \cup Sides
    PROVE  /\ Facing(view, h[i]).high \in Int /\ Facing(view, h[i]).low \in Int
           /\ h[i].ts \in Nat
  <1>1. h[i] \in Candle
    BY ElementOfSeq
  <1> QED
    BY <1>1, FacingPrices, PriceType DEF Price

LEMMA PivotFound ==
    ASSUME NEW cs, NEW h, Enough(cs, h), InOrder(h), NEW side \in Sides
    PROVE  ConfirmedSwing(cs, SwingLookback, side, TRUE)
             = IF RefPivot(h, side) THEN {SwingAt(h, Len(h) - SwingLookback, side)} ELSE {}
  <1> DEFINE k == SwingLookback
             n == Len(cs)
             N == Len(h)
             p == n - k
             P == N - k
             H(i) == Facing(side, cs[i]).high
             G(i) == Facing(side, h[i]).high
             window == (p - k) .. n
             others == {H(i) : i \in {j \in window : cs[j].ts # cs[p].ts}}
             prominence == IF others = {} THEN 0 ELSE H(p) - Max(others)
             Stands == \/ ~TRUE
                       \/ AtrSum(cs) = 0
                       \/ ReachesAtr(prominence, ProminencePct, cs)
             Top == \A i \in window : H(i) <= H(p)
             RefTop == \A i \in ((P - k) .. N) \ {P} :
                         G(i) <= G(P) /\ ReachesAtr(G(P) - G(i), ProminencePct, h)
  <1>1. cs \in Seq(Candle) /\ h \in Seq(Candle) /\ EndOf(cs, h)
    BY DEF Enough
  <1>2. /\ k \in Nat /\ k >= 1 /\ ProminencePct \in Nat /\ n \in Nat /\ N \in Nat /\ n <= N
        /\ n = N \/ n >= 2 * k + 1
    <2>1. n \in Nat /\ N \in Nat
      BY <1>1
    <2>2. n <= N
      BY <1>1 DEF EndOf
    <2>3. n = N \/ n >= 2 * k + 1
      BY DEF Enough
    <2> QED
      BY <2>1, <2>2, <2>3, StructureAssumption DEF StructureAssumption
  <1>3. ConfirmedSwing(cs, k, side, TRUE)
          = IF p - k >= 1 /\ Top /\ Stands
            THEN {[side |-> side, price |-> Level(side, H(p)), ts |-> cs[p].ts]} ELSE {}
    BY DEF ConfirmedSwing
  <1>4. RefPivot(h, side) <=> P > k /\ RefTop
    BY DEF RefPivot
  <1>5. \A i \in 1..n : /\ cs[i] = h[i + (N - n)] /\ H(i) = G(i + (N - n))
                        /\ H(i) \in Int /\ cs[i].ts \in Nat
    BY <1>1, HighType DEF EndOf
  <1>6. \A i \in 1..N : G(i) \in Int /\ h[i].ts \in Nat
    BY <1>1, HighType
  <1>7. \A i \in 1..n : i # p /\ p \in 1..n => cs[i].ts # cs[p].ts
    <2> SUFFICES ASSUME NEW i \in 1..n, i # p, p \in 1..n PROVE cs[i].ts # cs[p].ts
      OBVIOUS
    <2>0. n \in Nat /\ N \in Nat /\ n <= N /\ p \in Int
      BY <1>2
    <2> HIDE DEF n, N, p
    <2>1. i + (N - n) \in 1..N /\ p + (N - n) \in 1..N /\ i + (N - n) # p + (N - n)
      BY <2>0
    <2>2. i + (N - n) < p + (N - n) \/ p + (N - n) < i + (N - n)
      BY <2>0, <2>1
    <2>3. h[i + (N - n)].ts # h[p + (N - n)].ts
      <3>1. DOMAIN h = 1..N
        BY <1>1 DEF N
      <3>2. h[i + (N - n)].ts < h[p + (N - n)].ts \/ h[p + (N - n)].ts < h[i + (N - n)].ts
        BY <2>1, <2>2, <3>1 DEF InOrder
      <3> QED
        BY <1>6, <2>1, <3>2
    <2> QED
      BY <1>5, <2>3
  <1>8. CASE ~(p - k >= 1)
    <2>1. ~(P > k)
      BY <1>2, <1>8
    <2> QED
      BY <1>3, <1>4, <1>8, <2>1
  <1>9. CASE p - k >= 1
    <2>1. /\ p \in 1..n /\ P > k /\ P = p + (N - n) /\ P \in 1..N
          /\ window \subseteq 1..n /\ p \in window /\ p + 1 \in window /\ p + 1 # p
      BY <1>2, <1>9
    <2>2. \A i \in window : i + (N - n) \in (P - k)..N /\ (i # p => i + (N - n) # P)
      BY <1>2, <2>1
    <2>3. \A i \in ((P - k)..N) : i - (N - n) \in window /\ (i # P => i - (N - n) # p)
                                  /\ (i - (N - n)) + (N - n) = i
      BY <1>2, <2>1
    <2>4. H(p) = G(P) /\ H(p) \in Int
      BY <1>5, <2>1
    <2> HIDE DEF n, N, p, P, window, k
    <2>5. others = {H(i) : i \in window \ {p}}
      BY <1>7, <2>1
    <2> HIDE DEF H, G
    <2>6. Top /\ Stands => RefTop
      <3> SUFFICES ASSUME Top, Stands, NEW i \in ((P - k)..N) \ {P}
                   PROVE  G(i) <= G(P) /\ ReachesAtr(G(P) - G(i), ProminencePct, h)
        OBVIOUS
      <3> DEFINE j == i - (N - n)
      <3>1. j \in window \ {p} /\ j \in 1..n /\ G(i) = H(j) /\ H(j) \in Int
        BY <1>5, <2>1, <2>3
      <3>2. H(j) <= H(p)
        BY <3>1
      <3>3. others \subseteq Int /\ H(j) \in others /\ \A y \in others : y <= H(p)
        BY <1>5, <2>1, <2>5, <3>1
      <3> HIDE DEF j, others
      <3>4. Max(others) \in others /\ Max(others) >= H(j)
        BY <2>4, <3>3, MaxBounded
      <3>5. prominence = H(p) - Max(others) /\ Max(others) \in Int
        BY <3>3, <3>4
      <3>6. H(p) - H(j) \in Nat /\ prominence \in Int /\ prominence <= H(p) - H(j)
        BY <2>4, <3>1, <3>2, <3>4, <3>5
      <3> HIDE DEF prominence
      <3>7. ReachesAtr(H(p) - H(j), ProminencePct, cs)
        BY <1>1, <1>2, <3>6, ReachesMore, ReachesNothing
      <3>8. ReachesAtr(H(p) - H(j), ProminencePct, h)
        BY <3>7, SameSample
      <3> QED
        BY <2>4, <3>1, <3>2, <3>8
    <2>7. RefTop => Top /\ Stands
      <3> SUFFICES ASSUME RefTop PROVE Top /\ Stands
        OBVIOUS
      <3>1. ASSUME NEW j \in window \ {p}
            PROVE  H(j) <= H(p) /\ ReachesAtr(H(p) - H(j), ProminencePct, cs) /\ H(j) \in Int
        <4>1. j + (N - n) \in ((P - k)..N) \ {P} /\ H(j) = G(j + (N - n)) /\ H(j) \in Int
          BY <1>5, <2>1, <2>2
        <4>2. H(j) <= H(p) /\ ReachesAtr(H(p) - H(j), ProminencePct, h)
          BY <2>4, <4>1
        <4> QED
          BY <4>1, <4>2, SameSample
      <3>2. Top
        BY <2>4, <3>1
      <3>3. others \subseteq Int /\ others # {} /\ \A y \in others : y <= H(p)
        BY <2>1, <2>5, <3>1
      <3>4. Max(others) \in others
        <4> HIDE DEF others
        <4> QED
          BY <2>4, <3>3, MaxBounded
      <3>5. PICK j \in window \ {p} : Max(others) = H(j)
        BY <2>5, <3>4
      <3>6. prominence = H(p) - H(j)
        BY <3>3, <3>5
      <3>7. ReachesAtr(prominence, ProminencePct, cs)
        BY <3>1, <3>6
      <3> QED
        BY <3>2, <3>7
    <2>8. cs[p] = h[P]
      BY <1>5, <2>1
    <2> QED
      BY <1>3, <1>4, <1>9, <2>1, <2>4, <2>6, <2>7, <2>8 DEF SwingAt, G, H, P, N, k
  <1> QED
    BY <1>8, <1>9

-----------------------------------------------------------------------------
(***************************************************************************)
(* The swings a deque holds are the newest pivots of the history.           *)
(***************************************************************************)
LEMMA TimesOrder ==
    ASSUME NEW h \in Seq(Candle), InOrder(h), NEW i \in 1..Len(h), NEW j \in 1..Len(h)
    PROVE  /\ h[i].ts \in Nat /\ h[j].ts \in Nat
           /\ i <= j <=> h[i].ts <= h[j].ts
           /\ i = j <=> h[i].ts = h[j].ts
  <1>1. h[i].ts \in Nat /\ h[j].ts \in Nat /\ i \in DOMAIN h /\ j \in DOMAIN h
    BY ElementOfSeq, PriceType
  <1>2. (i < j => h[i].ts < h[j].ts) /\ (j < i => h[j].ts < h[i].ts)
    BY <1>1 DEF InOrder
  <1>3. i < j \/ i = j \/ j < i
    OBVIOUS
  <1> QED
    BY <1>1, <1>2, <1>3

\* The pivots of a history, each with the bar that makes it one.
PivotsOf(h) == {q \in (1..Len(h)) \X Sides : RefPivot(UpTo(h, q[1]), q[2])}

SwingOf(h, q) == SwingAt(h, q[1] - SwingLookback, q[2])

SwingsAre(swings, h, Q) ==
    /\ \A i \in DOMAIN swings : \E q \in Q : swings[i] = SwingOf(h, q)
    /\ \A i, j \in DOMAIN swings : i <= j => swings[i].ts <= swings[j].ts
    /\ \A q \in Q : \/ \E i \in DOMAIN swings : swings[i] = SwingOf(h, q)
                    \/ /\ Len(swings) = SwingCap
                       /\ \A i \in DOMAIN swings : SwingOf(h, q).ts <= swings[i].ts

LEMMA SwingOfIs ==
    ASSUME NEW h \in Seq(Candle), NEW q \in (SwingLookback + 1 .. Len(h)) \X Sides
    PROVE  /\ SwingOf(h, q).ts = h[q[1] - SwingLookback].ts /\ SwingOf(h, q).side = q[2]
           /\ SwingOf(h, q).ts \in Nat
           /\ q[1] \in Nat /\ q[1] - SwingLookback \in 1..Len(h) /\ q[2] \in Sides
  <1>1. /\ SwingOf(h, q).ts = h[q[1] - SwingLookback].ts /\ SwingOf(h, q).side = q[2]
    BY DEF SwingOf, SwingAt
  <1>2. SwingLookback \in Nat \ {0} /\ Len(h) \in Nat
    BY StructureAssumption DEF StructureAssumption
  <1>3. q[1] \in Nat /\ q[1] - SwingLookback \in 1..Len(h) /\ q[2] \in Sides
    BY <1>2
  <1>4. h[q[1] - SwingLookback].ts \in Nat
    BY <1>3, ElementOfSeq, PriceType
  <1> QED
    BY <1>1, <1>3, <1>4

LEMMA AddSwingAre ==
    ASSUME NEW swings \in Seq(Swing), NEW h \in Seq(Candle), InOrder(h),
           NEW Q, Q \subseteq (SwingLookback + 1 .. Len(h)) \X Sides,
           SwingsAre(swings, h, Q), NEW x \in (SwingLookback + 1 .. Len(h)) \X Sides,
           \A q \in Q : q[1] < x[1] \/ (q[1] = x[1] /\ q[2] # x[2])
    PROVE  SwingsAre(AddSwing(swings, {SwingOf(h, x)}), h, Q \cup {x})
  <1> DEFINE s == SwingOf(h, x)
             g == Append(swings, s)
             d == Keep(g, SwingCap)
             L == Len(swings)
             W == Q \cup {x}
  <1>1. SwingCap \in Nat \ {0} /\ L \in Nat /\ DOMAIN swings = 1..L
    BY StructureAssumption DEF StructureAssumption
  <1>2. \A q \in W : /\ SwingOf(h, q).ts \in Nat /\ SwingOf(h, q).side = q[2]
                     /\ SwingOf(h, q).ts <= s.ts
                     /\ (q \in Q /\ SwingOf(h, q).ts = s.ts => SwingOf(h, q).side # s.side)
    <2> SUFFICES ASSUME NEW q \in W
                 PROVE  /\ SwingOf(h, q).ts \in Nat /\ SwingOf(h, q).side = q[2]
                        /\ SwingOf(h, q).ts <= s.ts
                        /\ (q \in Q /\ SwingOf(h, q).ts = s.ts => SwingOf(h, q).side # s.side)
      OBVIOUS
    <2> DEFINE a == q[1] - SwingLookback
               b == x[1] - SwingLookback
    <2>1. q \in (SwingLookback + 1 .. Len(h)) \X Sides
      OBVIOUS
    <2>2. /\ SwingOf(h, q).ts = h[a].ts /\ SwingOf(h, q).side = q[2] /\ SwingOf(h, q).ts \in Nat
          /\ q[1] \in Nat /\ a \in 1..Len(h)
      BY <2>1, SwingOfIs
    <2>3. /\ s.ts = h[b].ts /\ s.side = x[2] /\ x[1] \in Nat /\ b \in 1..Len(h)
      BY SwingOfIs
    <2>4. SwingLookback \in Nat
      BY StructureAssumption DEF StructureAssumption
    <2>5. q \in Q => q[1] < x[1] \/ (q[1] = x[1] /\ q[2] # x[2])
      OBVIOUS
    <2>6. a <= b /\ (q \in Q /\ q[2] = x[2] => a # b)
      BY <2>2, <2>3, <2>4, <2>5
    <2> HIDE DEF a, b
    <2>7. h[a].ts <= h[b].ts /\ (h[a].ts = h[b].ts => a = b)
      BY <2>2, <2>3, <2>6, TimesOrder
    <2> QED
      BY <2>2, <2>3, <2>6, <2>7
  <1>3. s \in Swing
    <2>1. SwingLookback \in Nat /\ x[1] - SwingLookback \in 1..Len(h) /\ x[2] \in Sides
      BY SwingOfIs, StructureAssumption DEF StructureAssumption
    <2> DEFINE c == h[x[1] - SwingLookback]
    <2>2. c \in Candle
      BY <2>1, ElementOfSeq
    <2> HIDE DEF c
    <2>3. Level(x[2], Facing(x[2], c).high) \in Price /\ c.ts \in Nat
      BY <2>1, <2>2, FacedPrice, PriceType
    <2> QED
      BY <2>1, <2>3 DEF SwingOf, SwingAt, Swing, c
  <1>4. \A i \in 1..L : \E q \in Q : swings[i] = SwingOf(h, q)
    BY <1>1 DEF SwingsAre
  <1>5. AddSwing(swings, {s}) = d
    <2>1. (CHOOSE z \in {s} : TRUE) = s
      OBVIOUS
    <2>2. ~\E z \in {s} : swings # <<>> /\ swings[L].ts = z.ts /\ swings[L].side = z.side
      <3> SUFFICES ASSUME swings # <<>>, swings[L].ts = s.ts, swings[L].side = s.side
                   PROVE  FALSE
        OBVIOUS
      <3>1. L \in 1..L
        OBVIOUS
      <3> QED
        BY <1>2, <1>4, <3>1
    <2> QED
      BY <2>1, <2>2 DEF AddSwing
  <1>6. /\ g \in Seq(Swing) /\ Len(g) = L + 1 /\ g[L + 1] = s
        /\ \A i \in 1..L : g[i] = swings[i]
    BY <1>3, AppendProperties
  <1> HIDE DEF g
  <1> DEFINE l == Len(d)
             off == (L + 1) - l
  <1>7. /\ d \in Seq(Swing) /\ l = (IF L + 1 <= SwingCap THEN L + 1 ELSE SwingCap)
        /\ \A i \in 1..l : d[i] = g[i + off]
    <2>1. /\ d \in Seq(Swing) /\ Len(d) = IF Len(g) <= SwingCap THEN Len(g) ELSE SwingCap
          /\ \A i \in 1..Len(d) : d[i] = g[i + (Len(g) - Len(d))]
      <3>1. SwingCap \in Nat \ {0} /\ g \in Seq(Swing)
        BY <1>1, <1>6
      <3> QED
        BY <3>1, KeepIs, Zenon
    <2> QED
      BY <1>6, <2>1
  <1>8. DOMAIN d = 1..l
    BY <1>7
  <1> HIDE DEF d, s, l, L
  <1>9. /\ l \in Nat /\ off \in Nat /\ l >= 1 /\ (off >= 1 => l = SwingCap)
        /\ \A i \in 1..l : i + off \in 1..(L + 1) /\ d[i] = g[i + off]
        /\ \A i \in 1..(L + 1) : i > off => i - off \in 1..l /\ (i - off) + off = i
        /\ l + off = L + 1
    BY <1>1, <1>7
  <1> HIDE DEF off
  <1>10. \A i \in 1..(L + 1) : i = L + 1 \/ i \in 1..L
    BY <1>1
  <1>11. \A i \in 1..(L + 1) : \E q \in W : g[i] = SwingOf(h, q)
    BY <1>4, <1>6, <1>10 DEF s
  <1>12. \A i, j \in 1..(L + 1) : i <= j => g[i].ts <= g[j].ts
    <2> SUFFICES ASSUME NEW i \in 1..(L + 1), NEW j \in 1..(L + 1), i <= j
                 PROVE  g[i].ts <= g[j].ts
      OBVIOUS
    <2>1. CASE j = L + 1
      BY <1>2, <1>6, <1>11, <2>1
    <2>2. CASE j # L + 1
      <3>1. i \in 1..L /\ j \in 1..L
        BY <1>1, <2>2
      <3>2. swings[i].ts <= swings[j].ts
        BY <1>1, <3>1 DEF SwingsAre
      <3> QED
        BY <1>6, <3>1, <3>2
    <2> QED
      BY <2>1, <2>2
  <1>13. \A i \in 1..l : \E q \in W : d[i] = SwingOf(h, q)
    <2> TAKE i \in 1..l
    <2>1. i + off \in 1..(L + 1) /\ d[i] = g[i + off]
      BY <1>9
    <2>2. PICK q \in W : g[i + off] = SwingOf(h, q)
      BY <1>11, <2>1
    <2> QED
      BY <2>1, <2>2
  <1>14. \A i, j \in 1..l : i <= j => d[i].ts <= d[j].ts
    <2> SUFFICES ASSUME NEW i \in 1..l, NEW j \in 1..l, i <= j
                 PROVE  d[i].ts <= d[j].ts
      OBVIOUS
    <2>1. i + off <= j + off
      BY <1>9
    <2> QED
      BY <1>9, <1>12, <2>1
  <1>15. \A q \in W : \/ \E i \in 1..l : d[i] = SwingOf(h, q)
                      \/ l = SwingCap /\ \A i \in 1..l : SwingOf(h, q).ts <= d[i].ts
    <2> SUFFICES ASSUME NEW q \in W
                 PROVE  \/ \E i \in 1..l : d[i] = SwingOf(h, q)
                        \/ l = SwingCap /\ \A i \in 1..l : SwingOf(h, q).ts <= d[i].ts
      OBVIOUS
    <2>1. CASE \E i \in 1..(L + 1) : g[i] = SwingOf(h, q)
      <3>1. PICK i \in 1..(L + 1) : g[i] = SwingOf(h, q)
        BY <2>1
      <3>2. CASE i > off
        <4>1. i - off \in 1..l /\ (i - off) + off = i
          BY <1>9, <3>2
        <4>2. d[i - off] = g[i]
          BY <1>9, <4>1
        <4> QED
          BY <3>1, <4>1, <4>2
      <3>3. CASE ~(i > off)
        <4>1. off >= 1
          BY <1>9, <3>3
        <4>2. ASSUME NEW j \in 1..l PROVE SwingOf(h, q).ts <= d[j].ts
          <5>1. i <= j + off
            BY <1>9, <3>3
          <5> QED
            BY <1>9, <1>12, <3>1, <5>1
        <4> QED
          BY <1>9, <4>1, <4>2
      <3> QED
        BY <3>2, <3>3
    <2>2. CASE ~\E i \in 1..(L + 1) : g[i] = SwingOf(h, q)
      <3>1. q # x
        <4>1. L + 1 \in 1..(L + 1)
          BY <1>1
        <4> QED
          BY <1>6, <2>2, <4>1 DEF s
      <3>2. ~\E i \in 1..L : swings[i] = SwingOf(h, q)
        <4>1. \A i \in 1..L : i \in 1..(L + 1)
          BY <1>1
        <4> QED
          BY <1>6, <2>2, <4>1
      <3>3. L = SwingCap /\ \A i \in 1..L : SwingOf(h, q).ts <= swings[i].ts
        BY <1>1, <3>1, <3>2 DEF SwingsAre, L
      <3>4. l = SwingCap
        BY <1>1, <1>7, <3>3
      <3>5. \A i \in 1..(L + 1) : SwingOf(h, q).ts <= g[i].ts
        BY <1>2, <1>6, <1>10, <3>3
      <3> QED
        BY <1>9, <3>4, <3>5
    <2> QED
      BY <2>1, <2>2
  <1>16. SwingsAre(d, h, W)
    BY <1>8, <1>13, <1>14, <1>15 DEF SwingsAre, l
  <1> QED
    BY <1>5, <1>16 DEF s

\* What _latest_swing finds is the last pivot, unless the deque has forgotten
\* every swing of that side.
LEMMA LatestIsPivot ==
    ASSUME NEW m, NEW h \in Seq(Candle), InOrder(h), m.swings \in Seq(Swing),
           PivotsOf(h) \subseteq (SwingLookback + 1 .. Len(h)) \X Sides,
           SwingsAre(m.swings, h, PivotsOf(h)), NEW side \in Sides,
           LatestSwing(m, side) # {} \/ Len(m.swings) < SwingCap
    PROVE  LatestSwing(m, side) = {Level(side, x) : x \in RefSwing(h, side)}
  <1> DEFINE swings == m.swings
             L == Len(swings)
             hits == {i \in DOMAIN swings : swings[i].side = side}
             ns == {n \in 1..Len(h) : RefPivot(UpTo(h, n), side)}
             Q == PivotsOf(h)
  <1>1. LatestSwing(m, side) = IF hits = {} THEN {} ELSE {swings[Max(hits)].price}
    BY DEF LatestSwing
  <1>2. RefSwing(h, side)
          = IF ns = {} THEN {} ELSE {Facing(side, h[Max(ns) - SwingLookback]).high}
    BY DEF RefSwing
  <1>3. \A n \in ns : <<n, side>> \in Q
    BY DEF PivotsOf
  <1>4. \A q \in Q : q[2] = side => q[1] \in ns
    BY DEF PivotsOf
  <1>5. \A q \in Q : SwingOf(h, q).side = q[2]
    BY DEF SwingOf, SwingAt
  <1>6. SwingCap \in Nat /\ L \in Nat /\ DOMAIN swings = 1..L /\ Len(h) \in Nat
    BY StructureAssumption DEF StructureAssumption
  <1>7. ASSUME NEW n \in ns, hits = {} PROVE FALSE
    <2>1. <<n, side>> \in Q /\ SwingOf(h, <<n, side>>).side = side
      BY <1>3, <1>5
    <2>2. L < SwingCap
      BY <1>1, <1>7
    <2>3. PICK i \in DOMAIN swings : swings[i] = SwingOf(h, <<n, side>>)
      BY <1>6, <2>1, <2>2 DEF SwingsAre
    <2> QED
      BY <1>7, <2>1, <2>3
  <1>8. CASE hits = {}
    <2>1. ns = {}
      BY <1>7, <1>8
    <2> QED
      BY <1>1, <1>2, <1>8, <2>1
  <1>9. CASE hits # {}
    <2> DEFINE t == Max(hits)
    <2>1. hits \subseteq 1..L
      BY <1>6
    <2>2. t \in hits /\ \A i \in hits : t >= i
      BY <1>6, <1>9, <2>1, MaxExists
    <2> HIDE DEF t
    <2>3. PICK q \in Q : swings[t] = SwingOf(h, q)
      BY <2>2 DEF SwingsAre
    <2>4. q[2] = side /\ q[1] \in ns
      BY <1>4, <1>5, <2>2, <2>3
    <2>5. q[1] \in Nat /\ q[1] - SwingLookback \in 1..Len(h)
          /\ SwingOf(h, q).ts = h[q[1] - SwingLookback].ts
      BY SwingOfIs
    <2>6. ASSUME NEW n \in ns PROVE q[1] >= n
      <3> DEFINE r == <<n, side>>
      <3>1. r \in Q /\ r[1] = n /\ r[2] = side
        BY <1>3
      <3> HIDE DEF r
      <3>2. SwingOf(h, r).ts <= SwingOf(h, q).ts
        <4>1. CASE \E i \in DOMAIN swings : swings[i] = SwingOf(h, r)
          <5>1. PICK i \in DOMAIN swings : swings[i] = SwingOf(h, r)
            BY <4>1
          <5>2. i \in hits
            BY <1>5, <3>1, <5>1
          <5>3. i <= t /\ t \in DOMAIN swings
            BY <1>6, <2>1, <2>2, <5>2
          <5> QED
            BY <2>3, <5>1, <5>3 DEF SwingsAre
        <4>2. CASE ~\E i \in DOMAIN swings : swings[i] = SwingOf(h, r)
          BY <2>2, <2>3, <3>1, <4>2 DEF SwingsAre
        <4> QED
          BY <4>1, <4>2
      <3>3. n \in Nat /\ n - SwingLookback \in 1..Len(h)
            /\ SwingOf(h, r).ts = h[n - SwingLookback].ts
        BY <3>1, SwingOfIs
      <3>4. n - SwingLookback <= q[1] - SwingLookback
        BY <2>5, <3>2, <3>3, TimesOrder
      <3>5. SwingLookback \in Nat
        BY StructureAssumption DEF StructureAssumption
      <3> QED
        BY <2>5, <3>3, <3>4, <3>5
    <2>7. Max(ns) = q[1]
      <3>1. ns \subseteq Int
        BY <1>6
      <3> QED
        BY <2>4, <2>6, <3>1, MaxIs
    <2>8. RefSwing(h, side) = {Facing(side, h[q[1] - SwingLookback]).high}
      BY <1>2, <2>4, <2>7
    <2>9. swings[t].price = Level(side, Facing(side, h[q[1] - SwingLookback]).high)
      BY <2>3, <2>4 DEF SwingOf, SwingAt
    <2> QED
      BY <1>1, <1>9, <2>8, <2>9 DEF t
  <1> QED
    BY <1>8, <1>9

\* A pivot has SwingLookback bars on both sides.
LEMMA PivotRoom ==
    ASSUME NEW h \in Seq(Candle)
    PROVE  PivotsOf(h) \subseteq (SwingLookback + 1 .. Len(h)) \X Sides
  <1> SUFFICES ASSUME NEW n \in 1..Len(h), NEW side \in Sides, RefPivot(UpTo(h, n), side)
               PROVE  n \in SwingLookback + 1 .. Len(h)
    BY DEF PivotsOf
  <1>1. SwingLookback \in Nat \ {0} /\ Len(h) \in Nat /\ n \in 0..Len(h)
    BY StructureAssumption DEF StructureAssumption
  <1>2. Len(UpTo(h, n)) = n
    BY <1>1, PrefixIs
  <1>3. n - SwingLookback > SwingLookback
    BY <1>2 DEF RefPivot
  <1> QED
    BY <1>1, <1>3

LEMMA PivotsGrow ==
    ASSUME NEW h \in Seq(Candle), NEW c \in Candle
    PROVE  PivotsOf(Append(h, c))
             = PivotsOf(h) \cup {<<Len(h) + 1, s>> : s \in {t \in Sides : RefPivot(Append(h, c), t)}}
  <1> DEFINE g == Append(h, c)
             N == Len(h)
  <1>1. g \in Seq(Candle) /\ Len(g) = N + 1 /\ N \in Nat
    BY AppendProperties
  <1>2. UpTo(g, N + 1) = g
    BY <1>1, PrefixWhole
  <1>3. \A n \in 1..N : UpTo(g, n) = UpTo(h, n)
    BY PrefixOfAppend
  <1>4. \A n \in 1..(N + 1) : n = N + 1 \/ n \in 1..N
    BY <1>1
  <1>5. N + 1 \in 1..(N + 1) /\ \A n \in 1..N : n \in 1..(N + 1)
    BY <1>1
  <1> HIDE DEF g, N
  <1>6. \A q : q \in PivotsOf(g) <=> \/ q \in PivotsOf(h)
                                     \/ \E s \in Sides : RefPivot(g, s) /\ q = <<N + 1, s>>
    <2> TAKE q
    <2>1. q \in PivotsOf(g) <=> \E n \in 1..(N + 1), s \in Sides :
                                  q = <<n, s>> /\ RefPivot(UpTo(g, n), s)
      BY <1>1 DEF PivotsOf
    <2>2. q \in PivotsOf(h) <=> \E n \in 1..N, s \in Sides :
                                  q = <<n, s>> /\ RefPivot(UpTo(h, n), s)
      BY DEF PivotsOf, N
    <2> QED
      BY <1>2, <1>3, <1>4, <1>5, <2>1, <2>2
  <1> QED
    BY <1>6 DEF g, N

(***************************************************************************)
(* The deque of candles is long enough for whatever looks back in it.       *)
(***************************************************************************)
DequesSuffice ==
    /\ CandleCap >= 2 * SwingLookback + 1 /\ CandleCap >= 3
    /\ CandleCap > AtrPeriod /\ CandleCap > BlockWindow

LEMMA DequeEnough ==
    ASSUME DequesSuffice, NEW h \in Seq(Candle)
    PROVE  Enough(Keep(h, CandleCap), h)
  <1>1. CandleCap \in Nat \ {0}
    BY StructureAssumption DEF StructureAssumption
  <1>2. /\ Keep(h, CandleCap) \in Seq(Candle)
        /\ Len(Keep(h, CandleCap)) = IF Len(h) <= CandleCap THEN Len(h) ELSE CandleCap
    BY <1>1, KeepIs
  <1>3. EndOf(Keep(h, CandleCap), h)
    BY <1>1, KeepIsEnd
  <1> QED
    BY <1>2, <1>3 DEF Enough, DequesSuffice

LEMMA SwingsAfterBar ==
    ASSUME NEW swings \in Seq(Swing), NEW h \in Seq(Candle), NEW c \in Candle,
           InOrder(Append(h, c)), SwingsAre(swings, h, PivotsOf(h)),
           NEW cs, Enough(cs, Append(h, c))
    PROVE  SwingsAre(Tracked(swings, cs, SwingLookback, TRUE), Append(h, c),
                     PivotsOf(Append(h, c)))
  <1> DEFINE g == Append(h, c)
             N == Len(h)
             n == N + 1
             New(s) == IF RefPivot(g, s) THEN {<<n, s>>} ELSE {}
             F(s) == ConfirmedSwing(cs, SwingLookback, s, TRUE)
             Room == (SwingLookback + 1 .. Len(g)) \X Sides
  <1>1. /\ g \in Seq(Candle) /\ Len(g) = n /\ N \in Nat
        /\ \A i \in 1..N : g[i] = h[i]
        /\ InOrder(g)
    BY AppendProperties
  <1>2. PivotsOf(g) = (PivotsOf(h) \cup New("HIGH")) \cup New("LOW")
    <2>1. PivotsOf(g) = PivotsOf(h) \cup {<<n, s>> : s \in {t \in Sides : RefPivot(g, t)}}
      BY PivotsGrow
    <2> HIDE DEF g, N
    <2>2. {<<n, s>> : s \in {t \in Sides : RefPivot(g, t)}} = New("HIGH") \cup New("LOW")
      BY DEF Sides
    <2> QED
      BY <2>1, <2>2
  <1>3. PivotsOf(g) \subseteq Room
    BY <1>1, PivotRoom
  <1>4. \A q \in PivotsOf(h) : q[1] \in 1..N
    BY DEF PivotsOf
  <1>5. \A s \in Sides : F(s) = IF RefPivot(g, s) THEN {SwingOf(g, <<n, s>>)} ELSE {}
    <2> TAKE s \in Sides
    <2>1. F(s) = IF RefPivot(g, s) THEN {SwingAt(g, Len(g) - SwingLookback, s)} ELSE {}
      BY PivotFound
    <2>2. SwingOf(g, <<n, s>>) = SwingAt(g, Len(g) - SwingLookback, s)
      BY <1>1 DEF SwingOf
    <2> QED
      BY <2>1, <2>2
  <1> HIDE DEF F
  <1>6. SwingsAre(swings, g, PivotsOf(h))
    <2>1. \A q \in PivotsOf(h) : SwingOf(g, q) = SwingOf(h, q)
      <3> TAKE q \in PivotsOf(h)
      <3>1. q \in (SwingLookback + 1 .. Len(h)) \X Sides
        BY PivotRoom
      <3>2. q[1] - SwingLookback \in 1..N
        BY <3>1, SwingOfIs
      <3> QED
        BY <1>1, <3>2 DEF SwingOf, SwingAt
    <2> HIDE DEF g
    <2> QED
      BY <2>1 DEF SwingsAre
  <1> DEFINE Q1 == PivotsOf(h) \cup New("HIGH")
             s1 == AddSwing(swings, F("HIGH"))
             s2 == AddSwing(s1, F("LOW"))
  <1>7. \A q \in Q1 : q[1] < n \/ (q[1] = n /\ q[2] # "LOW")
    BY <1>1, <1>4
  <1>8. \A q \in PivotsOf(h) : q[1] < n
    BY <1>1, <1>4
  <1> HIDE DEF g, n, N
  <1>9. s1 \in Seq(Swing) /\ SwingsAre(s1, g, Q1)
    <2>1. CASE ~RefPivot(g, "HIGH")
      <3>1. s1 = swings
        BY <1>5, <2>1 DEF AddSwing, Sides
      <3> QED
        BY <1>6, <2>1, <3>1
    <2>2. CASE RefPivot(g, "HIGH")
      <3> DEFINE x == <<n, "HIGH">>
      <3>1. x \in Room /\ F("HIGH") = {SwingOf(g, x)} /\ Q1 = PivotsOf(h) \cup {x}
            /\ PivotsOf(h) \subseteq Room /\ x[1] = n
        BY <1>2, <1>3, <1>5, <2>2 DEF Sides
      <3> HIDE DEF x, Q1
      <3>2. SwingsAre(s1, g, Q1)
        <4>1. \A q \in PivotsOf(h) : q[1] < x[1] \/ (q[1] = x[1] /\ q[2] # x[2])
          BY <1>8, <3>1
        <4>2. SwingsAre(AddSwing(swings, {SwingOf(g, x)}), g, PivotsOf(h) \cup {x})
          BY <1>1, <1>6, <3>1, <4>1, AddSwingAre
        <4> QED
          BY <3>1, <4>2 DEF s1
      <3>3. F("HIGH") \in SUBSET Swing
        BY FoundType, StructureAssumption DEF F, Sides, Enough, StructureAssumption
      <3> QED
        BY <3>2, <3>3, AddSwingType
    <2> QED
      BY <2>1, <2>2
  <1> HIDE DEF s1
  <1>10. SwingsAre(s2, g, PivotsOf(g))
    <2>1. CASE ~RefPivot(g, "LOW")
      <3>1. s2 = s1
        BY <1>5, <2>1 DEF AddSwing, Sides
      <3> QED
        BY <1>2, <1>9, <2>1, <3>1
    <2>2. CASE RefPivot(g, "LOW")
      <3> DEFINE x == <<n, "LOW">>
      <3>1. x \in Room /\ F("LOW") = {SwingOf(g, x)} /\ PivotsOf(g) = Q1 \cup {x}
            /\ Q1 \subseteq Room /\ x[1] = n /\ x[2] = "LOW"
        BY <1>2, <1>3, <1>5, <2>2 DEF Sides
      <3> HIDE DEF x, Q1
      <3> QED
        <4>1. \A q \in Q1 : q[1] < x[1] \/ (q[1] = x[1] /\ q[2] # x[2])
          BY <1>7, <3>1
        <4>2. SwingsAre(AddSwing(s1, {SwingOf(g, x)}), g, Q1 \cup {x})
          BY <1>1, <1>9, <3>1, <4>1, AddSwingAre
        <4> QED
          BY <3>1, <4>2
    <2> QED
      BY <2>1, <2>2
  <1>11. Tracked(swings, cs, SwingLookback, TRUE) = s2
    BY DEF Tracked, s1, F
  <1> QED
    BY <1>10, <1>11 DEF g

-----------------------------------------------------------------------------
(***************************************************************************)
(* Breaks, order blocks and gaps are those of the history.                  *)
(***************************************************************************)
LEMMA RefSwingType ==
    ASSUME NEW h \in Seq(Candle), NEW side \in Sides
    PROVE  RefSwing(h, side) \subseteq Int
  <1> DEFINE ns == {n \in 1..Len(h) : RefPivot(UpTo(h, n), side)}
  <1>1. RefSwing(h, side)
          = IF ns = {} THEN {} ELSE {Facing(side, h[Max(ns) - SwingLookback]).high}
    BY DEF RefSwing
  <1>2. CASE ns = {}
    BY <1>1, <1>2
  <1>3. CASE ns # {}
    <2>1. Len(h) \in Nat /\ ns \subseteq 1..Len(h)
      OBVIOUS
    <2>2. Max(ns) \in ns
      BY <1>3, <2>1, MaxExists
    <2>3. <<Max(ns), side>> \in PivotsOf(h)
      BY <2>2 DEF PivotsOf
    <2>4. <<Max(ns), side>> \in (SwingLookback + 1 .. Len(h)) \X Sides
      BY <2>3, PivotRoom
    <2>5. Max(ns) - SwingLookback \in 1..Len(h)
      BY <2>4, SwingOfIs
    <2>6. Facing(side, h[Max(ns) - SwingLookback]).high \in Int
      BY <2>5, HighType
    <2> QED
      BY <1>1, <1>3, <2>6
  <1> QED
    BY <1>2, <1>3

LEMMA BreakIsRef ==
    ASSUME NEW m, NEW h \in Seq(Candle), h # <<>>,
           \A side \in Sides : LatestSwing(m, side) = {Level(side, x) : x \in RefSwing(h, side)}
    PROVE  /\ BreakOf(m, Last(h)) \in Trend
           /\ \A dir \in Directions : RefBreaks(h, dir) <=> BreakOf(m, Last(h)) = dir
  <1> DEFINE c == Last(h)
             Up == \E p \in RefSwing(h, "HIGH") : c.close > p
             Down == \E p \in RefSwing(h, "LOW") : -c.close > p
  <1>1. c \in Candle
    <2>1. Len(h) \in 1..Len(h)
      OBVIOUS
    <2> QED
      BY <2>1, ElementOfSeq DEF Last
  <1>2. c.close \in Int
    BY <1>1, PriceType DEF Price
  <1> HIDE DEF c
  <1>3. RefSwing(h, "HIGH") \subseteq Int /\ RefSwing(h, "LOW") \subseteq Int
    BY RefSwingType DEF Sides
  <1>4. (\E p \in LatestSwing(m, "HIGH") : c.close > p) <=> Up
    <2>1. LatestSwing(m, "HIGH") = {Level("HIGH", x) : x \in RefSwing(h, "HIGH")}
      BY DEF Sides
    <2>2. \A x \in RefSwing(h, "HIGH") : Level("HIGH", x) = x
      BY DEF Level
    <2> QED
      BY <2>1, <2>2
  <1>5. (\E p \in LatestSwing(m, "LOW") : c.close < p) <=> Down
    <2>1. LatestSwing(m, "LOW") = {Level("LOW", x) : x \in RefSwing(h, "LOW")}
      BY DEF Sides
    <2>2. \A x \in RefSwing(h, "LOW") : Level("LOW", x) = -x /\ (c.close < -x <=> -c.close > x)
      BY <1>2, <1>3 DEF Level
    <2> QED
      BY <2>1, <2>2
  <1>6. BreakOf(m, c) = IF Up THEN "BULLISH" ELSE IF Down THEN "BEARISH" ELSE "NONE"
    BY <1>4, <1>5 DEF BreakOf
  <1>7. RefBreaks(h, "BULLISH") <=> Up
    BY DEF RefBreaks, SideOf, Facing, c
  <1>8. RefBreaks(h, "BEARISH") <=> Down /\ ~Up
    <2>1. Facing("BEARISH", c).close = -c.close
      BY <1>1, FacingPrices DEF Directions, Level
    <2> QED
      BY <2>1 DEF RefBreaks, SideOf, c
  <1> HIDE DEF Up, Down
  <1> QED
    BY <1>6, <1>7, <1>8 DEF Directions, Trend, c

\* The zone born at bar b[1], as it was then.
BlockAt(h, b) ==
    LET ob == h[BlockBar(h, b)]
    IN  Zone(b[2], Min({ob.open, ob.close}), Max({ob.open, ob.close}), ob.ts)

GapAt(h, b) ==
    LET x == Level(b[2], Facing(b[2], h[b[1] - 2]).high)
        y == Level(b[2], Facing(b[2], h[b[1]]).low)
    IN  Zone(b[2], Min({x, y}), Max({x, y}), h[b[1] - 1].ts)

LEMMA BlockBarIs ==
    ASSUME NEW h \in Seq(Candle), NEW b \in (1..Len(h)) \X Directions,
           RefBlockBar(UpTo(h, b[1]), b[2]) # {}
    PROVE  /\ BlockBar(h, b) \in 1..(b[1] - 1) /\ BlockBar(h, b) \in 1..Len(h)
           /\ RefBlockBar(UpTo(h, b[1]), b[2]) = {BlockBar(h, b)}
  <1> DEFINE g == UpTo(h, b[1])
             n == Len(g)
             opposing == {i \in Max({1, n - BlockWindow}) .. (n - 1) :
                            Rising(Facing(Opposite(b[2]), g[i]))}
  <1>1. n = b[1] /\ n \in 1..Len(h) /\ Len(h) \in Nat
    BY PrefixIs
  <1>2. opposing # {} /\ RefBlockBar(g, b[2]) = {Max(opposing)}
    BY DEF RefBlockBar
  <1>3. Max({1, n - BlockWindow}) \in Int /\ Max({1, n - BlockWindow}) >= 1
    BY <1>1, MaxOfTwo, StructureAssumption DEF StructureAssumption
  <1>4. opposing \subseteq 1..(n - 1) /\ n - 1 \in Nat
    BY <1>1, <1>3
  <1>5. Max(opposing) \in 1..(n - 1)
    BY <1>2, <1>4, MaxExists
  <1>6. BlockBar(h, b) = Max(opposing)
    BY <1>2 DEF BlockBar
  <1> QED
    BY <1>1, <1>2, <1>5, <1>6

\* The blocks after a bar that breaks in a direction, or in none.
BlocksWith(blocks, h, dir) ==
    IF dir \in Directions /\ RefBlockBar(h, dir) # {}
    THEN Keep(Append(blocks, BlockAt(h, <<Len(h), dir>>)), ZoneCap)
    ELSE blocks

LEMMA BlockAdded ==
    ASSUME NEW cs, NEW h, Enough(cs, h), h # <<>>, NEW dir \in Trend,
           \A d \in Directions : RefBreaks(h, d) <=> dir = d
    PROVE  /\ \A d \in Directions : RefBlockBar(h, d) # {} => d = dir
           /\ \A blocks : AddBlock(blocks, cs, dir) = BlocksWith(blocks, h, dir)
  <1> SUFFICES ASSUME NEW blocks
               PROVE  /\ \A d \in Directions : RefBlockBar(h, d) # {} => d = dir
                      /\ AddBlock(blocks, cs, dir) = BlocksWith(blocks, h, dir)
    OBVIOUS
  <1> USE DEF BlocksWith
  <1> DEFINE n == Len(cs)
             N == Len(h)
             o == N - n
             a == Max({1, n - BlockWindow})
             A == Max({1, N - BlockWindow})
             Opp == {i \in a..(n - 1) : Rising(Facing(Opposite(dir), cs[i]))}
             Ref == {i \in A..(N - 1) : Rising(Facing(Opposite(dir), h[i]))}
  <1>1. cs \in Seq(Candle) /\ h \in Seq(Candle) /\ EndOf(cs, h)
    BY DEF Enough
  <1>2. n \in Nat /\ N \in Nat /\ n <= N /\ N >= 1 /\ BlockWindow \in Nat
        /\ (n = N \/ n > BlockWindow)
    <2>1. n \in Nat /\ N \in Nat /\ N >= 1
      BY <1>1
    <2>2. n <= N
      BY <1>1 DEF EndOf
    <2>3. n = N \/ n > BlockWindow
      BY DEF Enough
    <2> QED
      BY <2>1, <2>2, <2>3, StructureAssumption DEF StructureAssumption
  <1>3. \A d \in Directions : RefBlockBar(h, d) # {} => d = dir
    BY DEF RefBlockBar
  <1>4. /\ Max({1, n - BlockWindow}) = IF 1 >= n - BlockWindow THEN 1 ELSE n - BlockWindow
        /\ Max({1, N - BlockWindow}) = IF 1 >= N - BlockWindow THEN 1 ELSE N - BlockWindow
    BY <1>2, MaxOfTwo
  <1>5. \A i \in 1..n : cs[i] = h[i + o]
    BY <1>1 DEF EndOf
  <1>6. CASE dir = "NONE"
    BY <1>3, <1>6 DEF AddBlock, Directions
  <1>7. CASE dir # "NONE"
    <2>1. dir \in Directions /\ RefBreaks(h, dir)
      BY <1>7 DEF Trend
    <2>2. cs[n] = h[N] /\ n >= 1
      <3>1. n \in 1..n /\ n + o = N
        BY <1>2
      <3> QED
        BY <1>5, <3>1
    <2>3. AddBlock(blocks, cs, dir)
            = IF \/ AtrSum(h) = 0 \/ ~ReachesAtr(Body(h[N]), DisplacementPct, h) \/ Opp = {}
              THEN blocks
              ELSE Keep(Append(blocks, Zone(dir, Min({cs[Max(Opp)].open, cs[Max(Opp)].close}),
                                            Max({cs[Max(Opp)].open, cs[Max(Opp)].close}),
                                            cs[Max(Opp)].ts)), ZoneCap)
      BY <1>7, <2>2, SameSample DEF AddBlock
    <2>4. RefBlockBar(h, dir)
            = IF /\ ReachesAtr(Body(h[N]), DisplacementPct, h) /\ AtrSum(h) # 0 /\ Ref # {}
              THEN {Max(Ref)} ELSE {}
      BY <2>1 DEF RefBlockBar
    <2>5. BlockBar(h, <<N, dir>>) = CHOOSE i \in RefBlockBar(h, dir) : TRUE
      BY <1>1, PrefixWhole DEF BlockBar
    <2>6. /\ a \in 1..n /\ A \in 1..N /\ n \in Nat /\ N \in Nat /\ o \in Nat
          /\ \A i \in a..(n - 1) : i + o \in A..(N - 1) /\ i \in 1..n
          /\ \A i \in A..(N - 1) : i - o \in a..(n - 1) /\ (i - o) + o = i /\ i - o \in 1..n
      <3> HIDE DEF n, N, a, A
      <3>1. /\ a = IF 1 >= n - BlockWindow THEN 1 ELSE n - BlockWindow
            /\ A = IF 1 >= N - BlockWindow THEN 1 ELSE N - BlockWindow
        BY <1>4 DEF a, A, n, N
      <3>2. a >= 1 /\ A >= 1 /\ A = a + o /\ a \in Int /\ A \in Int /\ a <= n /\ A <= N
        BY <1>2, <2>2, <3>1
      <3> QED
        BY <1>2, <3>2
    <2> HIDE DEF n, N, o, a, A
    <2>7. \A i \in Opp : i + o \in Ref /\ i \in 1..n
      BY <1>5, <2>6
    <2>8. \A i \in Ref : i - o \in Opp /\ (i - o) + o = i
      <3> TAKE i \in Ref
      <3>1. i - o \in a..(n - 1) /\ (i - o) + o = i /\ i - o \in 1..n
        BY <2>6
      <3>2. cs[i - o] = h[i]
        BY <1>5, <3>1
      <3> QED
        BY <3>1, <3>2
    <2>9. CASE Opp = {}
      <3>1. Ref = {}
        BY <2>8, <2>9
      <3> QED
        BY <1>3, <2>1, <2>3, <2>4, <2>9, <3>1
    <2>10. CASE Opp # {}
      <3> DEFINE t == Max(Opp)
      <3>1. Opp \subseteq 1..n
        BY <2>7
      <3>2. t \in Opp /\ \A i \in Opp : t >= i
        BY <2>6, <2>10, <3>1, MaxExists
      <3> HIDE DEF t
      <3>3. Max(Ref) = t + o
        <4>1. t + o \in Ref /\ t \in Int
          BY <2>6, <2>7, <3>2
        <4>2. Ref \subseteq Int
          BY <2>6
        <4>3. \A i \in Ref : t + o >= i
          <5> TAKE i \in Ref
          <5>1. t >= i - o /\ (i - o) + o = i /\ i \in Int
            BY <2>8, <3>2, <4>2
          <5> QED
            BY <2>6, <4>1, <5>1
        <4> HIDE DEF Ref
        <4> QED
          BY <4>1, <4>2, <4>3, MaxIs
      <3>4. h[t + o] = cs[t] /\ Ref # {}
        BY <1>5, <2>7, <3>2
      <3>5. CASE AtrSum(h) = 0 \/ ~ReachesAtr(Body(h[N]), DisplacementPct, h)
        BY <1>3, <2>1, <2>3, <2>4, <3>5
      <3>6. CASE ~(AtrSum(h) = 0 \/ ~ReachesAtr(Body(h[N]), DisplacementPct, h))
        <4>1. RefBlockBar(h, dir) = {t + o}
          BY <2>4, <3>3, <3>4, <3>6
        <4>2. BlockBar(h, <<N, dir>>) = t + o
          BY <2>5, <4>1
        <4>3. BlockAt(h, <<N, dir>>) = Zone(dir, Min({cs[t].open, cs[t].close}),
                                            Max({cs[t].open, cs[t].close}), cs[t].ts)
          BY <3>4, <4>2 DEF BlockAt
        <4>4. AddBlock(blocks, cs, dir) = Keep(Append(blocks, BlockAt(h, <<N, dir>>)), ZoneCap)
          BY <2>3, <2>10, <3>6, <4>3 DEF t
        <4> QED
          BY <1>3, <2>1, <4>1, <4>4 DEF N
      <3> QED
        BY <3>5, <3>6
    <2> QED
      BY <2>9, <2>10
  <1> QED
    BY <1>6, <1>7

LEMMA GapFound ==
    ASSUME NEW cs, NEW h, Enough(cs, h), h # <<>>, NEW dir \in Directions
    PROVE  GapIn(cs, dir) = IF RefIsGap(h, dir) THEN {GapAt(h, <<Len(h), dir>>)} ELSE {}
  <1> DEFINE n == Len(cs)
             N == Len(h)
             b0 == Facing(dir, cs[n - 2])
             b2 == Facing(dir, cs[n])
             B0 == Facing(dir, h[N - 2])
             B2 == Facing(dir, h[N])
  <1>1. cs \in Seq(Candle) /\ h \in Seq(Candle) /\ EndOf(cs, h)
    BY DEF Enough
  <1>2. n \in Nat /\ N \in Nat /\ n <= N /\ (n = N \/ n >= 3)
    <2>1. n \in Nat /\ N \in Nat
      BY <1>1
    <2>2. n <= N
      BY <1>1 DEF EndOf
    <2>3. n = N \/ n >= 3
      BY DEF Enough
    <2> QED
      BY <2>1, <2>2, <2>3
  <1>3. GapIn(cs, dir)
          = IF n >= 3 /\ b0.high < b2.low /\ ReachesAtr(b2.low - b0.high, MinFvgPct, cs)
            THEN {Zone(dir, Min({Level(dir, b0.high), Level(dir, b2.low)}),
                       Max({Level(dir, b0.high), Level(dir, b2.low)}), cs[n - 1].ts)}
            ELSE {}
    BY DEF GapIn
  <1>4. RefIsGap(h, dir)
          <=> N >= 3 /\ B2.low - B0.high > 0 /\ ReachesAtr(B2.low - B0.high, MinFvgPct, h)
    BY DEF RefIsGap
  <1>5. CASE ~(N >= 3)
    <2>1. ~(n >= 3)
      BY <1>2, <1>5
    <2> QED
      BY <1>3, <1>4, <1>5, <2>1
  <1>6. CASE N >= 3
    <2>1. n >= 3 /\ n \in 1..n /\ n - 1 \in 1..n /\ n - 2 \in 1..n
          /\ n + (N - n) = N /\ (n - 1) + (N - n) = N - 1 /\ (n - 2) + (N - n) = N - 2
          /\ N \in 1..N /\ N - 2 \in 1..N
      BY <1>2, <1>6
    <2>2. cs[n] = h[N] /\ cs[n - 1] = h[N - 1] /\ cs[n - 2] = h[N - 2]
      BY <1>1, <2>1 DEF EndOf
    <2>3. B0.high \in Int /\ B2.low \in Int
      BY <1>1, <2>1, HighType
    <2>4. B0.high < B2.low <=> B2.low - B0.high > 0
      <3> HIDE DEF B0, B2
      <3> QED
        BY <2>3
    <2>5. ReachesAtr(B2.low - B0.high, MinFvgPct, cs) <=> ReachesAtr(B2.low - B0.high, MinFvgPct, h)
      BY SameSample
    <2>6. GapAt(h, <<N, dir>>)
            = Zone(dir, Min({Level(dir, B0.high), Level(dir, B2.low)}),
                   Max({Level(dir, B0.high), Level(dir, B2.low)}), h[N - 1].ts)
      BY DEF GapAt
    <2> QED
      BY <1>3, <1>4, <1>6, <2>1, <2>2, <2>4, <2>5, <2>6
  <1> QED
    BY <1>5, <1>6

\* A bar opens a gap in one direction at most.
LEMMA OneGap ==
    ASSUME NEW h \in Seq(Bar), RefIsGap(h, "BULLISH"), RefIsGap(h, "BEARISH")
    PROVE  FALSE
  <1> DEFINE N == Len(h)
             p == h[N - 2]
             q == h[N]
  <1>1. N \in Nat /\ N >= 3
    BY DEF RefIsGap
  <1>2. N \in 1..N /\ N - 2 \in 1..N
    BY <1>1
  <1>3. p \in Bar /\ q \in Bar
    BY <1>2, ElementOfSeq
  <1>4. /\ Facing("BULLISH", q).low - Facing("BULLISH", p).high > 0
        /\ Facing("BEARISH", q).low - Facing("BEARISH", p).high > 0
    BY DEF RefIsGap
  <1> HIDE DEF p, q
  <1>5. /\ p.low \in Int /\ p.high \in Int /\ q.low \in Int /\ q.high \in Int
        /\ p.close \in Int /\ q.close \in Int
        /\ p.low <= p.close /\ p.close <= p.high /\ q.low <= q.close /\ q.close <= q.high
        /\ p \in Candle /\ q \in Candle
    BY <1>3, PriceType DEF Bar, Price
  <1>6. q.low - p.high > 0 /\ (-q.high) - (-p.low) > 0
    BY <1>4, <1>5, FacingPrices DEF Directions, Sides
  <1> QED
    BY <1>5, <1>6

LEMMA GapsAdded ==
    ASSUME NEW gaps, NEW cs, NEW h \in Seq(Bar), Enough(cs, h), h # <<>>
    PROVE  \/ /\ \A d \in Directions : ~RefIsGap(h, d)
              /\ AddGaps(gaps, cs) = gaps
           \/ \E dir \in Directions :
                /\ \A d \in Directions : RefIsGap(h, d) <=> d = dir
                /\ AddGaps(gaps, cs) = Keep(Append(gaps, GapAt(h, <<Len(h), dir>>)), ZoneCap)
  <1> DEFINE Add(s, found) ==
                 IF found = {} THEN s
                 ELSE Keep(Append(s, CHOOSE g \in found : TRUE), ZoneCap)
             Up == GapAt(h, <<Len(h), "BULLISH">>)
             Down == GapAt(h, <<Len(h), "BEARISH">>)
  <1>1. AddGaps(gaps, cs) = Add(Add(gaps, GapIn(cs, "BULLISH")), GapIn(cs, "BEARISH"))
    BY DEF AddGaps
  <1>2. /\ GapIn(cs, "BULLISH") = IF RefIsGap(h, "BULLISH") THEN {Up} ELSE {}
        /\ GapIn(cs, "BEARISH") = IF RefIsGap(h, "BEARISH") THEN {Down} ELSE {}
    BY GapFound DEF Directions
  <1>3. /\ \A s : Add(s, {}) = s
        /\ \A s, g : Add(s, {g}) = Keep(Append(s, g), ZoneCap)
    OBVIOUS
  <1>4. ~(RefIsGap(h, "BULLISH") /\ RefIsGap(h, "BEARISH"))
    BY OneGap
  <1> HIDE DEF Add, Up, Down
  <1>5. CASE RefIsGap(h, "BULLISH")
    <2>1. AddGaps(gaps, cs) = Keep(Append(gaps, Up), ZoneCap)
      BY <1>1, <1>2, <1>3, <1>4, <1>5
    <2> QED
      BY <1>4, <1>5, <2>1 DEF Directions, Up
  <1>6. CASE RefIsGap(h, "BEARISH")
    <2>1. AddGaps(gaps, cs) = Keep(Append(gaps, Down), ZoneCap)
      BY <1>1, <1>2, <1>3, <1>4, <1>6
    <2> QED
      BY <1>4, <1>6, <2>1 DEF Directions, Down
  <1>7. CASE ~RefIsGap(h, "BULLISH") /\ ~RefIsGap(h, "BEARISH")
    BY <1>1, <1>2, <1>3, <1>7 DEF Directions
  <1> QED
    BY <1>5, <1>6, <1>7

-----------------------------------------------------------------------------
(***************************************************************************)
(* The zones a deque holds are the newest births, in their order.           *)
(***************************************************************************)
Birth == Nat \X Directions

Enumerates(q, B) ==
    /\ q \in Seq(Birth) /\ B \subseteq Birth /\ IsFiniteSet(B)
    /\ Len(q) <= ZoneCap
    /\ \A i \in 1..Len(q) : q[i] \in B /\ Cardinality(Later(B, q[i])) = Len(q) - i
    /\ \A b \in B : (\E i \in 1..Len(q) : q[i] = b) \/ Cardinality(Later(B, b)) >= ZoneCap

LEMMA NewestAre ==
    ASSUME NEW q, NEW B, Enumerates(q, B)
    PROVE  Newest(B) = {q[i] : i \in 1..Len(q)}
  <1>1. /\ q \in Seq(Birth) /\ Len(q) \in Nat /\ Len(q) <= ZoneCap /\ ZoneCap \in Nat
        /\ IsFiniteSet(B)
    BY StructureAssumption DEF Enumerates, StructureAssumption
  <1>2. \A i \in 1..Len(q) : q[i] \in Newest(B)
    BY <1>1 DEF Enumerates, Newest
  <1>3. \A b \in Newest(B) : \E i \in 1..Len(q) : q[i] = b
    <2> TAKE b \in Newest(B)
    <2>1. b \in B /\ Cardinality(Later(B, b)) < ZoneCap
      BY DEF Newest
    <2>2. IsFiniteSet(Later(B, b))
      BY <1>1, FS_Subset DEF Later
    <2>3. Cardinality(Later(B, b)) \in Nat
      BY <2>2, FS_CardinalityType
    <2> HIDE DEF Later
    <2> QED
      BY <1>1, <2>1, <2>3 DEF Enumerates
  <1> QED
    BY <1>2, <1>3

LEMMA BirthKept ==
    ASSUME NEW q, NEW B, Enumerates(q, B), NEW x \in Birth, \A b \in B : b[1] < x[1]
    PROVE  Enumerates(Keep(Append(q, x), ZoneCap), B \cup {x})
  <1> DEFINE g == Append(q, x)
             d == Keep(g, ZoneCap)
             L == Len(q)
             W == B \cup {x}
             l == Len(d)
             off == (L + 1) - l
  <1>1. /\ q \in Seq(Birth) /\ B \subseteq Birth /\ IsFiniteSet(B) /\ L \in Nat
        /\ L <= ZoneCap /\ ZoneCap \in Nat \ {0}
    BY StructureAssumption DEF Enumerates, StructureAssumption
  <1>2. \A b \in Birth : b[1] \in Nat
    BY DEF Birth
  <1>3. /\ IsFiniteSet(W) /\ W \subseteq Birth
    BY <1>1, FS_AddElement
  <1>4. ASSUME NEW b \in B
        PROVE  /\ Cardinality(Later(W, b)) = Cardinality(Later(B, b)) + 1
               /\ Cardinality(Later(B, b)) \in Nat
    <2>1. Later(W, b) = Later(B, b) \cup {x}
      BY <1>1, <1>2 DEF Later
    <2>2. x \notin Later(B, b)
      BY <1>1, <1>2 DEF Later
    <2>3. IsFiniteSet(Later(B, b))
      BY <1>1, FS_Subset DEF Later
    <2>4. Cardinality(Later(B, b)) \in Nat
      BY <2>3, FS_CardinalityType
    <2> QED
      BY <2>1, <2>2, <2>3, <2>4, FS_AddElement
  <1>5. Cardinality(Later(W, x)) = 0
    <2>1. Later(W, x) = {}
      BY <1>1, <1>2 DEF Later
    <2> QED
      BY <2>1, FS_EmptySet
  <1>6. /\ g \in Seq(Birth) /\ Len(g) = L + 1 /\ g[L + 1] = x
        /\ \A i \in 1..L : g[i] = q[i]
    BY <1>1, AppendProperties
  <1> HIDE DEF g
  <1>7. /\ d \in Seq(Birth) /\ l = (IF L + 1 <= ZoneCap THEN L + 1 ELSE ZoneCap)
        /\ \A i \in 1..l : d[i] = g[i + off]
    <2>1. /\ d \in Seq(Birth) /\ Len(d) = IF Len(g) <= ZoneCap THEN Len(g) ELSE ZoneCap
          /\ \A i \in 1..Len(d) : d[i] = g[i + (Len(g) - Len(d))]
      <3>1. ZoneCap \in Nat \ {0} /\ g \in Seq(Birth)
        BY <1>1, <1>6
      <3> QED
        BY <3>1, KeepIs, Zenon
    <2> QED
      BY <1>6, <2>1
  <1>8. ASSUME NEW i \in 1..(L + 1)
        PROVE  g[i] \in W /\ Cardinality(Later(W, g[i])) = (L + 1) - i
    <2>1. CASE i = L + 1
      BY <1>1, <1>5, <1>6, <2>1
    <2>2. CASE i # L + 1
      <3>1. i \in 1..L
        BY <1>1, <2>2
      <3>2. g[i] = q[i] /\ q[i] \in B /\ Cardinality(Later(B, q[i])) = L - i
        BY <1>6, <3>1 DEF Enumerates
      <3>3. Cardinality(Later(W, q[i])) = (L - i) + 1
        BY <1>4, <3>2
      <3> QED
        BY <1>1, <3>1, <3>2, <3>3
    <2> QED
      BY <2>1, <2>2
  <1> HIDE DEF d, l, L, W
  <1>9. /\ l \in Nat /\ off \in Nat /\ l <= ZoneCap /\ (off >= 1 => l = ZoneCap)
        /\ l + off = L + 1
        /\ \A i \in 1..l : i + off \in 1..(L + 1) /\ d[i] = g[i + off]
                           /\ (L + 1) - (i + off) = l - i
        /\ \A i \in 1..(L + 1) : i > off => i - off \in 1..l /\ (i - off) + off = i
    <2>1. l = (IF L + 1 <= ZoneCap THEN L + 1 ELSE ZoneCap) /\ off = (L + 1) - l
      BY <1>7
    <2>2. \A i \in 1..l : d[i] = g[i + off]
      BY <1>7
    <2> HIDE DEF off
    <2>3. /\ l \in Nat /\ off \in Nat /\ l <= ZoneCap /\ (off >= 1 => l = ZoneCap)
          /\ l + off = L + 1
      BY <1>1, <2>1
    <2>4. \A i \in 1..l : i + off \in 1..(L + 1) /\ (L + 1) - (i + off) = l - i
      BY <1>1, <2>3
    <2>5. \A i \in 1..(L + 1) : i > off => i - off \in 1..l /\ (i - off) + off = i
      BY <1>1, <2>3
    <2> QED
      BY <2>2, <2>3, <2>4, <2>5
  <1> HIDE DEF off
  <1>10. \A i \in 1..l : d[i] \in W /\ Cardinality(Later(W, d[i])) = l - i
    <2> TAKE i \in 1..l
    <2>1. i + off \in 1..(L + 1) /\ d[i] = g[i + off] /\ (L + 1) - (i + off) = l - i
      BY <1>9
    <2> QED
      BY <1>8, <2>1
  <1>11. \A b \in W : (\E i \in 1..l : d[i] = b) \/ Cardinality(Later(W, b)) >= ZoneCap
    <2> TAKE b \in W
    <2>1. CASE \E i \in 1..(L + 1) : g[i] = b
      <3>1. PICK i \in 1..(L + 1) : g[i] = b
        BY <2>1
      <3>2. CASE i > off
        <4>1. i - off \in 1..l /\ (i - off) + off = i
          BY <1>9, <3>2
        <4>2. d[i - off] = g[i]
          BY <1>9, <4>1
        <4> QED
          BY <3>1, <4>1, <4>2
      <3>3. CASE ~(i > off)
        <4>1. l = ZoneCap /\ (L + 1) - i >= l
          BY <1>1, <1>9, <3>3
        <4> QED
          BY <1>8, <3>1, <4>1
      <3> QED
        BY <3>2, <3>3
    <2>2. CASE ~\E i \in 1..(L + 1) : g[i] = b
      <3>1. L + 1 \in 1..(L + 1) /\ \A i \in 1..L : i \in 1..(L + 1)
        BY <1>1
      <3>2. b # x /\ ~\E i \in 1..L : q[i] = b
        BY <1>6, <2>2, <3>1
      <3>3. b \in B
        BY <3>2 DEF W
      <3>4. Cardinality(Later(B, b)) >= ZoneCap
        BY <3>2, <3>3 DEF Enumerates, L
      <3> QED
        BY <1>1, <1>4, <3>3, <3>4
    <2> QED
      BY <2>1, <2>2
  <1> QED
    BY <1>3, <1>7, <1>9, <1>10, <1>11 DEF Enumerates, l, W, d, g

-----------------------------------------------------------------------------
(***************************************************************************)
(* A zone keeps what it was born with, and is active as long as no bar has  *)
(* reached its edge.  Blocks and gaps are written once.                     *)
(***************************************************************************)
Births(kind, h) == IF kind = "BLOCK" THEN BlockBirths(h) ELSE GapBirths(h)

ZoneAt(kind, h, b) == IF kind = "BLOCK" THEN BlockAt(h, b) ELSE GapAt(h, b)

EdgeOf(kind, h, b) == IF kind = "BLOCK" THEN BlockEdge(h, b) ELSE GapEdge(h, b)

Born(kind, h, dir) ==
    IF kind = "BLOCK" THEN RefBlockBar(h, dir) # {} ELSE RefIsGap(h, dir)

\* No bar up to n has reached the edge of a zone.
ClearTo(h, b, edge, n) == \A k \in b[1]..n : Facing(b[2], h[k]).low > edge

ZoneIs(kind, z, h, b, n) ==
    z = [ZoneAt(kind, h, b) EXCEPT !.active = ClearTo(h, b, EdgeOf(kind, h, b), n)]

ZonesAre(kind, zones, h, B, n) ==
    \E q : /\ Enumerates(q, B) /\ Len(q) = Len(zones)
           /\ \A i \in 1..Len(q) : ZoneIs(kind, zones[i], h, q[i], n)

\* The bars that decide about a birth.
LEMMA BirthBars ==
    ASSUME NEW kind, NEW h \in Seq(Candle), NEW b \in Births(kind, h)
    PROVE  /\ b \in (1..Len(h)) \X Directions /\ b \in Birth
           /\ b[1] \in 1..Len(h) /\ b[2] \in Directions
           /\ kind = "BLOCK" => BlockBar(h, b) \in 1..Len(h)
           /\ kind # "BLOCK" =>
                /\ b[1] - 1 \in 1..Len(h) /\ b[1] - 2 \in 1..Len(h)
                /\ Facing(b[2], h[b[1] - 2]).high < Facing(b[2], h[b[1]]).low
  <1>1. Len(h) \in Nat
    OBVIOUS
  <1>2. b \in (1..Len(h)) \X Directions
    BY DEF Births, BlockBirths, GapBirths
  <1>3. b \in Birth /\ b[1] \in 1..Len(h) /\ b[2] \in Directions
    BY <1>1, <1>2 DEF Birth
  <1>4. kind = "BLOCK" => BlockBar(h, b) \in 1..Len(h)
    BY <1>2, BlockBarIs DEF Births, BlockBirths
  <1>5. ASSUME kind # "BLOCK"
        PROVE  /\ b[1] - 1 \in 1..Len(h) /\ b[1] - 2 \in 1..Len(h)
               /\ Facing(b[2], h[b[1] - 2]).high < Facing(b[2], h[b[1]]).low
    <2> DEFINE g == UpTo(h, b[1])
               n == b[1]
    <2>1. RefIsGap(g, b[2])
      BY <1>5 DEF Births, GapBirths
    <2>2. Len(g) = n /\ \A i \in 1..n : g[i] = h[i]
      <3>1. n \in 0..Len(h) /\ g = UpTo(h, n)
        BY <1>1, <1>3
      <3> HIDE DEF g, n
      <3>2. Len(UpTo(h, n)) = n /\ \A i \in 1..n : UpTo(h, n)[i] = h[i]
        BY <3>1, PrefixIs, Zenon
      <3> QED
        BY <3>1, <3>2
    <2> HIDE DEF g, n
    <2>3. n >= 3 /\ Facing(b[2], g[n]).low - Facing(b[2], g[n - 2]).high > 0
      BY <2>1, <2>2 DEF RefIsGap
    <2>4. n \in 1..n /\ n - 2 \in 1..n /\ n \in 1..Len(h) /\ n - 1 \in 1..Len(h)
          /\ n - 2 \in 1..Len(h)
      BY <1>1, <1>3, <2>3 DEF n
    <2>5. Facing(b[2], h[n]).low - Facing(b[2], h[n - 2]).high > 0
      BY <2>2, <2>3, <2>4
    <2>6. Facing(b[2], h[n]).low \in Int /\ Facing(b[2], h[n - 2]).high \in Int
      BY <1>3, <2>4, HighType
    <2>7. Facing(b[2], h[n - 2]).high < Facing(b[2], h[n]).low
      BY <2>5, <2>6
    <2> QED
      BY <2>4, <2>7 DEF n
  <1> QED
    BY <1>2, <1>3, <1>4, <1>5

\* What a zone is born with, and which of its edges ends it.
LEMMA ZoneBorn ==
    ASSUME NEW kind \in {"BLOCK", "GAP"}, NEW h \in Seq(Candle), NEW b \in Births(kind, h)
    PROVE  LET z == ZoneAt(kind, h, b)
               e == EdgeOf(kind, h, b)
           IN  /\ z \in ZoneRecord /\ z.dir = b[2] /\ z.active
               /\ z.ts = IF kind = "BLOCK" THEN h[BlockBar(h, b)].ts ELSE h[b[1] - 1].ts
               /\ kind = "BLOCK" => e = IF b[2] = "BULLISH" THEN z.high ELSE -z.low
               /\ kind = "GAP" => e = IF b[2] = "BULLISH" THEN z.low ELSE -z.high
  <1> DEFINE d == b[2]
             z == ZoneAt(kind, h, b)
             e == EdgeOf(kind, h, b)
  <1>1. /\ b[1] \in 1..Len(h) /\ d \in Directions
        /\ kind = "BLOCK" => BlockBar(h, b) \in 1..Len(h)
        /\ kind # "BLOCK" =>
             /\ b[1] - 1 \in 1..Len(h) /\ b[1] - 2 \in 1..Len(h)
             /\ Facing(d, h[b[1] - 2]).high < Facing(d, h[b[1]]).low
    BY BirthBars
  <1>2. CASE kind = "BLOCK"
    <2> DEFINE ob == h[BlockBar(h, b)]
    <2>1. ob \in Candle
      BY <1>1, <1>2, ElementOfSeq
    <2>2. z = Zone(d, Min({ob.open, ob.close}), Max({ob.open, ob.close}), ob.ts)
      BY <1>2 DEF ZoneAt, BlockAt
    <2>3. e = Max({Facing(d, ob).open, Facing(d, ob).close})
      BY <1>2 DEF EdgeOf, BlockEdge
    <2> HIDE DEF ob, z, e, d
    <2>4. ob.open \in Price /\ ob.close \in Price /\ ob.ts \in Nat
      BY <2>1, PriceType
    <2>5. z \in ZoneRecord
      BY <1>1, <2>2, <2>4, ZoneType
    <2>6. /\ z.dir = d /\ z.active /\ z.ts = ob.ts
          /\ z.low = Min({ob.open, ob.close}) /\ z.high = Max({ob.open, ob.close})
      BY <2>2 DEF Zone
    <2>7. /\ Facing(d, ob).open = Level(d, ob.open) /\ Facing(d, ob).close = Level(d, ob.close)
      BY <1>1, <2>1, FacingPrices
    <2>8. e = IF d = "BULLISH" THEN z.high ELSE -z.low
      <3>1. CASE d = "BULLISH"
        BY <2>3, <2>6, <2>7, <3>1 DEF Level
      <3>2. CASE d # "BULLISH"
        <4>1. e = Max({-ob.open, -ob.close})
          BY <1>1, <2>3, <2>7, <3>2 DEF Level, Directions
        <4>2. Max({-ob.open, -ob.close}) = IF -ob.open >= -ob.close THEN -ob.open ELSE -ob.close
          BY <2>4, MaxOfTwo DEF Price
        <4>3. Min({ob.open, ob.close}) = IF ob.open <= ob.close THEN ob.open ELSE ob.close
          BY <2>4, MinOfTwo DEF Price
        <4> QED
          BY <2>4, <2>6, <3>2, <4>1, <4>2, <4>3 DEF Price
      <3> QED
        BY <3>1, <3>2
    <2> QED
      BY <1>2, <2>5, <2>6, <2>8 DEF ob, z, e, d
  <1>3. CASE kind = "GAP"
    <2> DEFINE p == h[b[1] - 2]
               r == h[b[1]]
               x == Level(d, Facing(d, p).high)
               y == Level(d, Facing(d, r).low)
               ts == h[b[1] - 1].ts
    <2>1. p \in Candle /\ r \in Candle /\ ts \in Nat
      BY <1>1, <1>3, ElementOfSeq, PriceType
    <2>2. z = Zone(d, Min({x, y}), Max({x, y}), ts)
      BY <1>3 DEF ZoneAt, GapAt
    <2>3. e = Facing(d, p).high /\ Facing(d, p).high < Facing(d, r).low
      BY <1>1, <1>3 DEF EdgeOf, GapEdge
    <2>4. z.ts = ts
      BY <2>2 DEF Zone
    <2> HIDE DEF p, r, z, e, d, ts
    <2>5. /\ p.low \in Price /\ p.high \in Price /\ r.low \in Price /\ r.high \in Price
          /\ Facing(d, p).high = IF d = "BULLISH" THEN p.high ELSE -p.low
          /\ Facing(d, r).low = IF d = "BULLISH" THEN r.low ELSE -r.high
      BY <1>1, <2>1, PriceType, FacingPrices DEF Directions, Sides
    <2>6. /\ x = IF d = "BULLISH" THEN p.high ELSE p.low
          /\ y = IF d = "BULLISH" THEN r.low ELSE r.high
          /\ x \in Price /\ y \in Price
          /\ (IF d = "BULLISH" THEN x < y ELSE y < x)
      BY <1>1, <2>3, <2>5 DEF Level, Price, Directions
    <2>7. e = IF d = "BULLISH" THEN x ELSE -x
      BY <2>3, <2>5, <2>6
    <2> HIDE DEF x, y
    <2>8. z \in ZoneRecord
      BY <1>1, <2>1, <2>2, <2>6, ZoneType
    <2>9. /\ z.dir = d /\ z.active /\ z.low = Min({x, y}) /\ z.high = Max({x, y})
      BY <2>2 DEF Zone
    <2>10. /\ Min({x, y}) = IF x <= y THEN x ELSE y
           /\ Max({x, y}) = IF x >= y THEN x ELSE y
      BY <2>6, MinOfTwo, MaxOfTwo DEF Price
    <2>11. e = IF d = "BULLISH" THEN z.low ELSE -z.high
      <3>1. x \in Int /\ y \in Int /\ z.low = Min({x, y}) /\ z.high = Max({x, y})
        BY <2>6, <2>9 DEF Price
      <3>2. CASE d = "BULLISH"
        <4>1. Min({x, y}) = x
          BY <2>6, <2>10, <3>1, <3>2
        <4> QED
          BY <2>7, <3>1, <3>2, <4>1
      <3>3. CASE d # "BULLISH"
        <4>1. Max({x, y}) = x
          BY <2>6, <2>10, <3>1, <3>3
        <4> QED
          BY <2>7, <3>1, <3>3, <4>1
      <3> QED
        BY <3>2, <3>3
    <2> QED
      BY <1>3, <2>4, <2>8, <2>9, <2>11 DEF z, e, d, ts
  <1> QED
    BY <1>2, <1>3

\* A later bar changes nothing about an earlier birth.
LEMMA BirthStays ==
    ASSUME NEW kind \in {"BLOCK", "GAP"}, NEW h \in Seq(Candle), NEW c \in Candle,
           NEW b \in Births(kind, h)
    PROVE  /\ ZoneAt(kind, Append(h, c), b) = ZoneAt(kind, h, b)
           /\ EdgeOf(kind, Append(h, c), b) = EdgeOf(kind, h, b)
           /\ \A edge : ClearTo(Append(h, c), b, edge, Len(h)) = ClearTo(h, b, edge, Len(h))
  <1> DEFINE g == Append(h, c)
  <1>1. Len(h) \in Nat /\ \A i \in 1..Len(h) : g[i] = h[i]
    BY AppendProperties
  <1>2. /\ b[1] \in 1..Len(h)
        /\ kind = "BLOCK" => BlockBar(h, b) \in 1..Len(h)
        /\ kind # "BLOCK" => b[1] - 1 \in 1..Len(h) /\ b[1] - 2 \in 1..Len(h)
    BY BirthBars
  <1>3. UpTo(g, b[1]) = UpTo(h, b[1])
    BY <1>2, PrefixOfAppend
  <1> HIDE DEF g
  <1>4. BlockBar(g, b) = BlockBar(h, b)
    BY <1>3 DEF BlockBar
  <1>5. \A edge : ClearTo(g, b, edge, Len(h)) = ClearTo(h, b, edge, Len(h))
    <2>1. \A k \in b[1]..Len(h) : k \in 1..Len(h)
      BY <1>1, <1>2
    <2>2. \A k \in b[1]..Len(h) : g[k] = h[k]
      BY <1>1, <2>1
    <2> QED
      BY <2>2 DEF ClearTo
  <1>6. CASE kind = "BLOCK"
    <2>1. g[BlockBar(g, b)] = h[BlockBar(h, b)]
      BY <1>1, <1>2, <1>4, <1>6
    <2> QED
      BY <1>5, <1>6, <2>1 DEF ZoneAt, EdgeOf, BlockAt, BlockEdge, g
  <1>7. CASE kind # "BLOCK"
    <2>1. g[b[1]] = h[b[1]] /\ g[b[1] - 1] = h[b[1] - 1] /\ g[b[1] - 2] = h[b[1] - 2]
      BY <1>1, <1>2, <1>7
    <2> QED
      BY <1>5, <1>7, <2>1 DEF ZoneAt, EdgeOf, GapAt, GapEdge, g
  <1> QED
    BY <1>6, <1>7

LEMMA BirthsGrow ==
    ASSUME NEW kind \in {"BLOCK", "GAP"}, NEW h \in Seq(Candle), NEW c \in Candle
    PROVE  Births(kind, Append(h, c))
             = Births(kind, h)
                 \cup {<<Len(h) + 1, d>> : d \in {e \in Directions : Born(kind, Append(h, c), e)}}
  <1> DEFINE g == Append(h, c)
             N == Len(h)
  <1>1. g \in Seq(Candle) /\ Len(g) = N + 1 /\ N \in Nat
    BY AppendProperties
  <1>2. UpTo(g, N + 1) = g
    BY <1>1, PrefixWhole
  <1>3. \A n \in 1..N : UpTo(g, n) = UpTo(h, n)
    BY PrefixOfAppend
  <1>4. \A n \in 1..(N + 1) : n = N + 1 \/ n \in 1..N
    BY <1>1
  <1>5. N + 1 \in 1..(N + 1) /\ \A n \in 1..N : n \in 1..(N + 1)
    BY <1>1
  <1> HIDE DEF g, N
  <1>6. \A q : q \in Births(kind, g) <=> \/ q \in Births(kind, h)
                                         \/ \E d \in Directions : Born(kind, g, d) /\ q = <<N + 1, d>>
    <2> TAKE q
    <2>1. q \in Births(kind, g) <=> \E n \in 1..(N + 1), d \in Directions :
                                      q = <<n, d>> /\ Born(kind, UpTo(g, n), d)
      BY <1>1 DEF Births, BlockBirths, GapBirths, Born
    <2>2. q \in Births(kind, h) <=> \E n \in 1..N, d \in Directions :
                                      q = <<n, d>> /\ Born(kind, UpTo(h, n), d)
      BY DEF Births, BlockBirths, GapBirths, Born, N
    <2> QED
      BY <1>2, <1>3, <1>4, <1>5, <2>1, <2>2
  <1> QED
    BY <1>6 DEF g, N

\* One bar may bring one zone, which the deque takes.
LEMMA ZonesGrow ==
    ASSUME NEW kind \in {"BLOCK", "GAP"}, NEW h \in Seq(Candle), NEW c \in Candle,
           NEW zones \in Seq(ZoneRecord), NEW new,
           ZonesAre(kind, zones, h, Births(kind, h), Len(h)),
           \/ /\ \A d \in Directions : ~Born(kind, Append(h, c), d)
              /\ new = zones
           \/ \E dir \in Directions :
                /\ \A d \in Directions : Born(kind, Append(h, c), d) <=> d = dir
                /\ new = Keep(Append(zones, ZoneAt(kind, Append(h, c), <<Len(h) + 1, dir>>)),
                              ZoneCap)
    PROVE  ZonesAre(kind, new, Append(h, c), Births(kind, Append(h, c)), Len(h))
  <1> DEFINE g == Append(h, c)
             N == Len(h)
             B == Births(kind, h)
  <1>1. PICK q : /\ Enumerates(q, B) /\ Len(q) = Len(zones)
                 /\ \A i \in 1..Len(q) : ZoneIs(kind, zones[i], h, q[i], N)
    BY DEF ZonesAre
  <1> DEFINE L == Len(q)
  <1>2. /\ q \in Seq(Birth) /\ L \in Nat /\ Len(zones) = L /\ \A i \in 1..L : q[i] \in B
    BY <1>1 DEF Enumerates
  <1>3. g \in Seq(Candle) /\ Len(g) = N + 1 /\ N \in Nat /\ g # <<>>
    BY AppendProperties
  <1>4. \A i \in 1..L : ZoneIs(kind, zones[i], g, q[i], N)
    BY <1>1, <1>2, BirthStays DEF ZoneIs
  <1>5. Births(kind, g) = B \cup {<<N + 1, d>> : d \in {e \in Directions : Born(kind, g, e)}}
    BY BirthsGrow
  <1>6. \A b \in B : b[1] < N + 1
    BY <1>3, BirthBars
  <1>7. CASE (\A d \in Directions : ~Born(kind, g, d)) /\ new = zones
    <2>1. Births(kind, g) = B
      BY <1>5, <1>7
    <2> QED
      BY <1>1, <1>4, <1>7, <2>1 DEF ZonesAre
  <1>8. ASSUME NEW dir \in Directions, \A d \in Directions : Born(kind, g, d) <=> d = dir,
               new = Keep(Append(zones, ZoneAt(kind, g, <<N + 1, dir>>)), ZoneCap)
        PROVE  ZonesAre(kind, new, g, Births(kind, g), N)
    <2> DEFINE x == <<N + 1, dir>>
               z == ZoneAt(kind, g, x)
               q1 == Append(q, x)
               z1 == Append(zones, z)
    <2>1. x \in Birth /\ x[1] = N + 1 /\ Births(kind, g) = B \cup {x} /\ x \in Births(kind, g)
      BY <1>3, <1>5, <1>8 DEF Birth
    <2> HIDE DEF x, g, N, B
    <2>2. Enumerates(Keep(q1, ZoneCap), B \cup {x})
      BY <1>1, <1>6, <2>1, BirthKept
    <2>3. z \in ZoneRecord /\ z.active
      BY <1>3, <2>1, ZoneBorn
    <2>4. ClearTo(g, x, EdgeOf(kind, g, x), N) = TRUE
      <3>1. ~\E k \in x[1]..N : TRUE
        BY <1>3, <2>1
      <3> QED
        BY <3>1 DEF ClearTo
    <2>5. ZoneIs(kind, z, g, x, N)
      <3>1. z = [z EXCEPT !.active = TRUE]
        BY <2>3 DEF ZoneRecord
      <3> QED
        BY <2>4, <3>1 DEF ZoneIs
    <2>6. /\ q1 \in Seq(Birth) /\ Len(q1) = L + 1 /\ q1[L + 1] = x
          /\ \A i \in 1..L : q1[i] = q[i]
      BY <1>2, <2>1, AppendProperties
    <2>7. /\ z1 \in Seq(ZoneRecord) /\ Len(z1) = L + 1 /\ z1[L + 1] = z
          /\ \A i \in 1..L : z1[i] = zones[i]
      BY <1>2, <2>3, AppendProperties
    <2> HIDE DEF q1, z1, z, L
    <2>8. \A i \in 1..(L + 1) : ZoneIs(kind, z1[i], g, q1[i], N)
      <3> TAKE i \in 1..(L + 1)
      <3>1. i = L + 1 \/ i \in 1..L
        BY <1>2
      <3> QED
        BY <1>4, <2>5, <2>6, <2>7, <3>1
    <2> DEFINE q2 == Keep(q1, ZoneCap)
               z2 == Keep(z1, ZoneCap)
    <2>9. ZoneCap \in Nat \ {0}
      BY StructureAssumption DEF StructureAssumption
    <2>10. /\ Len(q2) = IF Len(q1) <= ZoneCap THEN Len(q1) ELSE ZoneCap
           /\ \A i \in 1..Len(q2) : q2[i] = q1[i + (Len(q1) - Len(q2))]
      BY <2>6, <2>9, KeepIs, Zenon
    <2>11. /\ Len(z2) = IF Len(z1) <= ZoneCap THEN Len(z1) ELSE ZoneCap
           /\ \A i \in 1..Len(z2) : z2[i] = z1[i + (Len(z1) - Len(z2))]
      BY <2>7, <2>9, KeepIs, Zenon
    <2>12. q2 \in Seq(Birth) /\ Len(q2) \in Nat
      <3>1. q2 \in Seq(Birth)
        BY <2>6, <2>9, KeepIs
      <3> QED
        BY <3>1
    <2> HIDE DEF q2, z2
    <2>13. Len(q2) = Len(z2) /\ Len(q2) <= L + 1
      BY <1>2, <2>6, <2>7, <2>9, <2>10, <2>11
    <2>14. \A i \in 1..Len(q2) : ZoneIs(kind, z2[i], g, q2[i], N)
      <3> TAKE i \in 1..Len(q2)
      <3> DEFINE j == i + ((L + 1) - Len(q2))
      <3>1. j \in 1..(L + 1)
        BY <1>2, <2>12, <2>13
      <3>2. q2[i] = q1[j]
        BY <2>6, <2>10
      <3>3. z2[i] = z1[j]
        BY <2>7, <2>11, <2>13
      <3> HIDE DEF j
      <3> QED
        BY <2>8, <3>1, <3>2, <3>3
    <2>15. new = z2
      BY <1>8 DEF z2, z1, z, x, g, N
    <2> QED
      BY <2>1, <2>2, <2>13, <2>14, <2>15 DEF ZonesAre, q2
  <1> QED
    BY <1>7, <1>8

\* Whether a bar ends a zone, as _mitigate_obs and _fill_fvgs test it.
Ends(kind, z, c) == IF kind = "BLOCK" THEN TouchesBlock(z, c) ELSE FillsGap(z, c)

LEMMA ZoneFields ==
    ASSUME NEW kind \in {"BLOCK", "GAP"}, NEW h \in Seq(Candle), NEW b \in Births(kind, h),
           NEW z, NEW n, ZoneIs(kind, z, h, b, n)
    PROVE  /\ z.dir = b[2] /\ z.active = ClearTo(h, b, EdgeOf(kind, h, b), n)
           /\ z \in ZoneRecord /\ z.ts = ZoneAt(kind, h, b).ts
           /\ z.low = ZoneAt(kind, h, b).low /\ z.high = ZoneAt(kind, h, b).high
  <1> DEFINE y == ZoneAt(kind, h, b)
             clear == ClearTo(h, b, EdgeOf(kind, h, b), n)
  <1>1. y \in ZoneRecord /\ y.dir = b[2]
    BY ZoneBorn
  <1>2. clear \in BOOLEAN
    BY DEF ClearTo
  <1>3. z = [y EXCEPT !.active = clear]
    BY DEF ZoneIs
  <1> HIDE DEF y, clear
  <1>4. /\ z \in ZoneRecord /\ z.dir = b[2] /\ z.active = clear
        /\ z.low = y.low /\ z.high = y.high /\ z.ts = y.ts
    BY <1>1, <1>2, <1>3 DEF ZoneRecord
  <1> QED
    BY <1>4 DEF y, clear

LEMMA EndsAtEdge ==
    ASSUME NEW kind \in {"BLOCK", "GAP"}, NEW h \in Seq(Candle), NEW b \in Births(kind, h),
           NEW z, NEW c \in Candle, NEW n, ZoneIs(kind, z, h, b, n)
    PROVE  /\ z.dir = b[2] /\ z.active = ClearTo(h, b, EdgeOf(kind, h, b), n)
           /\ z \in ZoneRecord /\ z.ts = ZoneAt(kind, h, b).ts
           /\ Ends(kind, z, c) \in BOOLEAN
           /\ Ends(kind, z, c) <=> ~(Facing(b[2], c).low > EdgeOf(kind, h, b))
  <1> DEFINE y == ZoneAt(kind, h, b)
             e == EdgeOf(kind, h, b)
             clear == ClearTo(h, b, e, n)
  <1>1. /\ y \in ZoneRecord /\ y.dir = b[2]
        /\ kind = "BLOCK" => e = IF b[2] = "BULLISH" THEN y.high ELSE -y.low
        /\ kind = "GAP" => e = IF b[2] = "BULLISH" THEN y.low ELSE -y.high
    BY ZoneBorn
  <1>2. clear \in BOOLEAN
    BY DEF ClearTo
  <1>3. z = [y EXCEPT !.active = clear]
    BY DEF ZoneIs
  <1>4. b[2] \in Directions
    BY BirthBars
  <1> HIDE DEF y, e, clear
  <1>5. /\ z \in ZoneRecord /\ z.dir = b[2] /\ z.active = clear
        /\ z.low = y.low /\ z.high = y.high /\ z.ts = y.ts
    BY <1>1, <1>2, <1>3 DEF ZoneRecord
  <1>6. /\ z.low \in Int /\ z.high \in Int
    BY <1>5 DEF ZoneRecord, Price
  <1>7. c.low \in Int /\ c.high \in Int
    BY PriceType DEF Price
  <1>8. Facing(b[2], c).low = IF b[2] = "BULLISH" THEN c.low ELSE -c.high
    BY <1>4, FacingPrices DEF Directions, Sides
  <1>9. ASSUME b[2] = "BULLISH"
        PROVE  Ends(kind, z, c) \in BOOLEAN /\ (Ends(kind, z, c) <=> ~(Facing(b[2], c).low > e))
    <2>1. Ends(kind, z, c) = (c.low <= e)
      BY <1>1, <1>5, <1>9 DEF Ends, TouchesBlock, FillsGap
    <2>2. e \in Int
      BY <1>1, <1>5, <1>6, <1>9
    <2>3. (c.low <= e) \in BOOLEAN /\ (c.low <= e <=> ~(c.low > e))
      BY <1>7, <2>2
    <2> QED
      BY <1>8, <1>9, <2>1, <2>3
  <1>10. ASSUME b[2] # "BULLISH"
         PROVE  Ends(kind, z, c) \in BOOLEAN /\ (Ends(kind, z, c) <=> ~(Facing(b[2], c).low > e))
    <2>1. Ends(kind, z, c) = (c.high >= -e)
      <3>1. kind = "BLOCK" => Ends(kind, z, c) = (c.high >= z.low) /\ e = -z.low
        BY <1>1, <1>5, <1>10 DEF Ends, TouchesBlock
      <3>2. kind = "GAP" => Ends(kind, z, c) = (c.high >= z.high) /\ e = -z.high
        BY <1>1, <1>5, <1>10 DEF Ends, FillsGap
      <3> QED
        BY <1>6, <3>1, <3>2
    <2>2. e \in Int
      BY <1>1, <1>5, <1>6, <1>10
    <2>3. (c.high >= -e) \in BOOLEAN /\ (c.high >= -e <=> ~(-c.high > e))
      BY <1>7, <2>2
    <2> QED
      BY <1>8, <1>10, <2>1, <2>3
  <1>11. Ends(kind, z, c) \in BOOLEAN /\ (Ends(kind, z, c) <=> ~(Facing(b[2], c).low > e))
    BY <1>9, <1>10
  <1> QED
    BY <1>5, <1>11 DEF y, e, clear

\* A bar ends the zones it reaches and no other.
LEMMA ZonesMarked ==
    ASSUME NEW kind \in {"BLOCK", "GAP"}, NEW h \in Seq(Candle), h # <<>>,
           NEW zones, NEW new, Len(new) = Len(zones),
           ZonesAre(kind, zones, h, Births(kind, h), Len(h) - 1),
           \A i \in 1..Len(zones) :
             new[i] = [zones[i] EXCEPT !.active = @ /\ ~Ends(kind, zones[i], h[Len(h)])]
    PROVE  ZonesAre(kind, new, h, Births(kind, h), Len(h))
  <1> DEFINE N == Len(h)
             c == h[N]
             B == Births(kind, h)
  <1>1. PICK q : /\ Enumerates(q, B) /\ Len(q) = Len(zones)
                 /\ \A i \in 1..Len(q) : ZoneIs(kind, zones[i], h, q[i], N - 1)
    BY DEF ZonesAre
  <1>2. N \in Nat /\ N >= 1 /\ N \in 1..N /\ c \in Candle
    <2>1. N \in Nat /\ N >= 1 /\ N \in 1..N
      OBVIOUS
    <2> QED
      BY <2>1, ElementOfSeq
  <1>3. ASSUME NEW i \in 1..Len(q) PROVE ZoneIs(kind, new[i], h, q[i], N)
    <2> DEFINE b == q[i]
               z == zones[i]
               e == EdgeOf(kind, h, b)
               y == ZoneAt(kind, h, b)
               hit == Ends(kind, z, c)
               was == ClearTo(h, b, e, N - 1)
               is == ClearTo(h, b, e, N)
    <2>1. b \in B /\ ZoneIs(kind, z, h, b, N - 1)
      BY <1>1 DEF Enumerates
    <2>2. /\ z.active = was /\ hit \in BOOLEAN /\ (hit <=> ~(Facing(b[2], c).low > e))
          /\ z \in ZoneRecord
      BY <1>2, <2>1, EndsAtEdge
    <2>3. b[1] \in 1..N
      BY <2>1, BirthBars
    <2>4. is <=> was /\ ~hit
      <3>1. \A k : k \in b[1]..N <=> k \in b[1]..(N - 1) \/ k = N
        BY <1>2, <2>3
      <3> HIDE DEF N, b, e, hit
      <3> QED
        BY <2>2, <3>1 DEF ClearTo
    <2>5. is \in BOOLEAN /\ was \in BOOLEAN
      BY DEF ClearTo
    <2>6. new[i] = [z EXCEPT !.active = @ /\ ~hit]
      BY <1>1
    <2>7. z = [y EXCEPT !.active = was]
      BY <2>1 DEF ZoneIs
    <2>8. y \in ZoneRecord
      BY <2>1, ZoneBorn
    <2> HIDE DEF is, was, hit, z, y
    <2>9. new[i] = [z EXCEPT !.active = is]
      <3>1. (z.active /\ ~hit) = is
        BY <2>2, <2>4, <2>5
      <3> QED
        BY <2>6, <3>1
    <2>10. [[y EXCEPT !.active = was] EXCEPT !.active = is] = [y EXCEPT !.active = is]
      BY <2>8 DEF ZoneRecord
    <2>11. new[i] = [y EXCEPT !.active = is]
      BY <2>7, <2>9, <2>10
    <2> QED
      BY <2>11 DEF ZoneIs, y, is
  <1> QED
    BY <1>1, <1>3 DEF ZonesAre

LEMMA ActiveAre ==
    ASSUME NEW kind \in {"BLOCK", "GAP"}, NEW h \in Seq(Candle), NEW zones \in Seq(ZoneRecord),
           ZonesAre(kind, zones, h, Births(kind, h), Len(h))
    PROVE  ActiveZones(zones)
             = {<<ZoneAt(kind, h, b).ts, b[2]>> :
                  b \in {x \in Newest(Births(kind, h)) : Unreached(h, x, EdgeOf(kind, h, x))}}
  <1> DEFINE B == Births(kind, h)
             N == Len(h)
             Live == {x \in Newest(B) : Unreached(h, x, EdgeOf(kind, h, x))}
  <1>1. PICK q : /\ Enumerates(q, B) /\ Len(q) = Len(zones)
                 /\ \A i \in 1..Len(q) : ZoneIs(kind, zones[i], h, q[i], N)
    BY DEF ZonesAre
  <1> DEFINE L == Len(q)
  <1>2. Newest(B) = {q[i] : i \in 1..L} /\ DOMAIN zones = 1..L /\ \A i \in 1..L : q[i] \in B
    <2>1. DOMAIN zones = 1..L
      BY <1>1
    <2>2. Newest(B) = {q[i] : i \in 1..L}
      BY <1>1, NewestAre
    <2> QED
      BY <1>1, <2>1, <2>2 DEF Enumerates
  <1>3. ASSUME NEW i \in 1..L
        PROVE  /\ zones[i].dir = q[i][2] /\ q[i][2] \in Directions
               /\ zones[i].ts = ZoneAt(kind, h, q[i]).ts
               /\ zones[i].active <=> q[i] \in Live
    <2>1. ZoneIs(kind, zones[i], h, q[i], N) /\ q[i] \in B /\ q[i] \in Newest(B)
      BY <1>1, <1>2
    <2>2. /\ zones[i].dir = q[i][2] /\ zones[i].ts = ZoneAt(kind, h, q[i]).ts
          /\ zones[i].active = ClearTo(h, q[i], EdgeOf(kind, h, q[i]), N)
      <3>1. q[i] \in Births(kind, h) /\ ZoneIs(kind, zones[i], h, q[i], Len(h))
        BY <2>1
      <3> HIDE DEF B, N
      <3>3. /\ zones[i].dir = q[i][2] /\ zones[i].ts = ZoneAt(kind, h, q[i]).ts
            /\ zones[i].active = ClearTo(h, q[i], EdgeOf(kind, h, q[i]), Len(h))
        <4>1. kind \in {"BLOCK", "GAP"} /\ h \in Seq(Candle)
          OBVIOUS
        <4> DEFINE b == q[i]
                   z == zones[i]
                   n == Len(h)
        <4>2. b \in Births(kind, h) /\ ZoneIs(kind, z, h, b, n)
          BY <3>1
        <4> HIDE DEF b, z, n
        <4>3. z.dir = b[2] /\ z.active = ClearTo(h, b, EdgeOf(kind, h, b), n)
          BY <4>1, <4>2, ZoneFields
        <4>4. z.ts = ZoneAt(kind, h, b).ts
          BY <4>1, <4>2, ZoneFields
        <4> QED
          BY <4>3, <4>4 DEF b, z, n
      <3> QED
        BY <3>3 DEF N
    <2>3. q[i][2] \in Directions
      BY <2>1, BirthBars
    <2>4. ClearTo(h, q[i], EdgeOf(kind, h, q[i]), N) <=> q[i] \in Live
      BY <2>1 DEF ClearTo, Unreached
    <2> QED
      BY <2>2, <2>3, <2>4
  <1> DEFINE Actives == UNION {Active(zones, dir) : dir \in Directions}
  <1> HIDE DEF L, B, N, Live
  <1>4. \A z : z \in Actives <=> \E i \in 1..L : z = zones[i] /\ q[i] \in Live
    <2> TAKE z
    <2>1. z \in Actives <=> \E i \in 1..L : z = zones[i] /\ z.active /\ z.dir \in Directions
      BY <1>2 DEF Active
    <2> QED
      BY <1>3, <2>1
  <1>5. \A b \in Live : \E i \in 1..L : q[i] = b
    BY <1>2 DEF Live
  <1>6. ActiveZones(zones) = {<<z.ts, z.dir>> : z \in Actives}
    BY DEF ActiveZones
  <1> HIDE DEF Actives
  <1>7. \A x : x \in ActiveZones(zones)
                 <=> \E b \in Live : x = <<ZoneAt(kind, h, b).ts, b[2]>>
    <2> TAKE x
    <2>1. x \in ActiveZones(zones) <=> \E z \in Actives : x = <<z.ts, z.dir>>
      BY <1>6
    <2>2. ASSUME NEW z \in Actives, x = <<z.ts, z.dir>>
          PROVE  \E b \in Live : x = <<ZoneAt(kind, h, b).ts, b[2]>>
      <3>1. PICK i \in 1..L : z = zones[i] /\ q[i] \in Live
        BY <1>4, <2>2
      <3> QED
        BY <1>3, <2>2, <3>1
    <2>3. ASSUME NEW b \in Live, x = <<ZoneAt(kind, h, b).ts, b[2]>>
          PROVE  \E z \in Actives : x = <<z.ts, z.dir>>
      <3>1. PICK i \in 1..L : q[i] = b
        BY <1>5
      <3>2. zones[i] \in Actives
        BY <1>4, <3>1
      <3> QED
        BY <1>3, <2>3, <3>1, <3>2
    <2> QED
      BY <2>1, <2>2, <2>3
  <1>8. \A x : x \in {<<ZoneAt(kind, h, b).ts, b[2]>> : b \in Live}
                 <=> \E b \in Live : x = <<ZoneAt(kind, h, b).ts, b[2]>>
    OBVIOUS
  <1>9. ActiveZones(zones) = {<<ZoneAt(kind, h, b).ts, b[2]>> : b \in Live}
    BY <1>7, <1>8
  <1> QED
    BY <1>9 DEF Live, B

-----------------------------------------------------------------------------
(***************************************************************************)
(* The structure and the history it has seen.                               *)
(***************************************************************************)
\* As long as the bars came in order, the deques hold the end of the bars, their
\* newest pivots and their newest zones.
HistoryKept ==
    /\ SwingsAre(ms.swings, bars, PivotsOf(bars))
    /\ ZonesAre("BLOCK", ms.blocks, bars, Births("BLOCK", bars), Len(bars))
    /\ ZonesAre("GAP", ms.gaps, bars, Births("GAP", bars), Len(bars))

HistoryInv ==
    /\ ms.candles = Keep(bars, CandleCap)
    /\ InOrder(bars) => HistoryKept

\* The deque of swings has not lost every swing of a side.
SwingsRemembered ==
    \A side \in Sides : LatestSwing(ms, side) # {} \/ Len(ms.swings) < SwingCap

LEMMA BarsAreCandles ==
    ASSUME NEW h \in Seq(Bar)
    PROVE  h \in Seq(Candle)
  <1>1. Len(h) \in Nat /\ h \in [1..Len(h) -> Bar]
    BY LenProperties
  <1>2. h \in [1..Len(h) -> Candle]
    BY <1>1 DEF Bar
  <1> QED
    BY <1>1, <1>2, IsASeq

LEMMA BarTimes ==
    ASSUME NEW h \in Seq(Bar), NEW i \in 1..Len(h)
    PROVE  h[i].ts \in Nat
  <1>1. h[i] \in Bar
    BY ElementOfSeq
  <1>2. h[i] \in Candle
    BY <1>1 DEF Bar
  <1> QED
    BY <1>2 DEF Candle

LEMMA InitHistoryInv == Init => HistoryInv
  <1> SUFFICES ASSUME Init PROVE HistoryInv
    OBVIOUS
  <1>1. /\ bars = <<>> /\ ms.candles = <<>> /\ ms.swings = <<>>
        /\ ms.blocks = <<>> /\ ms.gaps = <<>>
    BY DEF Init, FreshStructure
  <1>2. Len(bars) = 0 /\ DOMAIN bars = {} /\ 1..Len(bars) = {}
    BY <1>1
  <1>3. ms.candles = Keep(bars, CandleCap)
    <2>1. CandleCap \in Nat
      BY StructureAssumption DEF StructureAssumption
    <2> QED
      BY <1>1, <1>2, <2>1 DEF Keep
  <1>4. PivotsOf(bars) = {} /\ BlockBirths(bars) = {} /\ GapBirths(bars) = {}
    BY <1>2 DEF PivotsOf, BlockBirths, GapBirths
  <1>5. SwingsAre(ms.swings, bars, PivotsOf(bars))
    BY <1>1, <1>4 DEF SwingsAre
  <1>6. \A kind : ZonesAre(kind, <<>>, bars, {}, Len(bars))
    <2> DEFINE q == <<>>
    <2>1. /\ q \in Seq(Birth) /\ Len(q) = 0 /\ Len(<<>>) = 0
      OBVIOUS
    <2>2. IsFiniteSet({}) /\ ZoneCap \in Nat
      BY FS_EmptySet, StructureAssumption DEF StructureAssumption
    <2> HIDE DEF q
    <2>3. Enumerates(q, {})
      BY <2>1, <2>2 DEF Enumerates
    <2> QED
      BY <2>1, <2>3 DEF ZonesAre
  <1>7. HistoryKept
    BY <1>1, <1>2, <1>4, <1>5, <1>6 DEF HistoryKept, Births
  <1> QED
    BY <1>3, <1>7 DEF HistoryInv

\* Bars in order are in order without the last.
LEMMA InOrderBefore ==
    ASSUME NEW h \in Seq(Candle), NEW c \in Candle, InOrder(Append(h, c))
    PROVE  InOrder(h)
  <1> DEFINE g == Append(h, c)
             N == Len(h)
  <1>1. /\ N \in Nat /\ DOMAIN g = 1..(N + 1) /\ \A i \in 1..N : g[i] = h[i]
        /\ DOMAIN h = 1..N
    BY AppendProperties
  <1>2. InOrder(g)
    OBVIOUS
  <1> HIDE DEF g
  <1> SUFFICES ASSUME NEW i \in 1..N, NEW j \in 1..N, i < j PROVE h[i].ts < h[j].ts
    BY <1>1 DEF InOrder
  <1>3. i \in DOMAIN g /\ j \in DOMAIN g /\ g[i] = h[i] /\ g[j] = h[j]
    BY <1>1
  <1> QED
    BY <1>2, <1>3 DEF InOrder

\* What a bar adds to the blocks is what the history with it adds.
LEMMA BlocksAfterBar ==
    ASSUME NEW h \in Seq(Candle), NEW c \in Candle, NEW cs, Enough(cs, Append(h, c)),
           NEW blocks \in Seq(ZoneRecord), ZonesAre("BLOCK", blocks, h, Births("BLOCK", h), Len(h)),
           NEW dir \in Trend, \A d \in Directions : RefBreaks(Append(h, c), d) <=> dir = d
    PROVE  ZonesAre("BLOCK", AddBlock(blocks, cs, dir), Append(h, c),
                    Births("BLOCK", Append(h, c)), Len(h))
  <1> DEFINE g == Append(h, c)
             N == Len(h)
             new == AddBlock(blocks, cs, dir)
  <1>1. g # <<>> /\ Len(g) = N + 1
    BY AppendProperties
  <1> HIDE DEF g
  <1>2. Enough(cs, g) /\ \A d \in Directions : RefBreaks(g, d) <=> dir = d
    BY DEF g
  <1>3. \A d \in Directions : RefBlockBar(g, d) # {} => d = dir
    BY <1>1, <1>2, BlockAdded
  <1>4. new = BlocksWith(blocks, g, dir)
    <2>1. \A x : AddBlock(x, cs, dir) = BlocksWith(x, g, dir)
      BY <1>1, <1>2, BlockAdded
    <2> QED
      BY <2>1
  <1> HIDE DEF new, N
  <1>5. \/ (\A d \in Directions : ~Born("BLOCK", g, d)) /\ new = blocks
        \/ \E x \in Directions :
             /\ \A d \in Directions : Born("BLOCK", g, d) <=> d = x
             /\ new = Keep(Append(blocks, ZoneAt("BLOCK", g, <<N + 1, x>>)), ZoneCap)
    <2>1. CASE dir \in Directions /\ RefBlockBar(g, dir) # {}
      BY <1>1, <1>3, <1>4, <2>1 DEF BlocksWith, Born, ZoneAt
    <2>2. CASE ~(dir \in Directions /\ RefBlockBar(g, dir) # {})
      BY <1>3, <1>4, <2>2 DEF BlocksWith, Born
    <2> QED
      BY <2>1, <2>2
  <1>6. ZonesAre("BLOCK", new, g, Births("BLOCK", g), N)
    BY <1>5, ZonesGrow DEF g, N
  <1> QED
    BY <1>6 DEF new, g, N

LEMMA GapsAfterBar ==
    ASSUME NEW h \in Seq(Bar), NEW c \in Bar, NEW cs, Enough(cs, Append(h, c)),
           NEW gaps \in Seq(ZoneRecord), ZonesAre("GAP", gaps, h, Births("GAP", h), Len(h))
    PROVE  ZonesAre("GAP", AddGaps(gaps, cs), Append(h, c), Births("GAP", Append(h, c)), Len(h))
  <1> DEFINE g == Append(h, c)
             N == Len(h)
             new == AddGaps(gaps, cs)
  <1>1. g # <<>> /\ Len(g) = N + 1 /\ g \in Seq(Bar)
    BY AppendProperties
  <1>2. h \in Seq(Candle) /\ c \in Candle
    BY BarsAreCandles DEF Bar
  <1> HIDE DEF g
  <1>3. Enough(cs, g)
    BY DEF g
  <1>4. \/ (\A d \in Directions : ~RefIsGap(g, d)) /\ new = gaps
        \/ \E x \in Directions :
             /\ \A d \in Directions : RefIsGap(g, d) <=> d = x
             /\ new = Keep(Append(gaps, GapAt(g, <<Len(g), x>>)), ZoneCap)
    BY <1>1, <1>3, GapsAdded
  <1> HIDE DEF new, N
  <1>5. \/ (\A d \in Directions : ~Born("GAP", g, d)) /\ new = gaps
        \/ \E x \in Directions :
             /\ \A d \in Directions : Born("GAP", g, d) <=> d = x
             /\ new = Keep(Append(gaps, ZoneAt("GAP", g, <<N + 1, x>>)), ZoneCap)
    BY <1>1, <1>4 DEF Born, ZoneAt
  <1>6. ZonesAre("GAP", new, g, Births("GAP", g), N)
    BY <1>2, <1>5, ZonesGrow DEF g, N
  <1> QED
    BY <1>6 DEF new, g, N

\* One more bar: what the structure makes of it is what the history says.
LEMMA StructureAfterBar ==
    ASSUME DequesSuffice, NEW m \in Structure, NEW h \in Seq(Bar), NEW c \in Bar,
           m.candles = Keep(h, CandleCap), InOrder(Append(h, c)),
           SwingsAre(m.swings, h, PivotsOf(h)),
           ZonesAre("BLOCK", m.blocks, h, Births("BLOCK", h), Len(h)),
           ZonesAre("GAP", m.gaps, h, Births("GAP", h), Len(h)),
           \A side \in Sides : \/ LatestSwing(Update(m, c), side) # {}
                               \/ Len(Update(m, c).swings) < SwingCap
    PROVE  LET g == Append(h, c)
               u == Update(m, c)
           IN  /\ SwingsAre(u.swings, g, PivotsOf(g))
               /\ ZonesAre("BLOCK", u.blocks, g, Births("BLOCK", g), Len(g))
               /\ ZonesAre("GAP", u.gaps, g, Births("GAP", g), Len(g))
  <1> DEFINE g == Append(h, c)
             u == Update(m, c)
             t == LtfTrack(m, c)
             cs == Kept(m, c)
             N == Len(h)
  <1>1. /\ c \in Candle /\ h \in Seq(Candle)
    BY BarsAreCandles DEF Bar
  <1>2. /\ g \in Seq(Bar) /\ g \in Seq(Candle) /\ Len(g) = N + 1 /\ N \in Nat
        /\ g[N + 1] = c /\ g # <<>> /\ Last(g) = c
    <2>1. /\ g \in Seq(Bar) /\ Len(g) = N + 1 /\ N \in Nat /\ g[N + 1] = c /\ g # <<>>
      BY AppendProperties
    <2>2. g \in Seq(Candle)
      BY <2>1, BarsAreCandles
    <2> QED
      BY <2>1, <2>2 DEF Last
  <1>3. Enough(cs, g) /\ cs = Keep(g, CandleCap)
    <2>1. CandleCap \in Nat \ {0}
      BY StructureAssumption DEF StructureAssumption
    <2>2. cs = Keep(g, CandleCap)
      BY <1>1, <2>1, KeepAgain DEF Kept
    <2> QED
      BY <1>2, <2>2, DequeEnough
  <1>4. /\ t \in Structure /\ t.candles = cs
        /\ t.swings = Tracked(m.swings, cs, SwingLookback, TRUE)
    BY <1>1, LtfTrackFields
  <1>5. /\ u \in Structure /\ u.swings = t.swings
        /\ u.blocks = MitigateObs(AddBlock(m.blocks, cs, BreakOf(t, c)), c)
        /\ u.gaps = FillFvgs(AddGaps(m.gaps, cs), c)
    <2>1. u \in Structure /\ u.swings = t.swings
      BY <1>1, UpdateFields
    <2>2. u.blocks = MitigateObs(AddBlock(m.blocks, t.candles, BreakOf(t, c)), c)
      BY <1>1, UpdateFields
    <2>3. u.gaps = FillFvgs(AddGaps(m.gaps, t.candles), c)
      BY <1>1, UpdateFields
    <2>4. t.candles = cs
      BY <1>4
    <2> HIDE DEF u, t, cs
    <2> QED
      BY <2>1, <2>2, <2>3, <2>4
  <1>6. /\ m.swings \in Seq(Swing) /\ m.blocks \in Seq(ZoneRecord) /\ m.gaps \in Seq(ZoneRecord)
        /\ t.swings \in Seq(Swing)
    BY <1>4 DEF Structure
  <1> HIDE DEF t, u, cs
  <1>7. SwingsAre(t.swings, g, PivotsOf(g))
    BY <1>1, <1>3, <1>4, <1>6, SwingsAfterBar
  <1>8. \A side \in Sides : LatestSwing(t, side) = {Level(side, x) : x \in RefSwing(g, side)}
    <2> TAKE side \in Sides
    <2>1. PivotsOf(g) \subseteq (SwingLookback + 1 .. Len(g)) \X Sides
      BY <1>2, PivotRoom
    <2>2. LatestSwing(u, side) = LatestSwing(t, side)
      BY <1>5, LatestSwingIs
    <2>3. LatestSwing(t, side) # {} \/ Len(t.swings) < SwingCap
      BY <1>5, <2>2 DEF u
    <2> HIDE DEF g
    <2>4. InOrder(g)
      BY DEF g
    <2> QED
      BY <1>2, <1>6, <1>7, <2>1, <2>3, <2>4, LatestIsPivot
  <1> DEFINE dir == BreakOf(t, c)
             b1 == AddBlock(m.blocks, cs, dir)
             g1 == AddGaps(m.gaps, cs)
  <1>9. dir \in Trend /\ \A d \in Directions : RefBreaks(g, d) <=> dir = d
    <2> HIDE DEF g
    <2> QED
      BY <1>2, <1>8, BreakIsRef
  <1> HIDE DEF dir, N
  <1>10. ZonesAre("BLOCK", b1, g, Births("BLOCK", g), N)
    BY <1>1, <1>3, <1>6, <1>9, BlocksAfterBar DEF N
  <1>11. ZonesAre("GAP", g1, g, Births("GAP", g), N)
    BY <1>1, <1>3, <1>6, GapsAfterBar DEF N
  <1>12. b1 \in Seq(ZoneRecord) /\ g1 \in Seq(ZoneRecord)
    BY <1>3, <1>6, <1>9, AddBlockType, AddGapsType DEF Enough
  <1>13. c = g[Len(g)] /\ N = Len(g) - 1
    BY <1>2
  <1> HIDE DEF b1, g1
  <1>14. ZonesAre("BLOCK", MitigateObs(b1, c), g, Births("BLOCK", g), Len(g))
    <2> DEFINE new == MitigateObs(b1, c)
    <2>1. new \in Seq(ZoneRecord)
      BY <1>1, <1>12, MitigateObsType
    <2>2. /\ DOMAIN new = DOMAIN b1
          /\ \A i \in DOMAIN b1 : new[i] = [b1[i] EXCEPT !.active = @ /\ ~Ends("BLOCK", b1[i], c)]
      BY DEF MitigateObs, Ends
    <2> HIDE DEF new, g
    <2>3. Len(new) = Len(b1) /\ DOMAIN b1 = 1..Len(b1)
      BY <1>12, <2>1, <2>2
    <2>4. ZonesAre("BLOCK", new, g, Births("BLOCK", g), Len(g))
      <3>1. \A i \in 1..Len(b1) :
              new[i] = [b1[i] EXCEPT !.active = @ /\ ~Ends("BLOCK", b1[i], g[Len(g)])]
        BY <1>13, <2>2, <2>3
      <3>2. ZonesAre("BLOCK", b1, g, Births("BLOCK", g), Len(g) - 1)
        BY <1>10, <1>13
      <3>3. g \in Seq(Candle) /\ g # <<>> /\ Len(new) = Len(b1) /\ "BLOCK" \in {"BLOCK", "GAP"}
        BY <1>2, <2>3
      <3> QED
        BY <3>1, <3>2, <3>3, ZonesMarked, Zenon
    <2> QED
      BY <2>4 DEF new
  <1>15. ZonesAre("GAP", FillFvgs(g1, c), g, Births("GAP", g), Len(g))
    <2> DEFINE new == FillFvgs(g1, c)
    <2>1. new \in Seq(ZoneRecord)
      BY <1>1, <1>12, FillFvgsType
    <2>2. /\ DOMAIN new = DOMAIN g1
          /\ \A i \in DOMAIN g1 : new[i] = [g1[i] EXCEPT !.active = @ /\ ~Ends("GAP", g1[i], c)]
      BY DEF FillFvgs, Ends
    <2> HIDE DEF new, g
    <2>3. Len(new) = Len(g1) /\ DOMAIN g1 = 1..Len(g1)
      BY <1>12, <2>1, <2>2
    <2>4. ZonesAre("GAP", new, g, Births("GAP", g), Len(g))
      <3>1. \A i \in 1..Len(g1) :
              new[i] = [g1[i] EXCEPT !.active = @ /\ ~Ends("GAP", g1[i], g[Len(g)])]
        BY <1>13, <2>2, <2>3
      <3>2. ZonesAre("GAP", g1, g, Births("GAP", g), Len(g) - 1)
        BY <1>11, <1>13
      <3>3. g \in Seq(Candle) /\ g # <<>> /\ Len(new) = Len(g1) /\ "GAP" \in {"BLOCK", "GAP"}
        BY <1>2, <2>3
      <3> QED
        BY <3>1, <3>2, <3>3, ZonesMarked, Zenon
    <2> QED
      BY <2>4 DEF new
  <1> QED
    BY <1>5, <1>7, <1>14, <1>15 DEF u, b1, g1, dir

LEMMA IngestHistoryInv ==
    ASSUME DequesSuffice, TypeOK, HistoryInv, NEW c \in Bar, Ingest(c), SwingsRemembered'
    PROVE  HistoryInv'
  <1>1. /\ ms \in Structure /\ bars \in Seq(Bar) /\ c \in Candle
    BY DEF TypeOK, Bar
  <1>2. bars \in Seq(Candle)
    BY <1>1, BarsAreCandles
  <1>3. ms' = Update(ms, c) /\ bars' = Append(bars, c)
    BY Ingested
  <1>4. ms.candles = Keep(bars, CandleCap)
    BY DEF HistoryInv
  <1>5. ms'.candles = Keep(bars', CandleCap)
    <2>1. CandleCap \in Nat \ {0}
      BY StructureAssumption DEF StructureAssumption
    <2>2. Update(ms, c).candles = Keep(Append(ms.candles, c), CandleCap)
      <3>1. Update(ms, c).candles = LtfTrack(ms, c).candles
        BY <1>1, UpdateFields
      <3>2. LtfTrack(ms, c).candles = Kept(ms, c)
        BY <1>1, LtfTrackFields
      <3> QED
        BY <3>1, <3>2 DEF Kept
    <2>3. Keep(Append(Keep(bars, CandleCap), c), CandleCap) = Keep(Append(bars, c), CandleCap)
      BY <1>1, <1>2, <2>1, KeepAgain
    <2> QED
      BY <1>3, <1>4, <2>2, <2>3
  <1>6. ASSUME InOrder(bars') PROVE HistoryKept'
    <2>1. InOrder(Append(bars, c)) /\ InOrder(bars)
      BY <1>1, <1>2, <1>3, <1>6, InOrderBefore
    <2>2. /\ SwingsAre(ms.swings, bars, PivotsOf(bars))
          /\ ZonesAre("BLOCK", ms.blocks, bars, Births("BLOCK", bars), Len(bars))
          /\ ZonesAre("GAP", ms.gaps, bars, Births("GAP", bars), Len(bars))
      BY <2>1 DEF HistoryInv, HistoryKept
    <2>3. \A side \in Sides : \/ LatestSwing(Update(ms, c), side) # {}
                              \/ Len(Update(ms, c).swings) < SwingCap
      BY <1>3 DEF SwingsRemembered
    <2>4. /\ SwingsAre(Update(ms, c).swings, Append(bars, c), PivotsOf(Append(bars, c)))
          /\ ZonesAre("BLOCK", Update(ms, c).blocks, Append(bars, c),
                      Births("BLOCK", Append(bars, c)), Len(Append(bars, c)))
          /\ ZonesAre("GAP", Update(ms, c).gaps, Append(bars, c),
                      Births("GAP", Append(bars, c)), Len(Append(bars, c)))
      BY <1>1, <1>4, <2>1, <2>2, <2>3, StructureAfterBar
    <2> QED
      BY <1>3, <2>4 DEF HistoryKept
  <1> QED
    BY <1>5, <1>6 DEF HistoryInv

LEMMA HtfBarHistoryInv == ASSUME TypeOK, HistoryInv, HtfBar PROVE HistoryInv'
  <1>1. /\ ms \in Structure /\ UNCHANGED bars
        /\ ms' = [ms EXCEPT !.htfBias = Bias(htf')]
    BY DEF TypeOK, HtfBar, SetHtfBias
  <1>2. /\ ms'.candles = ms.candles /\ ms'.swings = ms.swings
        /\ ms'.blocks = ms.blocks /\ ms'.gaps = ms.gaps
    BY <1>1 DEF Structure
  <1>3. HistoryKept => HistoryKept'
    BY <1>1, <1>2 DEF HistoryKept
  <1> QED
    BY <1>1, <1>2, <1>3 DEF HistoryInv

LEMMA IdleHistoryInv == ASSUME HistoryInv, UNCHANGED <<ms, bars>> PROVE HistoryInv'
  BY DEF HistoryInv, HistoryKept

LEMMA StepHistoryInv ==
    ASSUME DequesSuffice PROVE IInv /\ HistoryInv /\ SwingsRemembered' /\ [Next]_vars => HistoryInv'
  <1> SUFFICES ASSUME IInv, HistoryInv, SwingsRemembered', [Next]_vars PROVE HistoryInv'
    OBVIOUS
  <1>1. TypeOK
    BY DEF IInv
  <1> QED
    BY <1>1, StepCases, IngestHistoryInv, HtfBarHistoryInv, IdleHistoryInv

LEMMA HistoryMatches == IInv /\ HistoryInv => ZonesMatchHistory
  <1> SUFFICES ASSUME IInv, HistoryInv, InOrder(bars)
               PROVE  /\ ActiveZones(ms.blocks)
                           = {<<bars[BlockBar(bars, b)].ts, b[2]>> :
                                b \in {x \in Newest(BlockBirths(bars)) :
                                         Unreached(bars, x, BlockEdge(bars, x))}}
                      /\ ActiveZones(ms.gaps)
                           = {<<bars[b[1] - 1].ts, b[2]>> :
                                b \in {x \in Newest(GapBirths(bars)) :
                                         Unreached(bars, x, GapEdge(bars, x))}}
    BY DEF ZonesMatchHistory
  <1>1. /\ bars \in Seq(Candle) /\ ms.blocks \in Seq(ZoneRecord) /\ ms.gaps \in Seq(ZoneRecord)
    <2>1. bars \in Seq(Bar) /\ ms \in Structure
      BY DEF IInv, TypeOK
    <2> QED
      BY <2>1, BarsAreCandles DEF Structure
  <1>2. /\ ZonesAre("BLOCK", ms.blocks, bars, Births("BLOCK", bars), Len(bars))
        /\ ZonesAre("GAP", ms.gaps, bars, Births("GAP", bars), Len(bars))
    BY DEF HistoryInv, HistoryKept
  <1>3. /\ Births("BLOCK", bars) = BlockBirths(bars) /\ Births("GAP", bars) = GapBirths(bars)
        /\ \A b : EdgeOf("BLOCK", bars, b) = BlockEdge(bars, b)
        /\ \A b : EdgeOf("GAP", bars, b) = GapEdge(bars, b)
    BY DEF Births, EdgeOf
  <1>4. \A b \in Newest(BlockBirths(bars)) :
          ZoneAt("BLOCK", bars, b).ts = bars[BlockBar(bars, b)].ts
    <2> TAKE b \in Newest(BlockBirths(bars))
    <2>1. b \in Births("BLOCK", bars)
      BY <1>3 DEF Newest
    <2> QED
      BY <1>1, <2>1, ZoneBorn
  <1>5. \A b \in Newest(GapBirths(bars)) : ZoneAt("GAP", bars, b).ts = bars[b[1] - 1].ts
    <2> TAKE b \in Newest(GapBirths(bars))
    <2>1. b \in Births("GAP", bars)
      BY <1>3 DEF Newest
    <2> QED
      BY <1>1, <2>1, ZoneBorn
  <1>6. ActiveZones(ms.blocks)
          = {<<ZoneAt("BLOCK", bars, b).ts, b[2]>> :
               b \in {x \in Newest(Births("BLOCK", bars)) :
                        Unreached(bars, x, EdgeOf("BLOCK", bars, x))}}
    BY <1>1, <1>2, ActiveAre
  <1>7. ActiveZones(ms.gaps)
          = {<<ZoneAt("GAP", bars, b).ts, b[2]>> :
               b \in {x \in Newest(Births("GAP", bars)) :
                        Unreached(bars, x, EdgeOf("GAP", bars, x))}}
    BY <1>1, <1>2, ActiveAre
  <1>8. ActiveZones(ms.blocks)
          = {<<bars[BlockBar(bars, b)].ts, b[2]>> :
               b \in {x \in Newest(BlockBirths(bars)) : Unreached(bars, x, BlockEdge(bars, x))}}
    <2> DEFINE Live == {x \in Newest(BlockBirths(bars)) : Unreached(bars, x, BlockEdge(bars, x))}
    <2>1. {x \in Newest(Births("BLOCK", bars)) : Unreached(bars, x, EdgeOf("BLOCK", bars, x))}
            = Live
      BY <1>3
    <2>2. \A b \in Live : ZoneAt("BLOCK", bars, b).ts = bars[BlockBar(bars, b)].ts
      BY <1>4
    <2> HIDE DEF Live
    <2>3. ActiveZones(ms.blocks) = {<<ZoneAt("BLOCK", bars, b).ts, b[2]>> : b \in Live}
      BY <1>6, <2>1
    <2>4. ActiveZones(ms.blocks) = {<<bars[BlockBar(bars, b)].ts, b[2]>> : b \in Live}
      BY <2>2, <2>3
    <2> QED
      BY <2>4 DEF Live
  <1>9. ActiveZones(ms.gaps)
          = {<<bars[b[1] - 1].ts, b[2]>> :
               b \in {x \in Newest(GapBirths(bars)) : Unreached(bars, x, GapEdge(bars, x))}}
    <2> DEFINE Live == {x \in Newest(GapBirths(bars)) : Unreached(bars, x, GapEdge(bars, x))}
    <2>1. {x \in Newest(Births("GAP", bars)) : Unreached(bars, x, EdgeOf("GAP", bars, x))} = Live
      BY <1>3
    <2>2. \A b \in Live : ZoneAt("GAP", bars, b).ts = bars[b[1] - 1].ts
      BY <1>5
    <2> HIDE DEF Live
    <2>3. ActiveZones(ms.gaps) = {<<ZoneAt("GAP", bars, b).ts, b[2]>> : b \in Live}
      BY <1>7, <2>1
    <2>4. ActiveZones(ms.gaps) = {<<bars[b[1] - 1].ts, b[2]>> : b \in Live}
      BY <2>2, <2>3
    <2> QED
      BY <2>4 DEF Live
  <1> QED
    BY <1>8, <1>9

(***************************************************************************)
(* The incremental updates of _detect_swings, _detect_order_block,          *)
(* _detect_fvg, _mitigate_obs and _fill_fvgs, and the deques that forget,   *)
(* leave as active exactly the zones the whole history of bars gives, as    *)
(* long as the bars come in order.  For every feed and every setting    *)
(* whose deque of candles is as long as the windows read from it (the code  *)
(* keeps 512, its windows are 14 and shorter), as long as the deque of      *)
(* swings (50) never holds one side alone.                                  *)
(***************************************************************************)
THEOREM ZonesMatchHistoryHolds ==
    ASSUME DequesSuffice
    PROVE  Spec /\ []SwingsRemembered => []ZonesMatchHistory
  <1>1. Init => HistoryInv
    BY InitHistoryInv
  <1>2. IInv /\ HistoryInv /\ SwingsRemembered' /\ [Next]_vars => HistoryInv'
    BY StepHistoryInv
  <1>3. IInv /\ HistoryInv => ZonesMatchHistory
    BY HistoryMatches
  <1> QED
    BY <1>1, <1>2, <1>3, StrategyInvariant, PTL DEF Spec
=============================================================================
