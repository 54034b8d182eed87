--------------------------- MODULE MarketStructure ---------------------------
(***************************************************************************)
(* The market-structure trackers of src/app/strategy/market_structure.py    *)
(* as operators on a record: HTFStructure (bias only) and MarketStructure   *)
(* (swings, sweeps, breaks, order blocks, fair value gaps).  Both are       *)
(* synchronous, so update() is one operator.  SmcStrategy.tla drives them.  *)
(*                                                                         *)
(* Prices are integers, multiples are percentages and the average true      *)
(* range is a sum and a count, so that every comparison is exact.  Highs    *)
(* and lows, and bullish and bearish, are written once: the code's second   *)
(* copy is the first on candles turned upside down (Facing).                *)
(***************************************************************************)
EXTENDS Sums, FiniteSets, FiniteSetsExt

CONSTANTS
    SwingLookback,        \* swing_lookback of MarketStructure
    HtfLookback,          \* swing_lookback of HTFStructure
    SweepWickPct,         \* sweep_wick_ratio
    ProminencePct,        \* prominence_atr_mult
    DisplacementPct,      \* ob_displacement_mult
    MinFvgPct,            \* min_fvg_atr_mult
    AtrPeriod,            \* period of _compute_atr
    BlockWindow,          \* bars _detect_order_block looks back
    CandleCap, SwingCap, ZoneCap    \* maxlen of the deques

ASSUME StructureAssumption ==
    /\ SwingLookback \in Nat \ {0} /\ HtfLookback \in Nat \ {0}
    /\ SweepWickPct \in 0..100 /\ ProminencePct \in Nat
    /\ DisplacementPct \in Nat /\ MinFvgPct \in Nat
    /\ AtrPeriod \in Nat \ {0} /\ BlockWindow \in Nat \ {0}
    /\ CandleCap \in Nat \ {0} /\ SwingCap \in Nat \ {0} /\ ZoneCap \in Nat \ {0}

Directions == {"BULLISH", "BEARISH"}

Opposite(dir) == IF dir = "BULLISH" THEN "BEARISH" ELSE "BULLISH"

\* The swing a break in that direction passes.
SideOf(dir) == IF dir = "BULLISH" THEN "HIGH" ELSE "LOW"

\* A candle as seen from a direction or a side of the market: for BEARISH and
\* LOW upside down.
Facing(view, c) ==
    IF view \in {"BULLISH", "HIGH"} THEN c
    ELSE [c EXCEPT !.open = -c.open, !.high = -c.low,
                   !.low = -c.high, !.close = -c.close]

\* A price seen the same way.
Level(view, price) == IF view \in {"BULLISH", "HIGH"} THEN price ELSE -price

Abs(x) == IF x >= 0 THEN x ELSE -x

\* The properties of Candle: body, range, lower_wick and, facing down, the
\* upper wick; is_bullish and, facing down, is_bearish.
Body(c) == Abs(c.close - c.open)

Spread(c) == c.high - c.low

UpperWick(c) == c.high - Max({c.close, c.open})

LowerWick(c) == Min({c.close, c.open}) - c.low

Rising(c) == c.close > c.open

\* A deque with a maxlen: the last cap elements.
Keep(s, cap) == IF Len(s) <= cap THEN s ELSE SubSeq(s, Len(s) - cap + 1, Len(s))

-----------------------------------------------------------------------------
(***************************************************************************)
(* _compute_atr: the mean of the true ranges of the last AtrPeriod bars, or *)
(* no value.                                                                *)
(***************************************************************************)
TrueRange(prev, cur) ==
    Max({cur.high - cur.low, Abs(cur.high - prev.close), Abs(cur.low - prev.close)})

\* The true ranges of the sample, the newest first.
TrueRanges(cs) ==
    LET n == Len(cs)
    IN  [j \in 1 .. Min({AtrPeriod, n - 1}) |-> TrueRange(cs[n - j], cs[n - j + 1])]

AtrCount(cs) == Len(TrueRanges(cs))

AtrSum(cs) == RunningSum(0, TrueRanges(cs))[AtrCount(cs)]

\* x >= pct / 100 * atr, with atr = 0 for fewer than two bars.
ReachesAtr(x, pct, cs) == 100 * x * AtrCount(cs) >= pct * AtrSum(cs)

-----------------------------------------------------------------------------
(***************************************************************************)
(* _detect_swings: the bar k bars ago is a swing if no bar of its window    *)
(* passes it and it stands out from the bars of another time by enough of   *)
(* an ATR.  {} or the one swing of that side.                               *)
(***************************************************************************)
\* Seeded fault: the window leaves out the newest bar.
ConfirmedSwingEarly(cs, k, side, adaptive) ==
    LET p == Len(cs) - k
        High(i) == Facing(side, cs[i]).high
        window == (p - k) .. (Len(cs) - 1)
    IN  IF p - k >= 1 /\ \A i \in window : High(i) <= High(p)
        THEN {[side |-> side, price |-> Level(side, High(p)), ts |-> cs[p].ts]}
        ELSE {}

ConfirmedSwing(cs, k, side, adaptive) ==
    LET p == Len(cs) - k
        High(i) == Facing(side, cs[i]).high
        window == (p - k) .. Len(cs)
        others == {High(i) : i \in {j \in window : cs[j].ts # cs[p].ts}}
        prominence == IF others = {} THEN 0 ELSE High(p) - Max(others)
    IN  IF /\ p - k >= 1
           /\ \A i \in window : High(i) <= High(p)
           /\ \/ ~adaptive
              \/ AtrSum(cs) = 0
              \/ ReachesAtr(prominence, ProminencePct, cs)
        THEN {[side |-> side, price |-> Level(side, High(p)), ts |-> cs[p].ts]}
        ELSE {}

\* _add_swing: a second swing of the same side and time as the last is dropped.
AddSwing(swings, found) ==
    IF \/ found = {}
       \/ \E s \in found : /\ swings # <<>>
                           /\ swings[Len(swings)].ts = s.ts
                           /\ swings[Len(swings)].side = s.side
    THEN swings
    ELSE Keep(Append(swings, CHOOSE s \in found : TRUE), SwingCap)

\* _latest_swing: {} for None, else its price.
LatestSwing(m, side) ==
    LET hits == {i \in DOMAIN m.swings : m.swings[i].side = side}
    IN  IF hits = {} THEN {} ELSE {m.swings[Max(hits)].price}

\* Step 1 of update(): append the candle, look for a high, then for a low.
Track(m, c, k, adaptive) ==
    LET cs == Keep(Append(m.candles, c), CandleCap)
        Found(side) == ConfirmedSwing(cs, k, side, adaptive)
    IN  [m EXCEPT !.candles = cs,
                  !.swings = AddSwing(AddSwing(@, Found("HIGH")), Found("LOW"))]

\* _detect_swings of MarketStructure and _detect_swings_simple of HTFStructure.
LtfTrack(m, c) == Track(m, c, SwingLookback, TRUE)

HtfTrack(h, c) == Track(h, c, HtfLookback, FALSE)

-----------------------------------------------------------------------------
(***************************************************************************)
(* Steps 2 and 3 of update(), on the tracker after step 1.                  *)
(***************************************************************************)
\* _is_sweep_high and, facing down, _is_sweep_low.
IsSweep(side, c, price) ==
    LET f == Facing(side, c)
    IN  /\ f.high > Level(side, price)
        /\ f.close < Level(side, price)
        /\ Spread(f) # 0
        /\ 100 * UpperWick(f) >= SweepWickPct * Spread(f)

Sweeps(m, c) ==
    { [kind |-> "SWEEP", side |-> e[1], price |-> e[2]] :
        e \in {x \in UNION {{s} \X LatestSwing(m, s) : s \in {"HIGH", "LOW"}} :
                 IsSweep(x[1], c, x[2])} }

\* The side the close breaks, the high first; "NONE" without a break.
BreakOf(m, c) ==
    IF \E p \in LatestSwing(m, "HIGH") : c.close > p THEN "BULLISH"
    ELSE IF \E p \in LatestSwing(m, "LOW") : c.close < p THEN "BEARISH"
    ELSE "NONE"

\* CHOCH if the break turns the trend, BOS if it continues or starts it.
Breaks(m, c) ==
    { [kind |-> IF m.lastBos = Opposite(d) THEN "CHOCH" ELSE "BOS",
       side |-> SideOf(d), price |-> p] :
        d \in {BreakOf(m, c)} \ {"NONE"},
        p \in LatestSwing(m, SideOf(BreakOf(m, c))) }

Events(m, c) == Sweeps(m, c) \cup Breaks(m, c)

\* _last_bos records the direction; the code stores BOS_BULL for a CHOCH_BULL.
TrendAfter(m, c) == IF BreakOf(m, c) = "NONE" THEN m.lastBos ELSE BreakOf(m, c)

-----------------------------------------------------------------------------
(***************************************************************************)
(* HTFStructure: update() and the bias property.                            *)
(***************************************************************************)
FreshHtf == [candles |-> <<>>, swings |-> <<>>, lastBos |-> "NONE"]

HtfUpdate(h, c) ==
    LET m == HtfTrack(h, c)
    IN  [m EXCEPT !.lastBos = TrendAfter(m, c)]

Bias(h) == IF h.lastBos = "NONE" THEN "NEUTRAL" ELSE h.lastBos

-----------------------------------------------------------------------------
(***************************************************************************)
(* MarketStructure: zones.  active is ~mitigated or ~filled.                *)
(***************************************************************************)
FreshStructure ==
    [candles |-> <<>>, swings |-> <<>>, lastBos |-> "NONE",
     blocks |-> <<>>, gaps |-> <<>>, htfBias |-> "NEUTRAL"]

Zone(dir, low, high, ts) ==
    [dir |-> dir, low |-> low, high |-> high, ts |-> ts, active |-> TRUE]

\* _detect_order_block: the body of the last opposing candle before a break
\* by a displacement candle.
AddBlock(blocks, cs, dir) ==
    LET end == Len(cs)
        opposing == {i \in Max({1, end - BlockWindow}) .. (end - 1) :
                       Rising(Facing(Opposite(dir), cs[i]))}
    IN  IF \/ dir = "NONE"
           \/ AtrSum(cs) = 0
           \/ ~ReachesAtr(Body(cs[end]), DisplacementPct, cs)
           \/ opposing = {}
        THEN blocks
        ELSE LET ob == cs[Max(opposing)]
             IN  Keep(Append(blocks, Zone(dir, Min({ob.open, ob.close}),
                                          Max({ob.open, ob.close}), ob.ts)),
                      ZoneCap)

\* _detect_fvg, one direction: the third bar starts past the first.
GapIn(cs, dir) ==
    LET n == Len(cs)
        b0 == Facing(dir, cs[n - 2])
        b2 == Facing(dir, cs[n])
    IN  IF n >= 3 /\ b0.high < b2.low /\ ReachesAtr(b2.low - b0.high, MinFvgPct, cs)
        THEN {Zone(dir, Min({Level(dir, b0.high), Level(dir, b2.low)}),
                   Max({Level(dir, b0.high), Level(dir, b2.low)}), cs[n - 1].ts)}
        ELSE {}

AddGaps(gaps, cs) ==
    LET Add(s, found) ==
            IF found = {} THEN s
            ELSE Keep(Append(s, CHOOSE g \in found : TRUE), ZoneCap)
    IN  Add(Add(gaps, GapIn(cs, "BULLISH")), GapIn(cs, "BEARISH"))

\* Seeded fault: the far edge, as for gaps.
TouchesBlockFar(b, c) ==
    IF b.dir = "BULLISH" THEN c.low <= b.low ELSE c.high >= b.high

\* _mitigate_obs: the candle reaches the near edge of the zone.
TouchesBlock(b, c) ==
    IF b.dir = "BULLISH" THEN c.low <= b.high ELSE c.high >= b.low

\* _fill_fvgs: the candle reaches the far edge of the gap.
FillsGap(g, c) ==
    IF g.dir = "BULLISH" THEN c.low <= g.low ELSE c.high >= g.high

MitigateObs(blocks, c) ==
    [i \in DOMAIN blocks |->
        [blocks[i] EXCEPT !.active = @ /\ ~TouchesBlock(blocks[i], c)]]

\* Seeded fault: a filled gap opens again when the next bar stays out of it.
FillFvgsAfresh(gaps, c) ==
    [i \in DOMAIN gaps |-> [gaps[i] EXCEPT !.active = ~FillsGap(gaps[i], c)]]

FillFvgs(gaps, c) ==
    [i \in DOMAIN gaps |->
        [gaps[i] EXCEPT !.active = @ /\ ~FillsGap(gaps[i], c)]]

\* Steps 3 (state), 4 and 5 of update(): trend, block, gap, then mitigation.
Settle(m, c) ==
    [m EXCEPT !.lastBos = TrendAfter(m, c),
              !.blocks = MitigateObs(AddBlock(@, m.candles, BreakOf(m, c)), c),
              !.gaps = FillFvgs(AddGaps(@, m.candles), c)]

Update(m, c) == Settle(LtfTrack(m, c), c)

\* What update() returns.
UpdateEvents(m, c) == Events(LtfTrack(m, c), c)

SetHtfBias(m, bias) == [m EXCEPT !.htfBias = bias]

\* find_order_blocks and find_fvg with active_only, as sets, and whether one
\* of the zones holds a price.
Active(zones, dir) == {z \in {zones[i] : i \in DOMAIN zones} : z.active /\ z.dir = dir}

Holds(zones, dir, price) ==
    \E z \in Active(zones, dir) : z.low <= price /\ price <= z.high

\* calculate_confluence_score, in hundredths.
EntryGrade(m, price, dir) ==
    LET near == \E p \in LatestSwing(m, SideOf(Opposite(dir))) :
                  /\ AtrSum(m.candles) > 0
                  /\ Abs(price - p) * AtrCount(m.candles) <= 2 * AtrSum(m.candles)
        Points(n, P) == IF P THEN n ELSE 0
    IN    Points(25, m.htfBias = dir)
        + Points(25, Holds(m.blocks, dir, price))
        + Points(20, Holds(m.gaps, dir, price))
        + Points(20, m.lastBos = dir)
        + Points(10, near)
=============================================================================
