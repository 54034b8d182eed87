----------------------------- MODULE SmcStrategy -----------------------------
(***************************************************************************)
(* SmcScalpStrategy (src/app/strategy/scalp_smc.py) of one symbol, with its *)
(* market structure, and the higher-timeframe tracker that may set its      *)
(* bias.  on_candle has no await that yields, so a call is one step.        *)
(*                                                                         *)
(* A candle is [ts, open, high, low, close]; ts counts bars of one hour, so *)
(* that it also decides the session.  bars and fired are histories.         *)
(***************************************************************************)
EXTENDS MarketStructure, SequencesExt

CONSTANTS
    Shapes,               \* the [open, high, low, close] the feed delivers
    Pip,                  \* price_delta(1.0)
    MinConfluence,        \* min_confluence
    MinRrPct,             \* min_rr
    TpMinBp, TpMaxBp,     \* target_profit_pct_min / max, in 1/10000
    LondonHours, NewYorkHours,   \* the hours of SessionFilter
    AlwaysOpen,           \* the symbol is one of _24h_symbols
    MaxTs, MaxBars,       \* bounds: time of the last bar, candles ingested
    MaxTicks,             \* bound: deliveries of a bar that is not new
    MaxHtfLag             \* bound: bars the higher timeframe may be behind

ASSUME StrategyAssumption ==
    /\ \A c \in Shapes : /\ {c.open, c.high, c.low, c.close} \subseteq Nat \ {0}
                         /\ c.low <= Min({c.open, c.close})
                         /\ c.high >= Max({c.open, c.close})
    /\ Pip \in Nat \ {0} /\ MinConfluence \in 0..100 /\ MinRrPct \in Nat \ {0}
    /\ TpMinBp \in Nat \ {0} /\ TpMaxBp \in Nat /\ TpMaxBp >= TpMinBp
    /\ LondonHours \subseteq 0..23 /\ NewYorkHours \subseteq 0..23
    /\ AlwaysOpen \in BOOLEAN /\ MaxTs \in Nat /\ MaxTicks \in Nat
    /\ MaxHtfLag \in Nat /\ MaxBars \in Nat

VARIABLES
    ms,            \* _ms
    series,        \* _series: the bars of on_candle, a forming bar replaced
    lastSignalTs,  \* _last_signal_ts; 0 is None
    htf,           \* an HTFStructure
    htfWired,      \* somebody feeds htf and calls set_htf_bias
    clock, ticks,  \* the market: time of its newest bar; deliveries of older ones
    bars,          \* history: every candle the structure has ingested
    fired          \* history: every signal returned

vars == <<ms, series, lastSignalTs, htf, htfWired, clock, ticks, bars, fired>>

-----------------------------------------------------------------------------
\* SessionFilter.is_active; classify only names the session.
IsActive(ts) == AlwaysOpen \/ ts % 24 \in LondonHours \cup NewYorkHours

\* is_strong_bullish_rejection and, facing down, the bearish one.
StrongRejection(f) ==
    /\ Spread(f) # 0
    /\ Rising(f)
    /\ 100 * LowerWick(f) >= 55 * Spread(f)
    /\ 2 * Body(f) <= Spread(f)

\* The factors of _evaluate_long and _evaluate_short, m after update().
Score(m, events, c, dir) ==
    LET aligned == \/ \E e \in events : e.kind # "SWEEP" /\ e.side = SideOf(dir)
                   \/ m.lastBos = dir
    IN    40 + 5
        + (IF StrongRejection(Facing(dir, c)) THEN 25 ELSE 0)
        + (IF ~aligned THEN 0 ELSE IF m.htfBias = dir THEN 20 ELSE 10)
        + (IF Holds(m.blocks, dir, c.close) THEN 10 ELSE 0)

\* _build_signal_long and _build_signal_short: the distances of stop and
\* target from the entry, the latter in 1/20000.  swept and candle are what
\* the signal was built from.
BuildSignal(c, swept, dir, score) ==
    LET f == Facing(dir, c)
        risk == f.close - (Min({Level(dir, swept), f.low}) - Pip)
    IN  [dir |-> dir, ts |-> c.ts, risk |-> risk, score |-> score,
         dist |-> Min({Max({2 * TpMinBp * c.close, 200 * MinRrPct * risk}),
                       3 * TpMaxBp * c.close}),
         swept |-> swept, candle |-> c]

\* What "rr_ratio < min_rr" may say.  A target set at min_rr times the risk
\* comes back from the float arithmetic as the ratio or a little below it.
RrRefused(s) ==
    IF s.dist = 200 * MinRrPct * s.risk THEN BOOLEAN
    ELSE {s.dist < 200 * MinRrPct * s.risk}

\* Seeded fault: a bias is no reason to refuse.
NeverOpposed(m, dir) == FALSE

\* The hard block of both evaluations: entry against the HTF bias.
Opposed(m, dir) == m.htfBias = Opposite(dir)

\* _evaluate_long / _evaluate_short: the possible results, each {} or one signal.
Evaluate(m, events, c, dir) ==
    LET swept == {e.price : e \in {x \in events : /\ x.kind = "SWEEP"
                                                  /\ x.side = SideOf(Opposite(dir))}}
        score == Score(m, events, c, dir)
        s == BuildSignal(c, CHOOSE p \in swept : TRUE, dir, score)
    IN  IF Opposed(m, dir) \/ swept = {} \/ score < MinConfluence \/ s.risk <= 0
        THEN {{}}
        ELSE {IF refused THEN {} ELSE {s} : refused \in RrRefused(s)}

\* _evaluate_short is _evaluate_long with every comparison turned round.
EvaluateLong(m, events, c) == Evaluate(m, events, c, "BULLISH")

EvaluateShort(m, events, c) == Evaluate(m, events, c, "BEARISH")

\* CandleSeries.append.
AppendBar(s, c) ==
    IF s # <<>> /\ Last(s).ts = c.ts THEN Append(Front(s), c) ELSE Append(s, c)

-----------------------------------------------------------------------------
Init ==
    /\ ms = FreshStructure /\ series = <<>> /\ lastSignalTs = 0
    /\ htf = FreshHtf /\ htfWired \in BOOLEAN
    /\ clock = 0 /\ ticks = 0
    /\ bars = <<>> /\ fired = <<>>

\* Seeded fault: a bar that has already fired is evaluated again.
AlreadyFiredNever(ts) == FALSE

\* The guard "one signal per bar".
AlreadyFired(ts) == lastSignalTs = ts

\* on_candle, for a candle of the strategy's symbol and timeframe.
Ingest(c) ==
    LET events == UpdateEvents(ms, c)
        m == Update(ms, c)
    IN  /\ ms' = m
        /\ series' = AppendBar(series, c)
        /\ bars' = Append(bars, c)
        /\ \E long \in EvaluateLong(m, events, c), short \in EvaluateShort(m, events, c) :
             LET out == IF long # {} THEN long ELSE short
             IN  /\ fired' = fired \o SetToSeq(out)
                 /\ lastSignalTs' = IF out # {} THEN c.ts ELSE lastSignalTs
        /\ UNCHANGED <<htf, htfWired>>

\* The early returns of on_candle: another symbol or timeframe (fits is
\* FALSE), outside the sessions, a bar that has already fired.
OnCandle(c, fits) ==
    IF fits /\ IsActive(c.ts) /\ ~AlreadyFired(c.ts)
    THEN Ingest(c)
    ELSE UNCHANGED <<ms, series, lastSignalTs, bars, fired, htf, htfWired>>

CandleAt(shape, ts) ==
    [ts |-> ts, open |-> shape.open, high |-> shape.high,
     low |-> shape.low, close |-> shape.close]

\* A feed delivers the newest bar of the market ...
NewBar ==
    /\ clock < MaxTs /\ Len(bars) < MaxBars
    /\ htfWired => Len(bars) - Len(htf.candles) <= MaxHtfLag
    /\ clock' = clock + 1 /\ UNCHANGED ticks
    /\ \E shape \in Shapes : OnCandle(CandleAt(shape, clock + 1), TRUE)

\* ... or a bar passes that no feed has delivered yet, ...
MissedBar ==
    /\ clock < MaxTs /\ Len(bars) < MaxBars
    /\ clock' = clock + 1
    /\ UNCHANGED <<ms, series, lastSignalTs, htf, htfWired, ticks, bars, fired>>

\* ... or a bar comes that is not new: a forming bar once more, the bar the
\* other feed has brought, or a late one.  The stream and the poller call
\* on_candle of one strategy, and the Finnhub poller emits all of the last
\* three bars it has not emitted, whatever the stream has brought meanwhile.
OldBar ==
    /\ ticks < MaxTicks /\ Len(bars) < MaxBars
    /\ ticks' = ticks + 1 /\ UNCHANGED clock
    /\ \E shape \in Shapes, ts \in 1..clock : OnCandle(CandleAt(shape, ts), TRUE)

\* A bar of another symbol or timeframe reaches the strategy.
ForeignBar ==
    /\ \E shape \in Shapes : OnCandle(CandleAt(shape, clock + 1), FALSE)
    /\ UNCHANGED <<clock, ticks>>

\* The wiring the docstring of get_htf_bias gives: the tracker takes a bar
\* and its bias is set.  Nothing in the application does this (htfWired =
\* FALSE); its bars are those of the strategy.
HtfBar ==
    /\ htfWired /\ Len(htf.candles) < Len(bars)
    /\ htf' = HtfUpdate(htf, bars[Len(htf.candles) + 1])
    /\ ms' = SetHtfBias(ms, Bias(htf'))
    /\ UNCHANGED <<series, lastSignalTs, htfWired, clock, ticks, bars, fired>>

Next == NewBar \/ MissedBar \/ OldBar \/ ForeignBar \/ HtfBar

Spec == Init /\ [][Next]_vars

-----------------------------------------------------------------------------
(***************************************************************************)
(* Reference definitions: swings, breaks and zones said of a whole history  *)
(* of bars h at once, without any state.  What a bar brings about is a      *)
(* property of the history that ends with it.                               *)
(***************************************************************************)
UpTo(h, n) == SubSeq(h, 1, n)

\* The bars of h came one after the other, none of them twice.
InOrder(h) == \A i, j \in DOMAIN h : i < j => h[i].ts < h[j].ts

\* No bar of h came after a newer one.
NoneLate(h) == \A i, j \in DOMAIN h : i < j => h[i].ts <= h[j].ts

\* The last bar of h makes the bar SwingLookback before it a swing.
RefPivot(h, side) ==
    LET p == Len(h) - SwingLookback
        High(i) == Facing(side, h[i]).high
    IN  /\ p > SwingLookback
        /\ \A i \in ((p - SwingLookback) .. Len(h)) \ {p} :
             /\ High(i) <= High(p)
             /\ ReachesAtr(High(p) - High(i), ProminencePct, h)

\* The swing of that side in force when the last bar of h closes.
RefSwing(h, side) ==
    LET ns == {n \in 1..Len(h) : RefPivot(UpTo(h, n), side)}
    IN  IF ns = {} THEN {} ELSE {Facing(side, h[Max(ns) - SwingLookback]).high}

RefBreaks(h, dir) ==
    /\ \E p \in RefSwing(h, SideOf(dir)) : Facing(dir, Last(h)).close > p
    /\ dir = "BEARISH" => ~\E p \in RefSwing(h, "HIGH") : Last(h).close > p

\* The bar whose body is the order block of a break at the last bar, {} if none.
RefBlockBar(h, dir) ==
    LET n == Len(h)
        opposing == {i \in Max({1, n - BlockWindow}) .. (n - 1) :
                       Rising(Facing(Opposite(dir), h[i]))}
    IN  IF /\ RefBreaks(h, dir)
           /\ ReachesAtr(Body(h[n]), DisplacementPct, h)
           /\ AtrSum(h) # 0
           /\ opposing # {}
        THEN {Max(opposing)} ELSE {}

RefIsGap(h, dir) ==
    LET n == Len(h)
        room == Facing(dir, h[n]).low - Facing(dir, h[n - 2]).high
    IN  n >= 3 /\ room > 0 /\ ReachesAtr(room, MinFvgPct, h)

\* A zone is named by the bar it was born at and its direction.
BlockBirths(h) ==
    {b \in (1..Len(h)) \X Directions : RefBlockBar(UpTo(h, b[1]), b[2]) # {}}

GapBirths(h) == {b \in (1..Len(h)) \X Directions : RefIsGap(UpTo(h, b[1]), b[2])}

BlockBar(h, b) == CHOOSE i \in RefBlockBar(UpTo(h, b[1]), b[2]) : TRUE

\* The edge of the zone that ends it: of a block the near one, of a gap the far.
BlockEdge(h, b) ==
    LET f == Facing(b[2], h[BlockBar(h, b)]) IN Max({f.open, f.close})

GapEdge(h, b) == Facing(b[2], h[b[1] - 2]).high

Later(births, b) == {x \in births : x[1] > b[1]}

\* Of the zones born, the ones still in the deque.
Newest(births) == {b \in births : Cardinality(Later(births, b)) < ZoneCap}

\* No bar since the birth, its own included, has reached the edge.
Unreached(h, b, edge) == \A k \in b[1]..Len(h) : Facing(b[2], h[k]).low > edge

ActiveZones(zones) ==
    {<<z.ts, z.dir>> : z \in UNION {Active(zones, dir) : dir \in Directions}}

(***************************************************************************)
(* A zone counts as active exactly while no bar since its birth, its own    *)
(* break candle included, has reached it: for order blocks the near edge of *)
(* the body, for gaps the far edge.  Compares the incremental updates of    *)
(* _detect_swings, _detect_order_block, _detect_fvg, _mitigate_obs and      *)
(* _fill_fvgs, and what the bounded deques forget, with the whole history   *)
(* (of bars that came in order).                                            *)
(***************************************************************************)
ZonesMatchHistory ==
    InOrder(bars) =>
      /\ ActiveZones(ms.blocks)
           = {<<bars[BlockBar(bars, b)].ts, b[2]>> :
                b \in {x \in Newest(BlockBirths(bars)) : Unreached(bars, x, BlockEdge(bars, x))}}
      /\ ActiveZones(ms.gaps)
           = {<<bars[b[1] - 1].ts, b[2]>> :
                b \in {x \in Newest(GapBirths(bars)) : Unreached(bars, x, GapEdge(bars, x))}}

(***************************************************************************)
(* No active order block holds the close the strategy would enter at:       *)
(* update() has marked every block the bar reached before the score is      *)
(* taken.  The 10 points for an order block are never given, a signal       *)
(* scores at most 90 and calculate_confluence_score at most 0.75.           *)
(***************************************************************************)
NoBlockAtEntry ==
    bars # <<>> =>
      \A dir \in Directions :
        /\ ~Holds(ms.blocks, dir, Last(bars).close)
        /\ EntryGrade(ms, Last(bars).close, dir) <= 75
        /\ \A i \in DOMAIN fired : fired[i].score <= 90

(***************************************************************************)
(* The strategy does not look ahead: a bar sweeps or breaks only a swing    *)
(* that was in force before it came, although update() looks for new        *)
(* swings, in a window that ends with the bar, first.                       *)
(***************************************************************************)
EventsUseOldSwings ==
    [][bars' # bars =>
         \A e \in UpdateEvents(ms, Last(bars')) : e.price \in LatestSwing(ms, e.side)]_vars

(***************************************************************************)
(* A signal has its stop beyond both the swept swing and the extreme of the *)
(* bar, a reward of at least min_rr, a target between the two percentages,  *)
(* and does not oppose the last break the bias came from.                   *)
(***************************************************************************)
SignalSound ==
    [][fired' # fired =>
         LET s == Last(fired')
             f == Facing(s.dir, s.candle)
         IN  /\ f.close - s.risk < Min({f.low, Level(s.dir, s.swept)})
             /\ s.dist >= 200 * MinRrPct * s.risk
             /\ s.dist >= 2 * TpMinBp * s.candle.close
             /\ s.dist <= 3 * TpMaxBp * s.candle.close
             /\ htfWired => htf.lastBos # Opposite(s.dir)
             /\ IsActive(s.ts)]_vars

(***************************************************************************)
(* "Hard-block: one signal per bar (de-duplicate live ticks)"               *)
(* (scalp_smc.py:152).  The guard remembers one time, that of the last      *)
(* signal: a bar that fires, comes again after a later bar has fired, and   *)
(* still shows its setup, fires a second time.                              *)
(***************************************************************************)
OneSignalPerBar ==
    \A i, j \in DOMAIN fired : i # j => fired[i].ts # fired[j].ts

(***************************************************************************)
(* What the guard does give: a bar fires a second time only after another   *)
(* bar has fired in between, and only if some bar came late.  One feed that *)
(* never goes back in time gets one signal per bar, however often and in    *)
(* whatever shape it repeats a forming bar.                                 *)
(***************************************************************************)
RefiresOnlyWhenLate ==
    \A i, j \in DOMAIN fired :
        i < j /\ fired[i].ts = fired[j].ts =>
            /\ \E k \in i..j : fired[k].ts # fired[i].ts
            /\ ~NoneLate(bars)
=============================================================================
