-------------------------- MODULE PriceSourceProofs --------------------------
(***************************************************************************)
(* The safety of either price source, for every set of symbols, every bar   *)
(* length, every sequence of prices and any number of ticks.                *)
(***************************************************************************)
EXTENDS PriceSource, WellFoundedInduction, TLAPS

-----------------------------------------------------------------------------
(***************************************************************************)
(* The task of the source lives only between start() and stop().            *)
(***************************************************************************)
TaskAlive ==
    /\ source \in {"rest", "finnhub"}
    /\ life \in {"new", "running", "stopping", "stopped", "failed"}
    /\ pc # "off" => life \in {"running", "stopping"}

LEMMA AliveInit == Init => TaskAlive
  BY DEF Init, Rest!Init, Finnhub!Init, TaskAlive

LEMMA RestFeedStep ==
    ASSUME TaskAlive, RestNext
    PROVE  TaskAlive' /\ [Feed!Next]_Feed!vars
  <1> USE DEF TaskAlive, Rest!InHandler, Feed!vars, RestNext
  <1>1. ASSUME NEW resolved \in Listings, Rest!Start(resolved)
        PROVE  TaskAlive' /\ [Feed!Next]_Feed!vars
    BY <1>1 DEF Rest!Start, Feed!Next, Feed!Start
  <1>2. CASE Rest!RequestStop
    BY <1>2 DEF Rest!RequestStop, Feed!Next, Feed!RequestStop
  <1>3. CASE Rest!TokenExpires
    BY <1>3 DEF Rest!TokenExpires
  <1>4. CASE Rest!TimePasses
    BY <1>4 DEF Rest!TimePasses
  <1>5. ASSUME Rest!LoopStep PROVE TaskAlive' /\ [Feed!Next]_Feed!vars
    <2>1. ASSUME NEW mid, Rest!QuoteAnswered(mid)
          PROVE  TaskAlive' /\ [Feed!Next]_Feed!vars
      BY <2>1 DEF Rest!QuoteAnswered, Rest!Asking
    <2>2. CASE Rest!QuoteFailed \/ Rest!TokenRenewed \/ Rest!RenewalFailed
      BY <2>2 DEF Rest!QuoteFailed, Rest!TokenRenewed, Rest!RenewalFailed,
                  Rest!Asking, Rest!EndTick
    <2>3. CASE Rest!Polled \/ Rest!AllUsed
      BY <2>3 DEF Rest!Polled, Rest!AllUsed, Rest!EndTick
    <2>4. ASSUME NEW sym, NEW mid,
                 Rest!UselessPrice(sym) \/ Rest!FirstPrice(sym, mid) \/ Rest!MorePrice(sym, mid)
          PROVE  TaskAlive' /\ [Feed!Next]_Feed!vars
      BY <2>4 DEF Rest!UselessPrice, Rest!FirstPrice, Rest!MorePrice, Rest!TakePrice
    <2>5. ASSUME NEW sym, NEW mid, Rest!LastPrice(sym, mid)
          PROVE  TaskAlive' /\ [Feed!Next]_Feed!vars
      BY <2>5 DEF Rest!LastPrice, Rest!TakePrice, Feed!Next, Feed!Call
    <2>6. CASE Rest!HandlerReturns \/ Rest!HandlerRaises
      BY <2>6 DEF Rest!HandlerReturns, Rest!HandlerRaises, Rest!EndTick, Feed!Next, Feed!Return
    <2>7. CASE Rest!Wake
      BY <2>7 DEF Rest!Wake
    <2>8. CASE Rest!StopReturns
      BY <2>8 DEF Rest!StopReturns, Rest!TaskEnds, Feed!Next, Feed!StopReturns
    <2> QED
      BY <1>5, <2>1, <2>2, <2>3, <2>4, <2>5, <2>6, <2>7, <2>8 DEF Rest!LoopStep
  <1> QED
    BY <1>1, <1>2, <1>3, <1>4, <1>5 DEF Rest!Next

LEMMA FinnhubFeedStep ==
    ASSUME TaskAlive, FinnhubNext
    PROVE  TaskAlive' /\ [Feed!Next]_Feed!vars
  <1> USE DEF TaskAlive, Rest!InHandler, Finnhub!InHandler, Feed!vars, FinnhubNext
  <1>1. CASE Finnhub!Start
    BY <1>1 DEF Finnhub!Start, Feed!Next, Feed!Start
  <1>2. CASE Finnhub!RequestStop
    BY <1>2 DEF Finnhub!RequestStop, Feed!Next, Feed!RequestStop
  <1>3. CASE Finnhub!Cancelled
    BY <1>3 DEF Finnhub!Cancelled, Feed!Next, Feed!Return
  <1>4. CASE Finnhub!StopReturns
    BY <1>4 DEF Finnhub!StopReturns, Feed!Next, Feed!StopReturns
  <1>5. CASE Finnhub!FetchAnswered \/ Finnhub!FetchFailed \/ Finnhub!BatchEnds
    BY <1>5 DEF Finnhub!FetchAnswered, Finnhub!FetchFailed, Finnhub!BatchEnds,
                Finnhub!NextSymbol
  <1>6. CASE Finnhub!HandOver
    BY <1>6 DEF Finnhub!HandOver, Feed!Next, Feed!Call
  <1>7. CASE Finnhub!HandlerReturns \/ Finnhub!HandlerRaises
    BY <1>7 DEF Finnhub!HandlerReturns, Finnhub!HandlerRaises, Finnhub!NextSymbol,
                Feed!Next, Feed!Return
  <1>8. CASE Finnhub!Sleep \/ Finnhub!Wake \/ Finnhub!TimePasses
    BY <1>8 DEF Finnhub!Sleep, Finnhub!Wake, Finnhub!TimePasses
  <1> QED
    BY <1>1, <1>2, <1>3, <1>4, <1>5, <1>6, <1>7, <1>8 DEF Finnhub!Next

LEMMA FeedStep == TaskAlive /\ [Next]_vars => TaskAlive' /\ [Feed!Next]_Feed!vars
  <1>1. UNCHANGED vars => UNCHANGED TaskAlive /\ UNCHANGED Feed!vars
    BY DEF vars, TaskAlive, Feed!vars, Rest!InHandler
  <1> QED
    BY <1>1, RestFeedStep, FinnhubFeedStep DEF Next

(* Either poller is a CandleFeed as far as safety goes: the engine's candle *)
(* handler is called only between start() and the return of stop(), never   *)
(* while it still has the last candle, and stop() does not return while it  *)
(* runs.  (That stop() does return is checked by ImplementsFeed.)           *)
THEOREM FeedSafety == Spec => Feed!Init /\ [][Feed!Next]_Feed!vars
  <1>1. Init => Feed!Init
    BY DEF Init, Rest!Init, Feed!Init, Rest!InHandler
  <1> QED
    BY <1>1, AliveInit, FeedStep, PTL DEF Spec

-----------------------------------------------------------------------------
(***************************************************************************)
(* FinnhubPoller: which bars were handed over.                              *)
(***************************************************************************)
Bars(s) == {given[s][i].bar : i \in DOMAIN given[s]}

Opens(t, s) == t % BarLength[s] = 0

FinnhubTyped ==
    /\ clock \in Nat /\ StartClock <= clock
    /\ fetchedAt \in Nat /\ fetchedAt <= clock
    /\ round \in Seq(Finnhub!BarSymbols)
    /\ batch \subseteq Nat
    /\ lastTs \in [Finnhub!BarSymbols -> Nat]
    /\ given \in [Finnhub!BarSymbols -> Seq([bar : Nat, final : BOOLEAN])]
    /\ answered \in [Finnhub!BarSymbols -> SUBSET Nat]

\* The bars handed over are in order, none after the one the poller remembers,
\* and finished only if they were over at the last answer.
HandedInOrder(s) ==
    /\ \A i, j \in DOMAIN given[s] : i < j => given[s][i].bar < given[s][j].bar
    /\ \A i \in DOMAIN given[s] :
         /\ given[s][i].bar <= lastTs[s]
         /\ given[s][i].final => given[s][i].bar + BarLength[s] <= fetchedAt

\* No bar up to t was passed over of those an answer at time c shows.
NoGap(s, c, t) ==
    \A b \in Nat : Opens(b, s) /\ c - 3 * BarLength[s] <= b /\ b <= t => b \in Bars(s)

\* What an answer that was looked at to its end has settled.
Settled(s) ==
    \A c \in answered[s] :
        /\ StartClock <= c
        /\ NoGap(s, c, c)
        /\ \A i \in DOMAIN given[s] :
             given[s][i].final => ~(given[s][i].bar <= c /\ c < given[s][i].bar + BarLength[s])

\* The answer being looked at.
Reading ==
    LET s == Head(round)
    IN  /\ round # <<>>
        /\ StartClock <= fetchedAt
        /\ \A t \in batch : Opens(t, s) /\ t <= fetchedAt
        /\ \A b \in Nat : /\ Opens(b, s)
                          /\ fetchedAt - 3 * BarLength[s] <= b /\ b <= fetchedAt
                          => b \in Bars(s) \cup batch
        /\ NoGap(s, fetchedAt, lastTs[s])

FinnhubInv ==
    /\ FinnhubTyped
    /\ \A s \in Finnhub!BarSymbols :
         HandedInOrder(s) /\ NoGap(s, clock, lastTs[s]) /\ Settled(s)
    /\ source = "finnhub" /\ pc \in {"batch", "handler"} => Reading

LEMMA BarLengthIs ==
    ASSUME NEW s \in Finnhub!BarSymbols
    PROVE  /\ BarLength[s] \in Nat \ {0} /\ 4 * BarLength[s] <= StartClock
           /\ StartClock \in Nat
  BY PriceSourceAssumption DEF PriceSourceAssumption, Finnhub!BarSymbols, Range, Finnhub!Range

\* There is a shortest interval.
LEMMA SleepTimeIs == Finnhub!SleepTime \in Nat
  <1> DEFINE T == {BarLength[s] : s \in Range(Feeds)}
             R == OpToRel(<, Nat)
  <1>1. T \subseteq Nat /\ T # {}
    <2>1. 1 \in DOMAIN Feeds
      BY PriceSourceAssumption DEF PriceSourceAssumption
    <2>2. Feeds[1] \in Range(Feeds)
      BY <2>1 DEF Range
    <2> QED
      BY <2>2, PriceSourceAssumption DEF PriceSourceAssumption
  <1>2. IsWellFoundedOn(R, Nat)
    BY NatLessThanWellFounded
  <1>3. PICK k \in T : \A j \in T : ~(<<j, k>> \in R)
    <2> HIDE DEF R, T
    <2> QED
      BY <1>1, <1>2, WFMin
  <1>4. \A j \in T : k <= j
    <2> HIDE DEF T
    <2> SUFFICES ASSUME NEW j \in T PROVE k <= j
      OBVIOUS
    <2>1. ~(<<j, k>> \in R) /\ j \in Nat /\ k \in Nat
      BY <1>1, <1>3
    <2> QED
      BY <2>1 DEF OpToRel
  <1>5. Finnhub!SleepTime = CHOOSE x \in T : \A y \in T : x <= y
    <2>1. T = {BarLength[s] : s \in DOMAIN BarLength}
      BY PriceSourceAssumption DEF PriceSourceAssumption
    <2> HIDE DEF T
    <2> QED
      BY <2>1 DEF Finnhub!SleepTime, Finnhub!Min, Finnhub!Range
  <1> HIDE DEF T
  <1> QED
    BY <1>1, <1>3, <1>4, <1>5

LEMMA ElementIs ==
    ASSUME NEW S, NEW q \in Seq(S), NEW i \in DOMAIN q
    PROVE  q[i] \in S
  OBVIOUS

LEMMA HeadIs ==
    ASSUME NEW S, NEW q \in Seq(S), q # <<>>
    PROVE  Head(q) \in S /\ Tail(q) \in Seq(S)
  OBVIOUS

LEMMA GivenIs ==
    ASSUME FinnhubTyped, NEW s \in Finnhub!BarSymbols
    PROVE  /\ given[s] \in Seq([bar : Nat, final : BOOLEAN])
           /\ Len(given[s]) \in Nat /\ DOMAIN given[s] = 1..Len(given[s])
           /\ \A i \in DOMAIN given[s] : given[s][i].bar \in Nat
           /\ lastTs[s] \in Nat
           /\ \A c \in answered[s] : c \in Nat
  <1>1. given[s] \in Seq([bar : Nat, final : BOOLEAN])
    BY DEF FinnhubTyped
  <1>2. ASSUME NEW i \in DOMAIN given[s] PROVE given[s][i] \in [bar : Nat, final : BOOLEAN]
    BY <1>1, ElementIs
  <1>3. lastTs[s] \in Nat /\ (\A c \in answered[s] : c \in Nat)
    BY DEF FinnhubTyped
  <1> QED
    BY <1>1, <1>2, <1>3

LEMMA FinnhubInit == Init => FinnhubInv
  <1> SUFFICES ASSUME Init PROVE FinnhubInv
    OBVIOUS
  <1> USE DEF Init, Finnhub!Init
  <1>1. FinnhubTyped
    BY PriceSourceAssumption DEF FinnhubTyped, PriceSourceAssumption
  <1>2. ASSUME NEW s \in Finnhub!BarSymbols
        PROVE  HandedInOrder(s) /\ NoGap(s, clock, lastTs[s]) /\ Settled(s)
    <2>1. given[s] = <<>> /\ answered[s] = {} /\ lastTs[s] = 0 /\ clock = StartClock
      OBVIOUS
    <2> QED
      BY <2>1, BarLengthIs DEF HandedInOrder, NoGap, Settled
  <1> QED
    BY <1>1, <1>2 DEF FinnhubInv

\* Time passes, the task moves, but nothing is handed over or answered.
LEMMA FinnhubIdle ==
    ASSUME FinnhubInv,
           UNCHANGED <<given, answered, lastTs>>,
           clock' \in Nat, clock <= clock',
           fetchedAt' \in Nat, fetchedAt <= fetchedAt', fetchedAt' <= clock',
           round' \in Seq(Finnhub!BarSymbols), batch' \subseteq Nat,
           source' = "finnhub" /\ pc' \in {"batch", "handler"} => Reading'
    PROVE  FinnhubInv'
  <1>1. FinnhubTyped'
    BY PriceSourceAssumption DEF FinnhubInv, FinnhubTyped, PriceSourceAssumption
  <1>2. ASSUME NEW s \in Finnhub!BarSymbols
        PROVE  HandedInOrder(s)' /\ NoGap(s, clock, lastTs[s])' /\ Settled(s)'
    <2> USE GivenIs, BarLengthIs
    <2>0. HandedInOrder(s) /\ NoGap(s, clock, lastTs[s]) /\ Settled(s) /\ FinnhubTyped
      BY DEF FinnhubInv
    <2>1. HandedInOrder(s)'
      <3>1. \A n \in Nat : n + BarLength[s] <= fetchedAt => n + BarLength[s] <= fetchedAt'
        BY <2>0 DEF FinnhubTyped
      <3> QED
        BY <2>0, <3>1 DEF HandedInOrder
    <2>2. NoGap(s, clock, lastTs[s])'
      <3>1. \A b \in Nat : clock' - 3 * BarLength[s] <= b => clock - 3 * BarLength[s] <= b
        <4>1. clock \in Nat /\ BarLength[s] \in Nat
          BY <2>0 DEF FinnhubTyped
        <4> DEFINE w == 3 * BarLength[s]
        <4>2. w \in Int
          BY <4>1
        <4> HIDE DEF w
        <4>3. \A b \in Nat : clock' - w <= b => clock - w <= b
          <5> DEFINE old == clock
                     new == clock'
          <5>1. old \in Int /\ new \in Int /\ old <= new
            BY <4>1
          <5> HIDE DEF old, new
          <5>2. \A b \in Nat : new - w <= b => old - w <= b
            BY <4>2, <5>1
          <5> QED
            BY <5>2 DEF old, new
        <4> QED
          BY <4>3 DEF w
      <3> QED
        BY <2>0, <3>1 DEF NoGap, Bars
    <2>3. Settled(s)'
      BY DEF FinnhubInv, Settled, NoGap, Bars
    <2> QED
      BY <2>1, <2>2, <2>3
  <1> QED
    BY <1>1, <1>2 DEF FinnhubInv

LEMMA FinnhubFetch ==
    ASSUME FinnhubInv, Finnhub!FetchAnswered, UNCHANGED source
    PROVE  FinnhubInv'
  <1> DEFINE s == Head(round)
  <1> USE DEF Finnhub!FetchAnswered
  <1>1. s \in Finnhub!BarSymbols
    BY HeadIs DEF FinnhubInv, FinnhubTyped
  <1>2. /\ batch' \subseteq Nat
        /\ \A t \in batch' : Opens(t, s) /\ t <= clock
        /\ \A b \in Nat : /\ Opens(b, s) /\ clock - 3 * BarLength[s] <= b /\ b <= clock
                          => b \in batch'
    BY <1>1, BarLengthIs DEF Finnhub!Window, Opens, FinnhubInv, FinnhubTyped
  <1>3. NoGap(s, clock, lastTs[s])
    BY <1>1 DEF FinnhubInv
  <1>4. Reading'
    BY <1>2, <1>3 DEF Reading, NoGap, Bars, FinnhubInv, FinnhubTyped
  <1> QED
    BY <1>2, <1>4, FinnhubIdle DEF FinnhubInv, FinnhubTyped

LEMMA FinnhubHandOver ==
    ASSUME FinnhubInv, Finnhub!HandOver, source = "finnhub", UNCHANGED source
    PROVE  FinnhubInv'
  <1>0. PICK s \in Finnhub!BarSymbols : s = Head(round) /\ round # <<>>
    BY HeadIs DEF FinnhubInv, FinnhubTyped, Reading, Finnhub!HandOver
  <1>1. PICK t \in batch :
          /\ \A u \in batch : t <= u
          /\ batch' = batch \ {t}
          /\ IF t <= lastTs[s]
             THEN UNCHANGED <<pc, lastTs, given>>
             ELSE /\ lastTs' = [lastTs EXCEPT ![s] = t]
                  /\ given' = [given EXCEPT ![s] =
                         Append(@, [bar |-> t, final |-> t + BarLength[s] <= fetchedAt])]
                  /\ pc' = "handler"
    BY <1>0 DEF Finnhub!HandOver, Finnhub!Marked
  <1>2. UNCHANGED <<clock, round, fetchedAt, answered>>
    BY DEF Finnhub!HandOver
  <1>3. Reading /\ FinnhubTyped
    BY DEF FinnhubInv, Finnhub!HandOver
  <1>4. s \in Finnhub!BarSymbols /\ t \in Nat /\ Opens(t, s) /\ t <= fetchedAt
    BY <1>0, <1>3 DEF Reading, FinnhubTyped
  <1>5. /\ HandedInOrder(s) /\ NoGap(s, clock, lastTs[s]) /\ Settled(s)
        /\ BarLength[s] \in Nat \ {0}
        /\ fetchedAt \in Nat /\ clock \in Nat /\ fetchedAt <= clock /\ lastTs[s] \in Nat
    BY <1>3, <1>4, BarLengthIs DEF FinnhubInv, FinnhubTyped
  \* What is older than t has been handed over.
  <1>6. \A b \in Nat : /\ Opens(b, s) /\ fetchedAt - 3 * BarLength[s] <= b /\ b < t
                       => b \in Bars(s)
    BY <1>0, <1>1, <1>3, <1>4, <1>5 DEF Reading, FinnhubTyped
  <1>7. CASE t <= lastTs[s]
    <2>1. t >= fetchedAt - 3 * BarLength[s] => t \in Bars(s)
      BY <1>0, <1>3, <1>4, <1>7 DEF Reading, NoGap
    <2>2. Reading'
      <3>1. Bars(s)' = Bars(s) /\ lastTs' = lastTs /\ s = Head(round') /\ round' # <<>>
        BY <1>0, <1>1, <1>2, <1>7 DEF Bars
      <3>2. \A u \in batch' : Opens(u, s) /\ u <= fetchedAt
        BY <1>0, <1>1, <1>3 DEF Reading
      <3>3. \A b \in Nat : /\ Opens(b, s)
                           /\ fetchedAt - 3 * BarLength[s] <= b /\ b <= fetchedAt
                           => b \in Bars(s) \cup batch'
        BY <1>0, <1>1, <1>3, <1>5, <2>1 DEF Reading
      <3>4. NoGap(s, fetchedAt, lastTs[s])' /\ StartClock <= fetchedAt
        BY <1>0, <1>2, <1>3, <3>1 DEF Reading, NoGap
      <3> QED
        BY <1>2, <3>1, <3>2, <3>3, <3>4 DEF Reading, Opens
    <2> QED
      BY <1>1, <1>2, <1>3, <1>7, <2>2, FinnhubIdle DEF FinnhubTyped
  <1>8. CASE ~(t <= lastTs[s])
    <2> DEFINE x == [bar |-> t, final |-> t + BarLength[s] <= fetchedAt]
    <2>1. /\ lastTs' = [lastTs EXCEPT ![s] = t]
          /\ given' = [given EXCEPT ![s] = Append(@, x)]
      BY <1>1, <1>8
    <2>2. x \in [bar : Nat, final : BOOLEAN]
      BY <1>4
    <2>3. given[s] \in Seq([bar : Nat, final : BOOLEAN])
      BY <1>3, <1>4 DEF FinnhubTyped
    <2> DEFINE n == Len(given[s])
    <2>4. /\ given'[s] = Append(given[s], x) /\ lastTs'[s] = t
          /\ n \in Nat /\ DOMAIN given[s] = 1..n /\ DOMAIN given'[s] = 1..(n + 1)
          /\ given'[s][n + 1] = x
          /\ \A i \in 1..n : given'[s][i] = given[s][i]
      BY <1>3, <1>4, <2>1, <2>2, <2>3 DEF FinnhubTyped
    <2>5. \A i \in 1..n : given[s][i].bar \in Nat
      BY <1>3, <1>4, <2>4, GivenIs
    <2>6. Bars(s)' = Bars(s) \cup {t}
      <3>1. \A i \in 1..(n + 1) : i \in 1..n \/ i = n + 1
        BY <2>4
      <3>2. (n + 1) \in 1..(n + 1) /\ (\A i \in 1..n : i \in 1..(n + 1))
        BY <2>4
      <3>3. Bars(s)' = {given'[s][i].bar : i \in 1..(n + 1)}
        BY <2>4 DEF Bars
      <3>4. Bars(s) = {given[s][i].bar : i \in 1..n}
        BY <2>4 DEF Bars
      <3>5. x.bar = t
        OBVIOUS
      <3> HIDE DEF x, n
      <3> QED
        BY <2>4, <3>1, <3>2, <3>3, <3>4, <3>5
    <2>7. FinnhubTyped'
      <3>1. given' \in [Finnhub!BarSymbols -> Seq([bar : Nat, final : BOOLEAN])]
        <4>1. Append(given[s], x) \in Seq([bar : Nat, final : BOOLEAN])
          BY <2>2, <2>3
        <4> HIDE DEF x
        <4> QED
          BY <1>3, <2>1, <4>1 DEF FinnhubTyped
      <3>2. lastTs' \in [Finnhub!BarSymbols -> Nat]
        BY <1>3, <1>4, <2>1 DEF FinnhubTyped
      <3> QED
        BY <1>1, <1>2, <1>3, <3>1, <3>2 DEF FinnhubTyped
    <2>8. HandedInOrder(s)'
      <3>1. x.bar = t /\ (x.final => t + BarLength[s] <= fetchedAt)
        OBVIOUS
      <3>2. \A i \in 1..(n + 1) : i \in 1..n \/ i = n + 1
        BY <2>4
      <3>3. \A i \in 1..n : given[s][i].bar <= lastTs[s] /\ given[s][i].bar < t
        <4>1. \A i \in 1..n : given[s][i].bar <= lastTs[s]
          BY <1>5, <2>4 DEF HandedInOrder
        <4>2. lastTs[s] \in Nat /\ t \in Nat /\ lastTs[s] < t
          BY <1>4, <1>5, <1>8
        <4> HIDE DEF n
        <4> QED
          BY <2>5, <4>1, <4>2
      <3>4. \A i \in 1..n : given[s][i].final => given[s][i].bar + BarLength[s] <= fetchedAt
        BY <1>5, <2>4 DEF HandedInOrder
      <3>5. \A i, j \in 1..n : i < j => given[s][i].bar < given[s][j].bar
        BY <1>5, <2>4 DEF HandedInOrder
      <3> HIDE DEF x, n
      <3>6. ASSUME NEW i \in 1..(n + 1), NEW j \in 1..(n + 1), i < j
            PROVE  given'[s][i].bar < given'[s][j].bar
        <4>1. i \in 1..n
          BY <2>4, <3>6
        <4>2. CASE j \in 1..n
          BY <2>4, <3>5, <3>6, <4>1, <4>2
        <4>3. CASE j = n + 1
          BY <2>4, <3>1, <3>3, <4>1, <4>3
        <4> QED
          BY <3>2, <4>2, <4>3
      <3>7. ASSUME NEW i \in 1..(n + 1)
            PROVE  /\ given'[s][i].bar <= lastTs'[s]
                   /\ given'[s][i].final => given'[s][i].bar + BarLength[s] <= fetchedAt'
        <4>1. CASE i \in 1..n
          <5>1. given'[s][i] = given[s][i] /\ given[s][i].bar \in Nat /\ given[s][i].bar < t
            BY <2>4, <2>5, <3>3, <4>1
          <5>2. given[s][i].final => given[s][i].bar + BarLength[s] <= fetchedAt
            BY <3>4, <4>1
          <5> QED
            BY <1>2, <1>4, <2>4, <5>1, <5>2
        <4>2. CASE i = n + 1
          BY <1>2, <1>4, <2>4, <3>1, <4>2
        <4> QED
          BY <3>2, <4>1, <4>2
      <3> QED
        BY <2>4, <3>6, <3>7 DEF HandedInOrder
    <2>9. NoGap(s, clock, lastTs[s])' /\ NoGap(s, fetchedAt, lastTs[s])'
      <3>1. \A b \in Nat : /\ Opens(b, s) /\ fetchedAt - 3 * BarLength[s] <= b /\ b <= t
                           => b \in Bars(s)'
        BY <1>4, <1>6, <2>6
      <3>2. \A b \in Nat : clock - 3 * BarLength[s] <= b => fetchedAt - 3 * BarLength[s] <= b
        BY <1>5
      <3> QED
        BY <1>2, <2>4, <3>1, <3>2 DEF NoGap
    <2>10. Settled(s)'
      <3> SUFFICES ASSUME NEW c \in answered[s]
                   PROVE  /\ StartClock <= c
                          /\ NoGap(s, c, c)'
                          /\ \A i \in 1..(n + 1) : given'[s][i].final =>
                               ~(given'[s][i].bar <= c /\ c < given'[s][i].bar + BarLength[s])
        BY <1>2, <2>4 DEF Settled
      <3>1. StartClock <= c /\ NoGap(s, c, c)
        BY <1>5 DEF Settled
      <3>2. c \in Nat
        BY <1>3, <1>4, GivenIs
      <3>3. NoGap(s, c, c)'
        BY <3>1, <2>6 DEF NoGap
      <3>4. t \notin Bars(s)
        BY <1>5, <1>8, <2>4 DEF Bars, HandedInOrder
      <3>5. ~(t <= c /\ c < t + BarLength[s])
        BY <1>4, <1>5, <3>1, <3>2, <3>4 DEF NoGap
      <3>6. ASSUME NEW i \in 1..(n + 1)
            PROVE  given'[s][i].final =>
                     ~(given'[s][i].bar <= c /\ c < given'[s][i].bar + BarLength[s])
        <4>1. CASE i = n + 1
          BY <2>4, <3>5, <4>1
        <4>2. CASE i # n + 1
          <5>1. i \in 1..n
            BY <2>4, <4>2
          <5> QED
            BY <1>5, <2>4, <5>1 DEF Settled
        <4> QED
          BY <4>1, <4>2
      <3> QED
        BY <3>1, <3>3, <3>6
    <2>11. ASSUME NEW r \in Finnhub!BarSymbols
           PROVE  HandedInOrder(r)' /\ NoGap(r, clock, lastTs[r])' /\ Settled(r)'
      <3>1. CASE r = s
        BY <3>1, <2>8, <2>9, <2>10
      <3>2. CASE r # s
        <4>1. given'[r] = given[r] /\ lastTs'[r] = lastTs[r]
          <5> HIDE DEF x
          <5> QED
            BY <1>3, <1>4, <2>1, <3>2 DEF FinnhubTyped
        <4>2. HandedInOrder(r) /\ NoGap(r, clock, lastTs[r]) /\ Settled(r)
          BY DEF FinnhubInv
        <4> QED
          BY <1>2, <4>1, <4>2 DEF HandedInOrder, NoGap, Settled, Bars
      <3> QED
        BY <3>1, <3>2
    <2>12. Reading'
      <3>1. s = Head(round') /\ round' # <<>> /\ StartClock <= fetchedAt'
        BY <1>0, <1>2, <1>3 DEF Reading
      <3>2. \A u \in batch' : Opens(u, s) /\ u <= fetchedAt
        BY <1>0, <1>1, <1>3 DEF Reading
      <3>3. \A b \in Nat : /\ Opens(b, s)
                           /\ fetchedAt - 3 * BarLength[s] <= b /\ b <= fetchedAt
                           => b \in Bars(s)' \cup batch'
        BY <1>0, <1>1, <1>3, <2>6 DEF Reading
      <3> QED
        BY <1>0, <1>2, <2>9, <3>1, <3>2, <3>3 DEF Reading, Opens
    <2> QED
      BY <2>7, <2>11, <2>12 DEF FinnhubInv
  <1> QED
    BY <1>7, <1>8

LEMMA FinnhubBatchEnds ==
    ASSUME FinnhubInv, Finnhub!BatchEnds, source = "finnhub", UNCHANGED source
    PROVE  FinnhubInv'
  <1> DEFINE s == Head(round)
  <1> USE DEF Finnhub!BatchEnds, Finnhub!NextSymbol
  <1>1. Reading /\ FinnhubTyped /\ s \in Finnhub!BarSymbols
    BY HeadIs DEF FinnhubInv, Reading, FinnhubTyped
  <1>2. FinnhubTyped'
    BY <1>1, HeadIs DEF FinnhubTyped, Reading
  <1>3. NoGap(s, fetchedAt, fetchedAt) /\ StartClock <= fetchedAt
    BY <1>1 DEF Reading, NoGap
  <1>4. ASSUME NEW r \in Finnhub!BarSymbols
        PROVE  HandedInOrder(r)' /\ NoGap(r, clock, lastTs[r])' /\ Settled(r)'
    <2>1. HandedInOrder(r) /\ NoGap(r, clock, lastTs[r]) /\ Settled(r)
      BY DEF FinnhubInv
    <2>2. HandedInOrder(r)' /\ NoGap(r, clock, lastTs[r])'
      BY <2>1 DEF HandedInOrder, NoGap, Bars
    <2>3. ASSUME NEW c \in answered'[r]
          PROVE  /\ StartClock <= c
                 /\ NoGap(r, c, c)'
                 /\ \A i \in DOMAIN given[r] : given[r][i].final =>
                      ~(given[r][i].bar <= c /\ c < given[r][i].bar + BarLength[r])
      <3>1. CASE c \in answered[r]
        BY <2>1, <3>1 DEF Settled, NoGap, Bars
      <3>2. CASE c \notin answered[r]
        <4>1. r = s /\ c = fetchedAt
          BY <1>1, <2>3, <3>2 DEF FinnhubTyped
        <4>2. \A i \in DOMAIN given[r] : given[r][i].final =>
                given[r][i].bar + BarLength[r] <= c
          BY <2>1, <4>1 DEF HandedInOrder
        <4>3. \A i \in DOMAIN given[r] : given[r][i].bar \in Nat
          BY <1>1, GivenIs
        <4>4. BarLength[r] \in Nat /\ c \in Nat
          BY <1>1, <4>1, BarLengthIs DEF FinnhubTyped
        <4>5. \A i \in DOMAIN given[r] : given[r][i].final =>
                ~(given[r][i].bar <= c /\ c < given[r][i].bar + BarLength[r])
          <5> TAKE i \in DOMAIN given[r]
          <5>1. given[r][i].bar \in Nat
            BY <4>3
          <5> QED
            BY <4>2, <4>4, <5>1
        <4>6. NoGap(r, c, c)' /\ StartClock <= c
          BY <1>3, <4>1 DEF NoGap, Bars
        <4> QED
          BY <4>5, <4>6
      <3> QED
        BY <3>1, <3>2
    <2> QED
      BY <2>2, <2>3 DEF Settled
  <1> QED
    BY <1>2, <1>4 DEF FinnhubInv

LEMMA FinnhubStep == FinnhubInv /\ [Next]_vars => FinnhubInv'
  <1> SUFFICES ASSUME FinnhubInv, [Next]_vars PROVE FinnhubInv'
    OBVIOUS
  <1>1. FinnhubTyped
    BY DEF FinnhubInv
  <1>2. CASE RestNext
    BY <1>1, <1>2, FinnhubIdle DEF RestNext, finnhubVars, FinnhubTyped
  <1>3. CASE UNCHANGED vars
    <2>1. UNCHANGED Reading
      BY <1>3 DEF vars, finnhubVars, Reading, NoGap, Bars
    <2> QED
      BY <1>1, <1>3, <2>1, FinnhubIdle DEF vars, finnhubVars, FinnhubTyped, FinnhubInv
  <1>4. ASSUME FinnhubNext PROVE FinnhubInv'
    <2> USE <1>4 DEF FinnhubNext
    <2>1. Finnhub!BarSymbols = Finnhub!BarSymbols
      OBVIOUS
    <2>2. CASE Finnhub!Start
      <3>1. Feeds \in Seq(Finnhub!BarSymbols)
        BY PriceSourceAssumption DEF PriceSourceAssumption, Finnhub!BarSymbols, Range, Finnhub!Range
      <3> QED
        BY <1>1, <2>2, <3>1, FinnhubIdle DEF Finnhub!Start, FinnhubTyped
    <2>3. CASE Finnhub!RequestStop
      <3>1. UNCHANGED Reading
        BY <2>3 DEF Finnhub!RequestStop, Reading, NoGap, Bars
      <3> QED
        BY <1>1, <2>3, <3>1, FinnhubIdle DEF Finnhub!RequestStop, FinnhubTyped, FinnhubInv
    <2>4. CASE Finnhub!Cancelled
      BY <1>1, <2>4, FinnhubIdle DEF Finnhub!Cancelled, FinnhubTyped
    <2>14. CASE Finnhub!StopReturns
      BY <1>1, <2>14, FinnhubIdle DEF Finnhub!StopReturns, FinnhubTyped
    <2>5. CASE Finnhub!FetchAnswered
      BY <2>5, FinnhubFetch
    <2>6. CASE Finnhub!FetchFailed
      BY <1>1, <2>6, HeadIs, FinnhubIdle DEF Finnhub!FetchFailed, Finnhub!NextSymbol, FinnhubTyped
    <2>7. CASE Finnhub!HandOver
      BY <2>7, FinnhubHandOver
    <2>8. CASE Finnhub!BatchEnds
      BY <2>8, FinnhubBatchEnds
    <2>9. CASE Finnhub!HandlerReturns
      <3>1. Reading /\ UNCHANGED <<clock, round, batch, fetchedAt, lastTs, given>>
        BY <2>9 DEF Finnhub!HandlerReturns, Finnhub!InHandler, FinnhubInv
      <3>2. Reading'
        BY <3>1 DEF Reading, NoGap, Bars
      <3> QED
        BY <1>1, <2>9, <3>2, FinnhubIdle DEF Finnhub!HandlerReturns, FinnhubTyped
    <2>10. CASE Finnhub!HandlerRaises
      <3>1. round # <<>>
        BY <2>10 DEF Finnhub!HandlerRaises, Finnhub!InHandler, FinnhubInv, Reading
      <3> QED
        BY <1>1, <2>10, <3>1, HeadIs, FinnhubIdle
        DEF Finnhub!HandlerRaises, Finnhub!NextSymbol, FinnhubTyped
    <2>11. CASE Finnhub!Sleep
      BY <1>1, <2>11, FinnhubIdle DEF Finnhub!Sleep, FinnhubTyped
    <2>12. CASE Finnhub!Wake
      <3>1. Feeds \in Seq(Finnhub!BarSymbols)
        BY PriceSourceAssumption DEF PriceSourceAssumption, Finnhub!BarSymbols, Range, Finnhub!Range
      <3> QED
        BY <1>1, <2>12, <3>1, SleepTimeIs, FinnhubIdle DEF Finnhub!Wake, FinnhubTyped
    <2>13. CASE Finnhub!TimePasses
      <3>1. UNCHANGED <<round, batch, fetchedAt, lastTs, given>>
        BY <2>13 DEF Finnhub!TimePasses
      <3>2. UNCHANGED Reading
        BY <3>1 DEF Reading, NoGap, Bars
      <3> QED
        BY <1>1, <2>13, <3>2, FinnhubIdle DEF Finnhub!TimePasses, FinnhubTyped, FinnhubInv
    <2> QED
      BY <2>2, <2>3, <2>4, <2>5, <2>6, <2>7, <2>8, <2>9, <2>10, <2>11, <2>12, <2>13, <2>14
      DEF Finnhub!Next
  <1> QED
    BY <1>2, <1>3, <1>4 DEF Next

(* FinnhubPoller: whatever fails, however slow it is and whenever the       *)
(* handler raises, each bar is handed over at most once and in order,       *)
(* passed over only if no answer was looked at to its end for three         *)
(* intervals, and handed over finished only if none was while it formed.    *)
THEOREM BarsOnceInOrderHolds == Spec => []BarsOnceInOrder
  <1>1. FinnhubInv => BarsOnceInOrder
    <2> SUFFICES ASSUME FinnhubInv, NEW s \in Finnhub!BarSymbols
                 PROVE  /\ \A i, j \in DOMAIN given[s] : i < j => given[s][i].bar < given[s][j].bar
                        /\ \A c \in answered[s] :
                             \A t \in (c - 3 * BarLength[s])..c : t % BarLength[s] = 0 => t \in Bars(s)
                        /\ \A i \in DOMAIN given[s] : given[s][i].final =>
                             (given[s][i].bar .. (given[s][i].bar + BarLength[s] - 1))
                               \cap answered[s] = {}
      BY DEF BarsOnceInOrder, Bars
    <2>1. HandedInOrder(s) /\ Settled(s) /\ FinnhubTyped
      BY DEF FinnhubInv
    <2>2. \A c \in answered[s] : c \in Nat
      BY <2>1 DEF FinnhubTyped
    <2>3. \A i \in DOMAIN given[s] : given[s][i].bar \in Nat
      BY <2>1, GivenIs
    <2>4. BarLength[s] \in Nat /\ 4 * BarLength[s] <= StartClock /\ StartClock \in Nat
      BY BarLengthIs
    <2>5. ASSUME NEW c \in answered[s], NEW t \in (c - 3 * BarLength[s])..c,
                 t % BarLength[s] = 0
          PROVE  t \in Bars(s)
      <3>1. t \in Nat /\ c - 3 * BarLength[s] <= t /\ t <= c
        BY <2>1, <2>2, <2>4 DEF Settled
      <3> QED
        BY <2>1, <2>5, <3>1 DEF Settled, NoGap, Opens
    <2>6. ASSUME NEW i \in DOMAIN given[s], given[s][i].final, NEW c \in answered[s]
          PROVE  c \notin given[s][i].bar .. (given[s][i].bar + BarLength[s] - 1)
      BY <2>1, <2>2, <2>3, <2>4, <2>6 DEF Settled
    <2> QED
      BY <2>1, <2>5, <2>6 DEF HandedInOrder
  <1> QED
    BY <1>1, FinnhubInit, FinnhubStep, PTL DEF Spec

-----------------------------------------------------------------------------
(***************************************************************************)
(* RestPricePoller: what the candles are made of.                           *)
(***************************************************************************)
Syms == Rest!Symbols

Runs == Seq(Nat \ {0})

Quote == [sym : Syms, mid : Nat]

Buffer == [open : Nat, high : Nat, low : Nat, close : Nat, volume : Nat, age : Nat]

\* The prices ps still has for a symbol, and that it has one at most.
UnusedIn(ps, s) == {p.mid : p \in {q \in {ps[i] : i \in DOMAIN ps} : q.sym = s /\ q.mid > 0}}

OncePerSymbol(ps) == \A i, j \in DOMAIN ps : ps[i].sym = ps[j].sym => i = j

\* The buffer is the summary of a run of prices.
Fits(b, run) ==
    /\ b.open = run[1] /\ b.close = run[Len(run)] /\ b.volume = Len(run) - 1
    /\ \E i \in DOMAIN run : b.high = run[i]
    /\ \E i \in DOMAIN run : b.low = run[i]
    /\ \A i \in DOMAIN run : b.low <= run[i] /\ run[i] <= b.high

Summed(bufs, run) ==
    /\ bufs = {} <=> run = <<>>
    /\ \A b \in bufs : Fits(b, run)

\* The last price of unspent has been answered but is not yet in the buffer.
Ahead(s) == UnusedIn(prices, s) # {}

Matches(s) ==
    /\ Ahead(s) => \E run \in Runs : \E mid \in UnusedIn(prices, s) :
                     unspent[s] = Append(run, mid) /\ Summed(buffers[s], run)
    /\ ~Ahead(s) => Summed(buffers[s], unspent[s])

RestTyped ==
    /\ instruments \in Seq(Syms) /\ IsInjective(instruments)
    /\ todo \in Seq(Syms) /\ IsInjective(todo)
    /\ prices \in Seq(Quote) /\ OncePerSymbol(prices)
    /\ \A i \in DOMAIN prices, k \in DOMAIN todo : prices[i].sym # todo[k]
    /\ pc \notin {"quotes", "candles", "handler"} => prices = <<>>
    /\ unspent \in [Syms -> Runs]
    /\ buffers \in [Syms -> SUBSET Buffer]

RestInv == source = "rest" => RestTyped /\ \A s \in Syms : Matches(s)

LEMMA UnusedIs == \A s : Rest!Unused(s) = UnusedIn(prices, s)
  BY DEF Rest!Unused, UnusedIn, Rest!Range

LEMMA ListIs ==
    ASSUME NEW list \in Listings
    PROVE  list \in Seq(Syms) /\ IsInjective(list)
  <1>1. list \in Seq(Range(list)) /\ IsInjective(list)
    BY PriceSourceAssumption DEF PriceSourceAssumption
  <1>2. Range(list) \subseteq Syms
    BY DEF Syms, Rest!Symbols, Rest!Range, Range
  <1> QED
    BY <1>1, <1>2

\* The first price is used: the other symbols keep theirs.
LEMMA UseFirst ==
    ASSUME NEW ps \in Seq(Quote), ps # <<>>, OncePerSymbol(ps), NEW s \in Syms
    PROVE  /\ Head(ps) \in Quote
           /\ Tail(ps) \in Seq(Quote) /\ OncePerSymbol(Tail(ps))
           /\ \A i \in DOMAIN Tail(ps) : i + 1 \in DOMAIN ps /\ Tail(ps)[i] = ps[i + 1]
           /\ s # Head(ps).sym => UnusedIn(Tail(ps), s) = UnusedIn(ps, s)
           /\ s = Head(ps).sym =>
                /\ UnusedIn(Tail(ps), s) = {}
                /\ UnusedIn(ps, s) = IF Head(ps).mid > 0 THEN {Head(ps).mid} ELSE {}
  <1> DEFINE n == Len(ps)
             r == Tail(ps)
  <1>1. /\ n \in Nat /\ n >= 1 /\ DOMAIN ps = 1..n /\ DOMAIN r = 1..(n - 1)
        /\ r \in Seq(Quote) /\ Head(ps) = ps[1] /\ ps[1] \in Quote
        /\ \A i \in 1..(n - 1) : r[i] = ps[i + 1] /\ i + 1 \in 1..n
    OBVIOUS
  <1> HIDE DEF n, r
  <1>2. \A i \in 1..n : i = 1 \/ (i - 1 \in 1..(n - 1) /\ (i - 1) + 1 = i)
    BY <1>1
  <1>3. OncePerSymbol(r)
    <2> SUFFICES ASSUME NEW i \in 1..(n - 1), NEW j \in 1..(n - 1), r[i].sym = r[j].sym
                 PROVE  i = j
      BY <1>1 DEF OncePerSymbol
    <2>1. ps[i + 1].sym = ps[j + 1].sym /\ i + 1 \in DOMAIN ps /\ j + 1 \in DOMAIN ps
      BY <1>1
    <2>2. i + 1 = j + 1
      BY <2>1 DEF OncePerSymbol
    <2> QED
      BY <2>2
  <1>4. \A i \in 1..(n - 1) : r[i].sym # ps[1].sym
    <2> SUFFICES ASSUME NEW i \in 1..(n - 1), r[i].sym = ps[1].sym PROVE FALSE
      OBVIOUS
    <2>1. i + 1 \in DOMAIN ps /\ 1 \in DOMAIN ps /\ i + 1 # 1
      BY <1>1
    <2>2. ps[i + 1].sym = ps[1].sym
      BY <1>1
    <2> QED
      BY <2>1, <2>2 DEF OncePerSymbol
  <1>5. \A m : m \in UnusedIn(ps, s) <=> \E i \in 1..n : ps[i].sym = s /\ ps[i].mid > 0 /\ m = ps[i].mid
    <2>1. \A m : m \in UnusedIn(ps, s)
                   <=> \E i \in DOMAIN ps : ps[i].sym = s /\ ps[i].mid > 0 /\ m = ps[i].mid
      BY Zenon DEF UnusedIn
    <2> QED
      BY <1>1, <2>1
  <1>6. \A m : m \in UnusedIn(r, s) <=>
                 \E i \in 1..(n - 1) : r[i].sym = s /\ r[i].mid > 0 /\ m = r[i].mid
    BY <1>1 DEF UnusedIn
  <1>7. ASSUME s # ps[1].sym PROVE UnusedIn(r, s) = UnusedIn(ps, s)
    <2>1. ASSUME NEW m \in UnusedIn(ps, s) PROVE m \in UnusedIn(r, s)
      <3>1. PICK i \in 1..n : ps[i].sym = s /\ ps[i].mid > 0 /\ m = ps[i].mid
        BY <1>5
      <3>2. i - 1 \in 1..(n - 1) /\ r[i - 1] = ps[i]
        BY <1>1, <1>2, <1>7, <3>1
      <3> QED
        BY <1>6, <3>1, <3>2
    <2>2. ASSUME NEW m \in UnusedIn(r, s) PROVE m \in UnusedIn(ps, s)
      BY <1>1, <1>5, <1>6
    <2> QED
      BY <2>1, <2>2
  <1>8. ASSUME s = ps[1].sym
        PROVE  /\ UnusedIn(r, s) = {}
               /\ UnusedIn(ps, s) = IF ps[1].mid > 0 THEN {ps[1].mid} ELSE {}
    <2>1. UnusedIn(r, s) = {}
      BY <1>4, <1>6, <1>8
    <2>3. 1 \in 1..n
      BY <1>1
    <2>2. \A i \in 1..n : ps[i].sym = s => i = 1
      <3> SUFFICES ASSUME NEW i \in 1..n, ps[i].sym = s PROVE i = 1
        OBVIOUS
      <3>1. i \in DOMAIN ps /\ 1 \in DOMAIN ps /\ ps[i].sym = ps[1].sym
        BY <1>1, <1>8, <2>3
      <3> QED
        BY <3>1 DEF OncePerSymbol
    <2>4. \A m : m \in UnusedIn(ps, s) <=> ps[1].mid > 0 /\ m = ps[1].mid
      BY <1>5, <1>8, <2>2, <2>3
    <2> QED
      BY <2>1, <2>4
  <1> QED
    BY <1>1, <1>3, <1>7, <1>8 DEF r, n

LEMMA RunAppend ==
    ASSUME NEW run \in Runs, NEW mid \in Nat \ {0}
    PROVE  /\ Append(run, mid) \in Runs /\ Append(run, mid) # <<>>
           /\ Len(Append(run, mid)) = Len(run) + 1 /\ Len(run) \in Nat
           /\ DOMAIN Append(run, mid) = 1..(Len(run) + 1) /\ DOMAIN run = 1..Len(run)
           /\ Append(run, mid)[Len(run) + 1] = mid
           /\ \A i \in 1..Len(run) : Append(run, mid)[i] = run[i] /\ run[i] \in Nat \ {0}
  BY DEF Runs

LEMMA FitsFirst ==
    ASSUME NEW mid \in Nat \ {0}
    PROVE  Summed({Rest!NewBuffer(mid)}, <<mid>>)
  <1> DEFINE b == Rest!NewBuffer(mid)
             run == <<mid>>
  <1>1. DOMAIN run = {1} /\ Len(run) = 1 /\ run[1] = mid /\ run # <<>>
    OBVIOUS
  <1>2. /\ b.open = mid /\ b.close = mid /\ b.high = mid /\ b.low = mid /\ b.volume = 0
    BY DEF Rest!NewBuffer
  <1> HIDE DEF b, run
  <1>3. Fits(b, run)
    BY <1>1, <1>2 DEF Fits
  <1> QED
    BY <1>1, <1>3 DEF Summed, b, run

LEMMA FitsMore ==
    ASSUME NEW run \in Runs, run # <<>>, NEW b \in Buffer, Fits(b, run), NEW mid \in Nat \ {0}
    PROVE  Fits(Rest!Include(b, mid), Append(run, mid))
  <1> DEFINE n == Len(run)
             a == Append(run, mid)
             c == Rest!Include(b, mid)
  <1>1. /\ n \in Nat \ {0} /\ DOMAIN run = 1..n /\ DOMAIN a = 1..(n + 1) /\ Len(a) = n + 1
        /\ a[n + 1] = mid /\ \A i \in 1..n : a[i] = run[i] /\ run[i] \in Nat \ {0}
    BY RunAppend DEF Runs
  <1>2. /\ c.open = b.open /\ c.close = mid /\ c.volume = b.volume + 1
        /\ c.high = IF mid > b.high THEN mid ELSE b.high
        /\ c.low = IF mid < b.low THEN mid ELSE b.low
    BY DEF Rest!Include, Buffer
  <1>3. b.open = run[1] /\ b.volume = n - 1
    BY DEF Fits
  <1>4. PICK h \in 1..n : b.high = run[h]
    BY <1>1 DEF Fits
  <1>5. PICK l \in 1..n : b.low = run[l]
    BY <1>1 DEF Fits
  <1>6. \A i \in 1..n : b.low <= run[i] /\ run[i] <= b.high
    BY <1>1 DEF Fits
  <1> HIDE DEF n, a, c
  <1>7. c.open = a[1] /\ c.close = a[n + 1] /\ c.volume = (n + 1) - 1
    BY <1>1, <1>2, <1>3
  <1>8. n + 1 \in 1..(n + 1) /\ (\A i \in 1..n : i \in 1..(n + 1))
        /\ \A i \in 1..(n + 1) : i \in 1..n \/ i = n + 1
    BY <1>1
  <1>9. \E i \in 1..(n + 1) : c.high = a[i]
    BY <1>1, <1>2, <1>4, <1>8
  <1>10. \E i \in 1..(n + 1) : c.low = a[i]
    BY <1>1, <1>2, <1>5, <1>8
  <1>11. ASSUME NEW i \in 1..(n + 1) PROVE c.low <= a[i] /\ a[i] <= c.high
    <2>1. b.high \in Nat /\ b.low \in Nat
      BY <1>1, <1>4, <1>5
    <2>2. CASE i \in 1..n
      BY <1>1, <1>2, <1>6, <2>1, <2>2
    <2>3. CASE i = n + 1
      BY <1>1, <1>2, <2>1, <2>3
    <2> QED
      BY <1>8, <2>2, <2>3
  <1> QED
    BY <1>1, <1>7, <1>9, <1>10, <1>11 DEF Fits, n, a, c

LEMMA SummaryIs ==
    ASSUME NEW run \in Runs, run # <<>>, NEW b, Fits(b, run)
    PROVE  Rest!Bar(b) = Summary(run)
  <1> DEFINE n == Len(run)
  <1>1. n \in Nat \ {0} /\ DOMAIN run = 1..n /\ \A i \in 1..n : run[i] \in Nat
    BY DEF Runs
  <1>2. \A x : x \in Range(run) <=> \E i \in 1..n : x = run[i]
    BY <1>1 DEF Range
  <1>3. b.high \in Range(run) /\ \A x \in Range(run) : x <= b.high /\ x \in Nat
    BY <1>1, <1>2 DEF Fits
  <1>4. b.low \in Range(run) /\ \A x \in Range(run) : b.low <= x /\ x \in Nat
    BY <1>1, <1>2 DEF Fits
  <1>5. Max(Range(run)) = b.high
    BY <1>3 DEF Max
  <1>6. Min(Range(run)) = b.low
    BY <1>4 DEF Min
  <1> QED
    BY <1>5, <1>6 DEF Rest!Bar, Summary, Fits, Last

LEMMA RestInit == Init => RestInv
  <1> SUFFICES ASSUME Init PROVE RestTyped /\ \A s \in Syms : Matches(s)
    BY DEF RestInv
  <1> USE DEF Init, Rest!Init
  <1>1. RestTyped
    BY DEF RestTyped, Syms, Runs, IsInjective, OncePerSymbol
  <1>2. ASSUME NEW s \in Syms PROVE Matches(s)
    <2>1. ~Ahead(s) /\ buffers[s] = {} /\ unspent[s] = <<>>
      BY DEF Ahead, UnusedIn, Syms
    <2> QED
      BY <2>1 DEF Matches, Summed
  <1> QED
    BY <1>1, <1>2

\* Time leaves the prices of a buffer alone.
LEMMA AgedIs ==
    ASSUME RestTyped, NEW s \in Syms
    PROVE  /\ Rest!Aged \in [Syms -> SUBSET Buffer]
           /\ \A run : Summed(buffers[s], run) => Summed(Rest!Aged[s], run)
  <1> DEFINE Older(b) == [b EXCEPT !.age = IF @ < CandleTicks THEN @ + 1 ELSE @]
  <1>1. \A r \in Syms : Rest!Aged[r] = {Older(b) : b \in buffers[r]}
    BY DEF Rest!Aged, Syms
  <1>2. ASSUME NEW b \in Buffer
        PROVE  /\ Older(b) \in Buffer
               /\ \A run : Fits(b, run) => Fits(Older(b), run)
    BY DEF Buffer, Fits
  <1> HIDE DEF Older
  <1>3. ASSUME NEW r \in Syms PROVE Rest!Aged[r] \subseteq Buffer
    BY <1>1, <1>2 DEF RestTyped
  <1>4. Rest!Aged \in [Syms -> SUBSET Buffer]
    BY <1>3 DEF Rest!Aged, Syms
  <1>5. ASSUME NEW run, Summed(buffers[s], run) PROVE Summed(Rest!Aged[s], run)
    <2>1. buffers[s] \subseteq Buffer
      BY DEF RestTyped
    <2> QED
      BY <1>1, <1>2, <1>5, <2>1 DEF Summed
  <1> QED
    BY <1>4, <1>5

\* A step that leaves prices and unspent alone.
LEMMA RestIdle ==
    ASSUME RestTyped, \A s \in Syms : Matches(s),
           UNCHANGED <<unspent, prices>>,
           buffers' = buffers \/ buffers' = Rest!Aged
    PROVE  \A s \in Syms : Matches(s)'
  <1> SUFFICES ASSUME NEW s \in Syms PROVE Matches(s)'
    OBVIOUS
  <1>1. \A run : Summed(buffers[s], run) => Summed(buffers'[s], run)
    BY AgedIs
  <1>2. Ahead(s)' <=> Ahead(s)
    BY DEF Ahead
  <1> QED
    BY <1>1, <1>2 DEF Matches

\* The end of a tick: the prices not yet used are thrown away.
LEMMA RestEnds ==
    ASSUME RestTyped, \A s \in Syms : Matches(s), Rest!EndTick,
           UNCHANGED <<instruments, buffers>>
    PROVE  RestTyped' /\ \A s \in Syms : Matches(s)'
  <1>1. /\ pc' = "sleep" /\ prices' = <<>> /\ todo' = <<>>
        /\ unspent' = [s \in Syms |->
               IF UnusedIn(prices, s) = {} THEN unspent[s] ELSE Front(unspent[s])]
    BY UnusedIs DEF Rest!EndTick, Syms, Front, Rest!Front
  <1>2. ASSUME NEW s \in Syms PROVE unspent'[s] \in Runs /\ Matches(s)'
    <2>1. ~Ahead(s)'
      BY <1>1 DEF Ahead, UnusedIn
    <2>2. CASE UnusedIn(prices, s) = {}
      BY <1>1, <2>1, <2>2 DEF Matches, Ahead, RestTyped
    <2>3. CASE UnusedIn(prices, s) # {}
      <3>1. PICK run \in Runs, mid \in UnusedIn(prices, s) :
              unspent[s] = Append(run, mid) /\ Summed(buffers[s], run)
        BY <1>1, <2>3 DEF Matches, Ahead
      <3>2. Front(Append(run, mid)) = run
        BY DEF Front, Runs
      <3> QED
        BY <1>1, <2>1, <2>3, <3>1, <3>2 DEF Matches
    <2> QED
      BY <2>2, <2>3
  <1>3. unspent' \in [Syms -> Runs]
    <2>1. DOMAIN unspent' = Syms
      BY <1>1
    <2> QED
      BY <1>1, <1>2, <2>1
  <1>4. RestTyped'
    BY <1>1, <1>3 DEF RestTyped, IsInjective, OncePerSymbol
  <1> QED
    BY <1>2, <1>4

\* A step that uses the first price of a symbol.
LEMMA RestTake ==
    ASSUME RestTyped, \A s \in Syms : Matches(s),
           NEW sym \in Syms, NEW mid \in Nat, Rest!TakePrice(sym, mid),
           pc' \in {"candles", "handler"},
           unspent' \in [Syms -> Runs], buffers' \in [Syms -> SUBSET Buffer],
           \A s \in Syms : s # sym => unspent'[s] = unspent[s] /\ buffers'[s] = buffers[s],
           Summed(buffers'[sym], unspent'[sym])
    PROVE  RestTyped' /\ \A s \in Syms : Matches(s)'
  <1>1. /\ prices \in Seq(Quote) /\ prices # <<>> /\ OncePerSymbol(prices)
        /\ Head(prices).sym = sym /\ Head(prices).mid = mid
        /\ prices' = Tail(prices) /\ UNCHANGED <<instruments, todo>> /\ pc = "candles"
    BY DEF RestTyped, Rest!TakePrice
  <1>2. RestTyped'
    <2>1. \A i \in DOMAIN prices', k \in DOMAIN todo : prices'[i].sym # todo[k]
      BY <1>1, UseFirst DEF RestTyped
    <2> QED
      BY <1>1, <2>1, UseFirst DEF RestTyped
  <1>3. ASSUME NEW s \in Syms PROVE Matches(s)'
    <2>1. CASE s = sym
      <3>1. ~Ahead(s)'
        BY <1>1, <2>1, UseFirst DEF Ahead
      <3> QED
        BY <2>1, <3>1 DEF Matches
    <2>2. CASE s # sym
      <3>1. UnusedIn(prices', s) = UnusedIn(prices, s)
        BY <1>1, <2>2, UseFirst
      <3>2. Ahead(s)' <=> Ahead(s)
        BY <1>1, <3>1 DEF Ahead
      <3> QED
        BY <2>2, <3>1, <3>2 DEF Matches
    <2> QED
      BY <2>1, <2>2
  <1> QED
    BY <1>2, <1>3

\* The price a step takes is the newest of unspent, and the buffer holds the
\* ones before.
LEMMA RestTaken ==
    ASSUME RestTyped, \A s \in Syms : Matches(s),
           NEW sym \in Syms, NEW mid \in Nat \ {0}, Rest!TakePrice(sym, mid)
    PROVE  \E run \in Runs : unspent[sym] = Append(run, mid) /\ Summed(buffers[sym], run)
  <1>1. /\ prices \in Seq(Quote) /\ prices # <<>> /\ OncePerSymbol(prices)
        /\ Head(prices).sym = sym /\ Head(prices).mid = mid /\ pc = "candles"
    BY DEF RestTyped, Rest!TakePrice
  <1>2. UnusedIn(prices, sym) = {mid}
    BY <1>1, UseFirst
  <1> QED
    BY <1>1, <1>2 DEF Ahead, Matches

LEMMA RestUseless ==
    ASSUME RestTyped, \A s \in Syms : Matches(s), NEW sym \in Syms, Rest!UselessPrice(sym)
    PROVE  RestTyped' /\ \A s \in Syms : Matches(s)'
  <1>1. /\ Rest!TakePrice(sym, 0) /\ UNCHANGED <<pc, buffers, unspent>>
    BY DEF Rest!UselessPrice
  <1>2. UnusedIn(prices, sym) = {}
    <2>1. /\ prices \in Seq(Quote) /\ prices # <<>> /\ OncePerSymbol(prices)
          /\ Head(prices).sym = sym /\ Head(prices).mid = 0
      BY <1>1 DEF RestTyped, Rest!TakePrice
    <2> QED
      BY <2>1, UseFirst
  <1>3. Summed(buffers[sym], unspent[sym])
    BY <1>2 DEF Matches, Ahead
  <1> QED
    BY <1>1, <1>3, RestTake DEF RestTyped, Rest!TakePrice

LEMMA RestFirst ==
    ASSUME RestTyped, \A s \in Syms : Matches(s), NEW sym \in Syms, NEW mid \in Nat \ {0},
           Rest!FirstPrice(sym, mid)
    PROVE  RestTyped' /\ \A s \in Syms : Matches(s)'
  <1>1. /\ Rest!TakePrice(sym, mid) /\ UNCHANGED <<pc, unspent>> /\ buffers[sym] = {}
        /\ buffers' = [buffers EXCEPT ![sym] = {Rest!NewBuffer(mid)}]
    BY DEF Rest!FirstPrice
  <1>2. PICK run \in Runs : unspent[sym] = Append(run, mid) /\ Summed(buffers[sym], run)
    BY <1>1, RestTaken
  <1>3. unspent[sym] = <<mid>>
    BY <1>1, <1>2 DEF Summed
  <1>4. Rest!NewBuffer(mid) \in Buffer
    BY DEF Rest!NewBuffer, Buffer
  <1>5. /\ buffers' \in [Syms -> SUBSET Buffer] /\ buffers'[sym] = {Rest!NewBuffer(mid)}
        /\ \A s \in Syms : s # sym => buffers'[s] = buffers[s]
    BY <1>1, <1>4 DEF RestTyped
  <1>6. Summed(buffers'[sym], unspent'[sym])
    BY <1>1, <1>3, <1>5, FitsFirst
  <1> QED
    BY <1>1, <1>5, <1>6, RestTake DEF RestTyped, Rest!TakePrice

LEMMA RestMore ==
    ASSUME RestTyped, \A s \in Syms : Matches(s), NEW sym \in Syms, NEW mid \in Nat \ {0},
           Rest!MorePrice(sym, mid)
    PROVE  RestTyped' /\ \A s \in Syms : Matches(s)'
  <1>1. Rest!TakePrice(sym, mid) /\ UNCHANGED <<pc, unspent>>
    BY DEF Rest!MorePrice
  <1>2. PICK b \in buffers[sym] : buffers' = [buffers EXCEPT ![sym] = {Rest!Include(b, mid)}]
    BY DEF Rest!MorePrice
  <1>3. PICK run \in Runs : unspent[sym] = Append(run, mid) /\ Summed(buffers[sym], run)
    BY <1>1, RestTaken
  <1>4. b \in Buffer /\ Fits(b, run) /\ run # <<>>
    BY <1>2, <1>3 DEF RestTyped, Summed
  <1>5. Rest!Include(b, mid) \in Buffer
    <2> DEFINE high == IF mid > b.high THEN mid ELSE b.high
               low == IF mid < b.low THEN mid ELSE b.low
    <2>1. Rest!Include(b, mid) = [b EXCEPT !.high = high, !.low = low, !.close = mid,
                                           !.volume = b.volume + 1]
      BY <1>4, Zenon DEF Rest!Include, Buffer
    <2>2. high \in Nat /\ low \in Nat /\ b.volume + 1 \in Nat /\ mid \in Nat
      BY <1>4 DEF Buffer
    <2>3. PICK volume \in Nat : volume = b.volume + 1
      BY <2>2
    <2> HIDE DEF high, low
    <2>4. Rest!Include(b, mid) = [b EXCEPT !.high = high, !.low = low, !.close = mid,
                                           !.volume = volume]
      BY <2>1, <2>3
    <2>5. [b EXCEPT !.high = high, !.low = low, !.close = mid, !.volume = volume] \in Buffer
      BY <1>4, <2>2 DEF Buffer
    <2> QED
      BY <2>4, <2>5
  <1>6. /\ buffers' \in [Syms -> SUBSET Buffer] /\ buffers'[sym] = {Rest!Include(b, mid)}
        /\ \A s \in Syms : s # sym => buffers'[s] = buffers[s]
    BY <1>2, <1>5 DEF RestTyped
  <1>7. Fits(Rest!Include(b, mid), Append(run, mid)) /\ Append(run, mid) # <<>>
    BY <1>4, FitsMore, RunAppend
  <1>8. Summed(buffers'[sym], unspent'[sym])
    BY <1>1, <1>3, <1>6, <1>7 DEF Summed
  <1> QED
    BY <1>1, <1>6, <1>8, RestTake DEF RestTyped, Rest!TakePrice

\* The step that finishes a candle.
LEMMA RestLast ==
    ASSUME RestTyped, \A s \in Syms : Matches(s), NEW sym \in Syms, NEW mid \in Nat \ {0},
           Rest!LastPrice(sym, mid)
    PROVE  /\ RestTyped' /\ \A s \in Syms : Matches(s)'
           /\ candle' = {Summary(unspent[Head(prices).sym])}
  <1>1. /\ Rest!TakePrice(sym, mid) /\ pc' = "handler"
        /\ unspent' = [unspent EXCEPT ![sym] = <<mid>>]
        /\ buffers' = [buffers EXCEPT ![sym] = {Rest!NewBuffer(mid)}]
    BY DEF Rest!LastPrice, Rest!Reopened
  <1>2. PICK b \in buffers[sym] : candle' = {Rest!Bar(Rest!Include(b, mid))}
    BY DEF Rest!LastPrice
  <1>3. PICK run \in Runs : unspent[sym] = Append(run, mid) /\ Summed(buffers[sym], run)
    BY <1>1, RestTaken
  <1>4. b \in Buffer /\ Fits(b, run) /\ run # <<>>
    BY <1>2, <1>3 DEF RestTyped, Summed
  <1>5. Fits(Rest!Include(b, mid), Append(run, mid)) /\ Append(run, mid) \in Runs
        /\ Append(run, mid) # <<>>
    BY <1>4, FitsMore, RunAppend
  <1>6. Rest!Bar(Rest!Include(b, mid)) = Summary(unspent[sym])
    BY <1>3, <1>5, SummaryIs
  <1>7. Head(prices).sym = sym
    BY <1>1 DEF Rest!TakePrice
  <1>8. Rest!NewBuffer(mid) \in Buffer /\ <<mid>> \in Runs
    BY DEF Rest!NewBuffer, Buffer, Runs
  <1>9. /\ buffers' \in [Syms -> SUBSET Buffer] /\ buffers'[sym] = {Rest!NewBuffer(mid)}
        /\ unspent' \in [Syms -> Runs] /\ unspent'[sym] = <<mid>>
        /\ \A s \in Syms : s # sym => unspent'[s] = unspent[s] /\ buffers'[s] = buffers[s]
    BY <1>1, <1>8 DEF RestTyped
  <1>10. Summed(buffers'[sym], unspent'[sym])
    BY <1>9, FitsFirst
  <1>11. RestTyped' /\ \A s \in Syms : Matches(s)'
    BY <1>1, <1>9, <1>10, RestTake
  <1> QED
    BY <1>2, <1>6, <1>7, <1>11

\* A quote arrives: its symbol leaves todo, its price is one ahead of the buffer.
LEMMA RestAnswered ==
    ASSUME RestTyped, \A s \in Syms : Matches(s), NEW mid \in Nat, Rest!QuoteAnswered(mid)
    PROVE  RestTyped' /\ \A s \in Syms : Matches(s)'
  <1> DEFINE q == [sym |-> Head(todo), mid |-> mid]
             n == Len(prices)
  <1>1. /\ pc = "quotes" /\ pc' = pc /\ todo # <<>> /\ todo' = Tail(todo)
        /\ prices' = Append(prices, q) /\ UNCHANGED <<instruments, buffers>>
        /\ unspent' = [s \in Syms |-> IF s = Head(todo) /\ mid > 0
                                      THEN Append(unspent[s], mid) ELSE unspent[s]]
    BY DEF Rest!QuoteAnswered, Rest!Asking, Syms
  <1>2. q \in Quote /\ q.sym = todo[1] /\ q.mid = mid /\ Head(todo) = todo[1] /\ todo[1] \in Syms
    BY <1>1 DEF RestTyped, Quote
  <1>3. /\ todo \in Seq(Syms) /\ DOMAIN todo = 1..Len(todo) /\ Len(todo) \in Nat /\ Len(todo) >= 1
        /\ todo' \in Seq(Syms) /\ DOMAIN todo' = 1..(Len(todo) - 1)
        /\ \A k \in 1..(Len(todo) - 1) : todo'[k] = todo[k + 1] /\ k + 1 \in 1..Len(todo)
    BY <1>1 DEF RestTyped
  <1>4. /\ n \in Nat /\ DOMAIN prices = 1..n /\ DOMAIN prices' = 1..(n + 1)
        /\ \A i \in 1..n : prices'[i] = prices[i]
        /\ prices'[n + 1] = q
        /\ \A i \in 1..(n + 1) : i \in 1..n \/ i = n + 1
    BY <1>1 DEF RestTyped
  <1>5. prices' \in Seq(Quote)
    BY <1>1, <1>2 DEF RestTyped
  <1> HIDE DEF q, n
  <1>6. IsInjective(todo')
    <2> SUFFICES ASSUME NEW a \in DOMAIN todo', NEW b \in DOMAIN todo', todo'[a] = todo'[b]
                 PROVE  a = b
      BY DEF IsInjective
    <2>1. a \in 1..(Len(todo) - 1) /\ b \in 1..(Len(todo) - 1)
      BY <1>3
    <2>2. todo[a + 1] = todo[b + 1] /\ a + 1 \in DOMAIN todo /\ b + 1 \in DOMAIN todo
      BY <1>3, <2>1
    <2>3. a + 1 = b + 1
      BY <2>2 DEF RestTyped, IsInjective
    <2> QED
      BY <2>1, <2>3
  <1>7. \A i \in 1..n : prices[i].sym # q.sym
    <2>1. 1 \in DOMAIN todo
      BY <1>3
    <2> QED
      BY <1>2, <1>4, <2>1 DEF RestTyped
  <1>8. OncePerSymbol(prices')
    BY <1>4, <1>7 DEF RestTyped, OncePerSymbol
  <1>9. ASSUME NEW i \in DOMAIN prices', NEW k \in DOMAIN todo' PROVE prices'[i].sym # todo'[k]
    <2>1. todo'[k] = todo[k + 1] /\ k + 1 \in DOMAIN todo /\ k + 1 # 1 /\ 1 \in DOMAIN todo
      BY <1>3
    <2>2. CASE i \in 1..n
      BY <1>4, <2>1, <2>2 DEF RestTyped
    <2>3. CASE i = n + 1
      BY <1>2, <1>4, <2>1, <2>3 DEF RestTyped, IsInjective
    <2> QED
      BY <1>4, <2>2, <2>3
  <1>10. ASSUME NEW s \in Syms
         PROVE  /\ s # q.sym => UnusedIn(prices', s) = UnusedIn(prices, s)
                /\ s = q.sym => /\ UnusedIn(prices, s) = {}
                                /\ UnusedIn(prices', s) = IF mid > 0 THEN {mid} ELSE {}
    <2>1. \A m : m \in UnusedIn(prices, s) <=>
                   \E i \in 1..n : prices[i].sym = s /\ prices[i].mid > 0 /\ m = prices[i].mid
      BY <1>4 DEF UnusedIn
    <2>2. \A m : m \in UnusedIn(prices', s) <=>
                   \E i \in 1..(n + 1) : prices'[i].sym = s /\ prices'[i].mid > 0 /\ m = prices'[i].mid
      BY <1>4 DEF UnusedIn
    <2>3. (\A i \in 1..n : i \in 1..(n + 1)) /\ n + 1 \in 1..(n + 1)
      BY <1>4
    <2>4. ASSUME s # q.sym PROVE UnusedIn(prices', s) = UnusedIn(prices, s)
      <3>1. ASSUME NEW m \in UnusedIn(prices, s) PROVE m \in UnusedIn(prices', s)
        BY <1>4, <2>1, <2>2, <2>3
      <3>2. ASSUME NEW m \in UnusedIn(prices', s) PROVE m \in UnusedIn(prices, s)
        BY <1>4, <2>1, <2>2, <2>4
      <3> QED
        BY <3>1, <3>2
    <2>5. ASSUME s = q.sym
          PROVE  UnusedIn(prices, s) = {} /\ UnusedIn(prices', s) = IF mid > 0 THEN {mid} ELSE {}
      <3>1. UnusedIn(prices, s) = {}
        BY <1>7, <2>1, <2>5
      <3>2. \A m : m \in UnusedIn(prices', s) <=> mid > 0 /\ m = mid
        BY <1>2, <1>4, <1>7, <2>2, <2>3, <2>5
      <3> QED
        BY <3>1, <3>2
    <2> QED
      BY <2>4, <2>5
  <1>11. ASSUME NEW s \in Syms PROVE unspent'[s] \in Runs /\ Matches(s)'
    <2>1. unspent[s] \in Runs
      BY DEF RestTyped
    <2>2. CASE s = q.sym /\ mid > 0
      <3>1. unspent'[s] = Append(unspent[s], mid) /\ mid \in Nat \ {0}
        BY <1>1, <1>2, <2>2
      <3>2. Summed(buffers[s], unspent[s])
        BY <1>10, <2>2 DEF Matches, Ahead
      <3>3. UnusedIn(prices', s) = {mid}
        BY <1>10, <2>2
      <3> QED
        BY <1>1, <2>1, <3>1, <3>2, <3>3, RunAppend DEF Matches, Ahead
    <2>3. CASE ~(s = q.sym /\ mid > 0)
      <3>1. unspent'[s] = unspent[s] /\ buffers'[s] = buffers[s]
        BY <1>1, <1>2, <2>3
      <3>2. UnusedIn(prices', s) = UnusedIn(prices, s)
        BY <1>10, <2>3
      <3> QED
        BY <2>1, <3>1, <3>2 DEF Matches, Ahead
    <2> QED
      BY <2>2, <2>3
  <1>12. unspent' \in [Syms -> Runs]
    <2>1. DOMAIN unspent' = Syms
      BY <1>1
    <2> QED
      BY <1>1, <1>11, <2>1
  <1>13. RestTyped'
    BY <1>1, <1>3, <1>5, <1>6, <1>8, <1>9, <1>12 DEF RestTyped
  <1> QED
    BY <1>11, <1>13

\* The property as a formula about one step.
Covers ==
    source = "rest" /\ ~Rest!InHandler /\ Rest!InHandler' =>
        candle' = {Summary(unspent[Head(prices).sym])}

LEMMA RestLoopStep ==
    ASSUME RestTyped, \A s \in Syms : Matches(s), Rest!LoopStep
    PROVE  RestTyped' /\ (\A s \in Syms : Matches(s)') /\ Covers
  <1>1. ASSUME NEW mid \in Mids \cup {0}, Rest!QuoteAnswered(mid)
        PROVE  RestTyped' /\ (\A s \in Syms : Matches(s)') /\ Covers
    <2>1. mid \in Nat
      BY PriceSourceAssumption DEF PriceSourceAssumption
    <2>2. RestTyped' /\ \A s \in Syms : Matches(s)'
      BY <1>1, <2>1, RestAnswered
    <2>3. pc' = pc
      BY <1>1 DEF Rest!QuoteAnswered
    <2> QED
      BY <2>2, <2>3 DEF Covers, Rest!InHandler
  <1>2. ASSUME Rest!QuoteFailed \/ Rest!TokenRenewed
        PROVE  RestTyped' /\ (\A s \in Syms : Matches(s)') /\ Covers
    <2>1. /\ UNCHANGED <<unspent, buffers, pc, prices, instruments>> /\ pc = "quotes"
          /\ todo # <<>> /\ todo' = Tail(todo)
      BY <1>2 DEF Rest!QuoteFailed, Rest!TokenRenewed, Rest!Asking
    <2>2. /\ todo' \in Seq(Syms)
          /\ \A k \in DOMAIN todo' : k + 1 \in DOMAIN todo /\ todo'[k] = todo[k + 1] /\ k \in Nat
      BY <2>1 DEF RestTyped
    <2>3. IsInjective(todo')
      <3> SUFFICES ASSUME NEW a \in DOMAIN todo', NEW b \in DOMAIN todo', todo'[a] = todo'[b]
                   PROVE  a = b
        BY DEF IsInjective
      <3>1. a + 1 = b + 1 /\ a \in Nat /\ b \in Nat
        BY <2>2 DEF RestTyped, IsInjective
      <3> QED
        BY <3>1
    <2>4. RestTyped'
      BY <2>1, <2>2, <2>3 DEF RestTyped
    <2> QED
      BY <2>1, <2>4, RestIdle DEF Covers, Rest!InHandler
  <1>3. CASE Rest!RenewalFailed
    <2>1. Rest!EndTick /\ UNCHANGED <<instruments, buffers>> /\ pc' = "sleep"
      BY <1>3 DEF Rest!RenewalFailed, Rest!EndTick
    <2> QED
      BY <2>1, RestEnds DEF Covers, Rest!InHandler
  <1>4. CASE Rest!Polled
    <2>1. /\ UNCHANGED <<instruments, buffers>> /\ pc = "quotes"
          /\ \/ Rest!EndTick
             \/ pc' = "candles" /\ UNCHANGED <<todo, prices, unspent>>
      BY <1>4 DEF Rest!Polled
    <2>2. CASE Rest!EndTick
      <3>1. pc' = "sleep"
        BY <2>2 DEF Rest!EndTick
      <3> QED
        BY <2>1, <2>2, <3>1, RestEnds DEF Covers, Rest!InHandler
    <2>3. CASE pc' = "candles" /\ UNCHANGED <<todo, prices, unspent>>
      <3>1. RestTyped'
        BY <2>1, <2>3 DEF RestTyped
      <3> QED
        BY <2>1, <2>3, <3>1, RestIdle DEF Covers, Rest!InHandler
    <2> QED
      BY <2>1, <2>2, <2>3
  <1>5. CASE Rest!AllUsed
    <2>1. Rest!EndTick /\ UNCHANGED <<instruments, buffers>> /\ pc' = "sleep"
      BY <1>5 DEF Rest!AllUsed, Rest!EndTick
    <2> QED
      BY <2>1, RestEnds DEF Covers, Rest!InHandler
  <1>6. ASSUME NEW sym \in Syms, Rest!UselessPrice(sym)
        PROVE  RestTyped' /\ (\A s \in Syms : Matches(s)') /\ Covers
    <2>1. Covers
      BY <1>6 DEF Rest!UselessPrice, Covers, Rest!InHandler
    <2> QED
      BY <1>6, <2>1, RestUseless
  <1>7. ASSUME NEW sym \in Syms, NEW mid \in Mids,
               Rest!FirstPrice(sym, mid) \/ Rest!MorePrice(sym, mid) \/ Rest!LastPrice(sym, mid)
        PROVE  RestTyped' /\ (\A s \in Syms : Matches(s)') /\ Covers
    <2>1. mid \in Nat \ {0}
      BY PriceSourceAssumption DEF PriceSourceAssumption
    <2>2. CASE Rest!FirstPrice(sym, mid)
      <3>1. Covers
        BY <2>2 DEF Rest!FirstPrice, Covers, Rest!InHandler
      <3> QED
        BY <2>1, <2>2, <3>1, RestFirst
    <2>3. CASE Rest!MorePrice(sym, mid)
      <3>1. Covers
        BY <2>3 DEF Rest!MorePrice, Covers, Rest!InHandler
      <3> QED
        BY <2>1, <2>3, <3>1, RestMore
    <2>4. CASE Rest!LastPrice(sym, mid)
      BY <2>1, <2>4, RestLast DEF Covers
    <2> QED
      BY <1>7, <2>2, <2>3, <2>4
  <1>8. CASE Rest!HandlerReturns
    <2>1. /\ UNCHANGED <<unspent, buffers, instruments, prices, todo>>
          /\ pc = "handler" /\ pc' = "candles"
      BY <1>8 DEF Rest!HandlerReturns, Rest!InHandler
    <2>2. RestTyped'
      BY <2>1 DEF RestTyped
    <2> QED
      BY <2>1, <2>2, RestIdle DEF Covers, Rest!InHandler
  <1>9. CASE Rest!HandlerRaises
    <2>1. Rest!EndTick /\ UNCHANGED <<instruments, buffers>> /\ pc' = "sleep"
      BY <1>9 DEF Rest!HandlerRaises, Rest!EndTick
    <2> QED
      BY <2>1, RestEnds DEF Covers, Rest!InHandler
  <1>10. CASE Rest!Wake
    <2>1. /\ UNCHANGED <<unspent, instruments, prices>> /\ buffers' = Rest!Aged
          /\ pc = "sleep" /\ pc' = "quotes" /\ todo' = instruments
      BY <1>10 DEF Rest!Wake
    <2>2. RestTyped'
      <3>1. \A s \in Syms : Rest!Aged \in [Syms -> SUBSET Buffer]
        BY AgedIs
      <3>2. Rest!Aged \in [Syms -> SUBSET Buffer]
        BY <3>1 DEF Rest!Aged, Syms
      <3> QED
        BY <2>1, <3>2 DEF RestTyped
    <2> QED
      BY <2>1, <2>2, RestIdle DEF Covers, Rest!InHandler
  <1>11. CASE Rest!StopReturns
    <2>1. /\ UNCHANGED <<unspent, buffers, instruments, prices, todo>>
          /\ pc = "sleep" /\ pc' = "off"
      BY <1>11 DEF Rest!StopReturns, Rest!TaskEnds
    <2>2. RestTyped'
      BY <2>1 DEF RestTyped
    <2> QED
      BY <2>1, <2>2, RestIdle DEF Covers, Rest!InHandler
  <1> QED
    BY <1>1, <1>2, <1>3, <1>4, <1>5, <1>6, <1>7, <1>8, <1>9, <1>10, <1>11
    DEF Rest!LoopStep, Syms

LEMMA RestStep == TaskAlive /\ RestInv /\ [Next]_vars => RestInv' /\ [Covers]_vars
  <1> SUFFICES ASSUME TaskAlive, RestInv, [Next]_vars, source = "rest"
               PROVE  RestInv' /\ Covers
    BY DEF RestInv, Next, RestNext, FinnhubNext, vars, Covers
  <1>1. RestTyped /\ \A s \in Syms : Matches(s)
    BY DEF RestInv
  <1>2. CASE UNCHANGED vars
    <2>1. UNCHANGED <<pc, instruments, todo, prices, buffers, unspent>>
      BY <1>2 DEF vars, restVars
    <2>2. UNCHANGED RestTyped
      BY <2>1 DEF RestTyped
    <2> QED
      BY <1>1, <2>1, <2>2, RestIdle DEF RestInv, Covers, Rest!InHandler
  <1>3. CASE FinnhubNext
    BY <1>3 DEF FinnhubNext
  <1>4. CASE RestNext
    <2>1. ASSUME NEW resolved \in Listings, Rest!Start(resolved)
          PROVE  RestInv' /\ Covers
      <3>1. /\ UNCHANGED <<prices, buffers, unspent>> /\ pc = "off"
            /\ \/ pc' = "quotes" /\ instruments' = resolved /\ todo' = resolved
               \/ UNCHANGED <<instruments, pc, todo>>
        BY <2>1 DEF Rest!Start, TaskAlive
      <3>2. prices = <<>>
        BY <1>1, <3>1 DEF RestTyped
      <3>3. RestTyped'
        BY <1>1, <3>1, <3>2, ListIs DEF RestTyped
      <3> QED
        BY <1>1, <3>1, <3>3, RestIdle DEF RestInv, Covers, Rest!InHandler
    <2>2. ASSUME Rest!RequestStop \/ Rest!TokenExpires PROVE RestInv' /\ Covers
      <3>1. UNCHANGED <<pc, instruments, todo, prices, buffers, unspent>>
        BY <2>2 DEF Rest!RequestStop, Rest!TokenExpires
      <3>2. UNCHANGED RestTyped
        BY <3>1 DEF RestTyped
      <3> QED
        BY <1>1, <3>1, <3>2, RestIdle DEF RestInv, Covers, Rest!InHandler
    <2>3. CASE Rest!TimePasses
      <3>1. UNCHANGED <<pc, instruments, todo, prices, unspent>> /\ buffers' = Rest!Aged
        BY <2>3 DEF Rest!TimePasses
      <3>2. \A s \in Syms : Rest!Aged \in [Syms -> SUBSET Buffer]
        BY <1>1, AgedIs
      <3>3. Rest!Aged \in [Syms -> SUBSET Buffer]
        BY <3>2 DEF Rest!Aged, Syms
      <3>4. RestTyped'
        BY <1>1, <3>1, <3>3 DEF RestTyped
      <3> QED
        BY <1>1, <3>1, <3>4, RestIdle DEF RestInv, Covers, Rest!InHandler
    <2>4. CASE Rest!LoopStep
      BY <1>1, <2>4, RestLoopStep DEF RestInv
    <2> QED
      BY <1>4, <2>1, <2>2, <2>3, <2>4 DEF RestNext, Rest!Next
  <1> QED
    BY <1>2, <1>3, <1>4 DEF Next

(* RestPricePoller: each candle is the summary of all the prices answered   *)
(* since the last one of its symbol, from that candle's close on, whatever  *)
(* requests failed in between, without those a tick threw away unused: what *)
(* throws them away is the theorem after it.                                *)
THEOREM CandleCoversQuotesHolds == Spec => CandleCoversQuotes
  <1>1. CandleCoversQuotes <=> [][Covers]_vars
    BY DEF CandleCoversQuotes, Covers
  <1>2. TaskAlive /\ [Next]_vars => TaskAlive'
    BY FeedStep
  <1> QED
    BY <1>1, <1>2, AliveInit, RestInit, RestStep, PTL DEF Spec

(* RestPricePoller: an answered price is thrown away only by a failing      *)
(* login after a 401 or by the engine's handler raising, for any list of    *)
(* instruments and any order of answers and failures.                       *)
THEOREM QuotesLostOnlyByExceptionHolds == Spec => QuotesLostOnlyByException
  <1> DEFINE Excused ==
               \/ \A s \in Rest!Symbols : Rest!Unused(s) = {}
               \/ token = "expired" /\ todo # <<>>
               \/ Rest!InHandler
             Tick == source = "rest" /\ pc # "sleep" /\ pc' = "sleep" => Excused
  <1>1. ASSUME prices = <<>> PROVE Excused
    BY <1>1, UnusedIs DEF UnusedIn
  <1>2. [Next]_vars => [Tick]_vars
    <2> SUFFICES ASSUME Next, source = "rest", pc # "sleep", pc' = "sleep" PROVE Excused
      OBVIOUS
    <2>1. Rest!Next
      BY DEF Next, RestNext, FinnhubNext
    <2> HIDE DEF Excused
    <2>2. CASE Rest!LoopStep
      <3>1. CASE Rest!RenewalFailed
        BY <3>1 DEF Rest!RenewalFailed, Rest!Asking, Excused
      <3>2. CASE Rest!HandlerRaises
        BY <3>2 DEF Rest!HandlerRaises, Excused
      <3>3. CASE Rest!Polled
        BY <1>1, <3>3 DEF Rest!Polled
      <3>4. CASE Rest!AllUsed
        BY <1>1, <3>4 DEF Rest!AllUsed
      <3>5. ASSUME NEW mid, Rest!QuoteAnswered(mid) PROVE FALSE
        BY <3>5 DEF Rest!QuoteAnswered
      <3>6. ASSUME NEW sym, NEW mid,
                   \/ Rest!UselessPrice(sym) \/ Rest!FirstPrice(sym, mid)
                   \/ Rest!MorePrice(sym, mid) \/ Rest!LastPrice(sym, mid)
            PROVE  FALSE
        BY <3>6 DEF Rest!UselessPrice, Rest!FirstPrice, Rest!MorePrice, Rest!LastPrice
      <3>7. ASSUME \/ Rest!QuoteFailed \/ Rest!TokenRenewed \/ Rest!HandlerReturns
                   \/ Rest!Wake \/ Rest!StopReturns
            PROVE  FALSE
        BY <3>7 DEF Rest!QuoteFailed, Rest!TokenRenewed, Rest!HandlerReturns, Rest!Wake,
                    Rest!StopReturns
      <3> QED
        BY <2>2, <3>1, <3>2, <3>3, <3>4, <3>5, <3>6, <3>7 DEF Rest!LoopStep
    <2>3. CASE ~Rest!LoopStep
      BY <2>1, <2>3 DEF Rest!Next, Rest!Start, Rest!RequestStop, Rest!TokenExpires, Rest!TimePasses
    <2> QED
      BY <2>2, <2>3
  <1>3. QuotesLostOnlyByException <=> [][Tick]_vars
    BY DEF QuotesLostOnlyByException
  <1> QED
    BY <1>2, <1>3, PTL DEF Spec
=============================================================================
