----------------------------- MODULE PriceSource -----------------------------
(***************************************************************************)
(* The price source of the engine (Engine.start, step 9): Finnhub if an API *)
(* key is set, TradeLocker's quotes otherwise.  The engine talks to either  *)
(* as to a CandleFeed.                                                      *)
(***************************************************************************)
EXTENDS Integers, SequencesExt, FiniteSetsExt

CONSTANTS Listings, Mids, CandleTicks,               \* of RestPoller
          Feeds, BarLength, StartClock, MaxClock     \* of FinnhubPoller

ASSUME PriceSourceAssumption ==
    \* The keys of a dictionary.
    /\ \A list \in Listings : list \in Seq(Range(list)) /\ IsInjective(list)
    /\ Mids \subseteq Nat \ {0} /\ CandleTicks \in Nat \ {0}
    /\ Feeds \in Seq(Range(Feeds)) /\ Feeds # <<>>
    /\ BarLength \in [Range(Feeds) -> Nat \ {0}]
    /\ StartClock \in Nat /\ MaxClock \in Nat
    \* There are bars from before start().
    /\ \A s \in Range(Feeds) : 4 * BarLength[s] <= StartClock

VARIABLES
    source,     \* the class of self._rest_poller
    life, pc,   \* of the one chosen
    token, instruments, todo, prices, buffers, candle, unspent,
    clock, round, batch, fetchedAt, lastTs, given, answered

restVars == <<token, instruments, todo, prices, buffers, candle, unspent>>
finnhubVars == <<clock, round, batch, fetchedAt, lastTs, given, answered>>
vars == <<source, life, pc, restVars, finnhubVars>>

Rest == INSTANCE RestPoller
Finnhub == INSTANCE FinnhubPoller

Init == source \in {"rest", "finnhub"} /\ Rest!Init /\ Finnhub!Init

RestNext == source = "rest" /\ Rest!Next /\ UNCHANGED <<source, finnhubVars>>

FinnhubNext == source = "finnhub" /\ Finnhub!Next /\ UNCHANGED <<source, restVars>>

Next == RestNext \/ FinnhubNext

Spec ==
    /\ Init /\ [][Next]_vars
    /\ WF_vars(RestNext /\ Rest!LoopStep)
    /\ SF_vars(RestNext /\ Rest!TokenRenewed)
    /\ WF_vars(FinnhubNext /\ Finnhub!Ending)

-----------------------------------------------------------------------------
(***************************************************************************)
(* What the code does.                                                      *)
(***************************************************************************)

\* What the engine relies on.
Feed == INSTANCE CandleFeed WITH inHandler <- Rest!InHandler

(* Either poller is a CandleFeed: no candle comes after stop() has returned *)
(* or while the handler still has the last one, and stop() returns whatever *)
(* the task is waiting for.                                                 *)
ImplementsFeed == Feed!Spec

\* The candle of a run of prices; its first price only opens it.
Summary(run) ==
    [open |-> run[1], high |-> Max(Range(run)), low |-> Min(Range(run)),
     close |-> Last(run), volume |-> Len(run) - 1]

(* RestPricePoller: a candle is the summary of all the prices answered      *)
(* since the last one of its symbol, from that candle's close on, without   *)
(* those a tick threw away unused: none is counted twice, or in the candle  *)
(* of another interval, whatever ticks failed in between.                   *)
CandleCoversQuotes ==
    [][ (source = "rest" /\ ~Rest!InHandler /\ Rest!InHandler') =>
          LET s == Head(prices).sym
          IN  candle' = {Summary(unspent[s])} ]_vars

(* RestPricePoller: only two failures throw away prices that were answered, *)
(* those that raise out of the loop over the instruments: a login after a   *)
(* 401, which takes with it the prices of the instruments asked before, and *)
(* the engine's handler, which takes those of the instruments after its own.*)
(* A quote that fails in any other way costs no other instrument its price. *)
QuotesLostOnlyByException ==
    [][ (source = "rest" /\ pc # "sleep" /\ pc' = "sleep") =>
          \/ \A s \in Rest!Symbols : Rest!Unused(s) = {}
          \/ token = "expired" /\ todo # <<>>
          \/ Rest!InHandler ]_vars

(* RestPricePoller: an expired token is renewed in the end, although a tick *)
(* tries once per instrument, and a renewal that fails raises through the   *)
(* whole tick: the loop survives it.                                        *)
TokenHeals ==
    (source = "rest" /\ token = "expired" /\ life = "running" /\ instruments # <<>>)
        ~> (token = "valid" \/ life # "running")

(* FinnhubPoller: each bar is handed over at most once and in order, so one *)
(* handed over unfinished is never corrected.  A bar is passed over only if *)
(* no answer was looked at to its end for three intervals, and is handed    *)
(* over finished only if none was while it was forming: a poller that keeps *)
(* up delivers nothing but unfinished bars.                                 *)
BarsOnceInOrder ==
    \A s \in Finnhub!BarSymbols :
        LET bars == {given[s][i].bar : i \in DOMAIN given[s]}
            forming(b) == b..(b + BarLength[s] - 1)
        IN  /\ \A i, j \in DOMAIN given[s] : i < j => given[s][i].bar < given[s][j].bar
            /\ \A c \in answered[s] :
                 \A t \in (c - 3 * BarLength[s])..c : t % BarLength[s] = 0 => t \in bars
            /\ \A i \in DOMAIN given[s] :
                 given[s][i].final => forming(given[s][i].bar) \cap answered[s] = {}
=============================================================================
