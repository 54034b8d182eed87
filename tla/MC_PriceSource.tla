---------------------------- MODULE MC_PriceSource ----------------------------
(* Two instruments; for Finnhub one with bars twice as long as the other's.  *)
EXTENDS PriceSource

MCFeeds == <<"EURUSD", "XAUUSD">>
MCListings == {<<>>, <<"EURUSD">>, <<"XAUUSD">>, <<"EURUSD", "XAUUSD">>}
MCBarLength == [s \in {"EURUSD", "XAUUSD"} |-> IF s = "EURUSD" THEN 1 ELSE 2]
=============================================================================
