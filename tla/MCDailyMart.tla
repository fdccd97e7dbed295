----------------------------- MODULE MCDailyMart -----------------------------
(* Small instances of DailyMart. *)
EXTENDS DailyMart, TLC

TickerSymmetry == Permutations(Tickers)
=============================================================================
