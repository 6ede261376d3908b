--------------------------- MODULE MCWatchRuntime ---------------------------
(* Small instance of WatchRuntime for TLC. *)
EXTENDS WatchRuntime, TLC

CONSTANTS s1, w1, w2, r1

\* One symbol: the watch, the request and the batch all compete for it.
MCSymbols == {s1}
MCWatches == {w1, w2}
MCRequests == {r1}
MCSymbolOf == [j \in {w1, w2, r1} |-> s1]

\* For the counterexample one watch is enough.
OneWatch == {w1}
OneSymbolOf == [j \in {w1, r1} |-> s1]
=============================================================================
