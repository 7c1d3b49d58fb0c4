----------------------------- MODULE MCSignalPool -----------------------------
(* Instances of SignalPool for TLC. *)
EXTENDS SignalPool, TLC

CONSTANTS a, x1, x2, y1, x, y

\* Signals of two strategies for one symbol; x2 comes to another process.
ThreeSignals == {x1, x2, y1}
OneSymbol == [s \in ThreeSignals |-> a]
StrategyOf == (x1 :> x) @@ (x2 :> x) @@ (y1 :> y)
AllBuy == [s \in ThreeSignals |-> "BUY"]
Times == [s \in ThreeSignals |-> IF s = x2 THEN 2 ELSE 1]

\* One entry price; the best stop and the best target are not of one signal.
SameEntry == [s \in ThreeSignals |-> 5]
Stops == (x1 :> 3) @@ (x2 :> 0) @@ (y1 :> 4)
Targets == (x1 :> 6) @@ (x2 :> 7) @@ (y1 :> 0)
=============================================================================
