-------------------------- MODULE MCPortfolioBatch --------------------------
(* Instances of PortfolioBatch for TLC. *)
EXTENDS PortfolioBatch, TLC

CONSTANTS p1, p2, old, a, b, buyX, sellX, buyY, buyZ, sellZ, buyV, x, y, z, v

AllSignals == {buyX, sellX, buyY, buyZ, sellZ, buyV}
SymbolOf == (buyX :> x) @@ (sellX :> x) @@ (buyY :> y) @@ (buyZ :> z) @@ (sellZ :> z)
            @@ (buyV :> v)
DirectionOf == [s \in AllSignals |-> IF s \in {sellX, sellZ} THEN "SELL" ELSE "BUY"]

ThreeBatches == {old, a, b}
HomeOfThree == (old :> p1) @@ (a :> p1) @@ (b :> p2)

\* Batches that reverse each other's positions, repeat a signal and would
\* open three positions together.
ReversingBatches == (old :> <<buyX, buyZ>>) @@ (a :> <<sellX, sellZ, buyY>>)
                    @@ (b :> <<sellZ, buyZ, buyV>>)
=============================================================================
