---------------------------- MODULE MCPaperLedger ----------------------------
(* Instances of PaperLedger for TLC. *)
EXTENDS PaperLedger, TLC

CONSTANTS t1, t2, t3, t4, i1, i2, i3

\* Two positions that do not fit the account together, one instrument each.
TwoTrades == {t1, t2}
TwoMargins == (t1 :> 2) @@ (t2 :> 3)
TwoInstruments == (t1 :> i1) @@ (t2 :> i2)

\* Two rows of one instrument and two of their own.
FourTrades == {t1, t2, t3, t4}
FourMargins == [t \in FourTrades |-> 1]
FourInstruments == (t1 :> i1) @@ (t2 :> i1) @@ (t3 :> i2) @@ (t4 :> i3)

\* A loss that overdraws the account, and a profit; a flat exit.
LossAndProfit == {-5, 1}
NoChange == {0}
=============================================================================
