--------------------------- MODULE MCMarketReplay ---------------------------
(* Instances of MarketReplay for TLC. *)
EXTENDS MarketReplay, TLC

Deal(t, y, d) == [time |-> t, symbol |-> y, deal |-> d]

\* Two minutes out of order, with a tick sent again at once and again after another of
\* its second, and one after the session; the same minutes, shorter; a file without
\* columns.
FileSet ==
    {<<Deal(5, "A", 2), Deal(3, "A", 1), Deal(3, "A", 1), Deal(3, "A", 2), Deal(3, "A", 1),
       Deal(9, "A", 1)>>,
     <<Deal(3, "A", 1), Deal(4, "A", 1)>>,
     <<>>}

Limits(l, q, s, r, o) ==
    [rows |-> l, requests |-> q, starts |-> s, restarts |-> r, outages |-> o]

Paper == [enabled |-> TRUE, mode |-> "paper", is_halted |-> FALSE]
Halted == [enabled |-> FALSE, mode |-> "disabled", is_halted |-> TRUE]
Left == {Paper, [Paper EXCEPT !.mode = "live"], Halted}

\* Requests, and what they find; two replays, a restart and a failure; one and two
\* failures.
BoundSet ==
    {Limits(Left, Requests, 0, 0, 0), Limits({Paper}, {}, 2, 1, 1), Limits({Paper}, {}, 1, 0, 2)}

SymbolSet == {"A"}
Symmetric == Permutations(Requests)
=============================================================================
