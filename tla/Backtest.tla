------------------------------ MODULE Backtest ------------------------------
(***************************************************************************)
(* BacktestEngine: bars are replayed in order, an approved signal is       *)
(* filled at the open of the next bar, a trade ends at its stop or target, *)
(* or at the close of the last bar.  A walk-forward test is a series of    *)
(* runs on one engine.  Strategy and bars are inputs; the risk rules are   *)
(* those of RiskRules, with the clock on the wall where they take it.      *)
(***************************************************************************)
EXTENDS RiskRules

CONSTANTS
    None,
    Bars,       \* prices of a bar
    Offers,     \* signals: direction, distances of stop and target, ATR
    Engines,    \* risk engines: volumes loaded, errors counted, time and date of the wall
    initial_balance,
    MaxBars,    \* bars of a run (a bound)
    MaxRuns,    \* windows of a walk-forward test (a bound)
    MaxNights   \* nights during which a test runs (a bound)

Directions == {"BUY", "SELL"}
Waiting == [dir : Directions, stop : Int, target : Int, quantity : Int]
Trades == [dir : Directions, entry : Int, stop : Int, target : Int, quantity : Int]

ASSUME BacktestAssumption ==
    /\ None \notin Offers \cup Waiting \cup Trades
    /\ initial_balance \in Nat \ {0}
    /\ Bars \subseteq [open : Int, high : Int, low : Int, close : Int]
    /\ Offers \subseteq [dir : Directions, risk : Nat, reward : Nat, atr : Nat]
    /\ Engines \subseteq [adv : Int, errors : Nat, minute : Nat, now : Int]
    /\ {MaxBars, MaxRuns, MaxNights} \subseteq Nat

VARIABLES
    engine,     \* the risk engine given to the test
    count,      \* its count of signals for the symbol and the date on the wall
    sim,        \* balance, day, open trade and pending signal of the run
    bar,        \* bars gone by
    ended,      \* the run has returned its result
    runs,       \* runs begun
    before,     \* signals approved in the runs before this one
    nights      \* changes of the date on the wall

vars == <<engine, count, sim, bar, ended, runs, before, nights>>

Fresh ==
    [balance |-> initial_balance, peak |-> initial_balance, realised |-> 0, halt |-> "NONE",
     last |-> Never, atr |-> 0, open |-> None, pending |-> None, approved |-> 0, trades |-> 0]

Init ==
    /\ engine \in Engines /\ count = 0
    /\ sim = Fresh /\ bar = 0 /\ ended = FALSE
    /\ runs = 1 /\ before = 0 /\ nights = 0

-----------------------------------------------------------------------------
\* One bar, step by step.

Sign(dir) == IF dir = "BUY" THEN 1 ELSE -1

Trade(p, b) ==
    [dir |-> p.dir, entry |-> b.open, stop |-> p.stop, target |-> p.target,
     quantity |-> p.quantity]

\* Mutant of Filled: the pending signal is not forgotten.
FilledAgain(s, b) ==
    IF s.open = None /\ s.pending # None THEN [s EXCEPT !.open = Trade(s.pending, b)] ELSE s

Filled(s, b) ==
    IF s.open = None /\ s.pending # None
    THEN [s EXCEPT !.open = Trade(s.pending, b), !.pending = None]
    ELSE s

NewDay(s, begins) == IF begins THEN [s EXCEPT !.realised = 0, !.halt = "NONE"] ELSE s

\* The price of the bar that is best, and worst, for a trade.
Best(t, b) == IF t.dir = "BUY" THEN b.high ELSE b.low
Worst(t, b) == IF t.dir = "BUY" THEN b.low ELSE b.high

\* One ATR behind the best price of this bar, once it is one ATR ahead.
Trailed(s, b) ==
    LET t == s.open
        d == Sign(t.dir)
        new == Best(t, b) - d * s.atr
    IN IF t # None /\ s.atr > 0 /\ d * (Best(t, b) - t.entry) >= s.atr /\ d * new > d * t.stop
       THEN [s EXCEPT !.open.stop = new]
       ELSE s

StopHit(t, b) == Sign(t.dir) * Worst(t, b) <= Sign(t.dir) * t.stop
TargetHit(t, b) == Sign(t.dir) * Best(t, b) >= Sign(t.dir) * t.target

\* At the stop, wherever the bar opened; the stop counts before the target.
Pnl(t, price) == Sign(t.dir) * (price - t.entry) * t.quantity
Booked(s, pnl) ==
    [s EXCEPT !.balance = @ + pnl, !.realised = @ + pnl, !.open = None, !.trades = @ + 1,
              !.peak = IF s.balance + pnl > @ THEN s.balance + pnl ELSE @]

Exited(s, b) ==
    LET t == s.open
    IN IF t # None /\ (StopHit(t, b) \/ TargetHit(t, b))
       THEN Booked(s, Pnl(t, IF StopHit(t, b) THEN t.stop ELSE t.target))
       ELSE s

\* What the risk engine is asked.
Request(s, o, b) ==
    [signal |-> [dir |-> o.dir, entry |-> b.close, stop |-> b.close - Sign(o.dir) * o.risk,
                 target |-> b.close + Sign(o.dir) * o.reward, atr |-> o.atr,
                 scanner |-> FALSE, words |-> {}],
     state |-> [realised_pnl |-> s.realised, last_signal_time |-> s.last],
     portfolio |-> [balance |-> s.balance, peak |-> s.peak, open_positions |-> 0, weekly |-> 0,
                    notional |-> 0, committed |-> 0, sector |-> 0],
     errors |-> engine.errors, now |-> engine.now, minute |-> engine.minute,
     adv |-> engine.adv, quote |-> [bid |-> 0, ask |-> 0], count |-> count]

Looks(s, o) == s.open = None /\ s.halt = "NONE" /\ o # None

Pending(x) ==
    [dir |-> x.signal.dir, stop |-> x.signal.stop, target |-> x.signal.target,
     quantity |-> quantity(x)]
Halts == {"DAILY_LOSS_LIMIT_REACHED", "ACCOUNT_DRAWDOWN_HALT"}

\* l is what the rules say of x.
Evaluated(s, x, l) ==
    IF Passes(l)
    THEN [s EXCEPT !.atr = x.signal.atr, !.approved = @ + 1, !.last = bar, !.pending = Pending(x)]
    ELSE [s EXCEPT !.atr = x.signal.atr,
                   !.halt = IF FirstOf(l).reason \in Halts THEN FirstOf(l).reason ELSE @]

Replayed(b, begins) == Exited(Trailed(NewDay(Filled(sim, b), begins), b), b)

\* One turn of the loop.
Bar(b, begins, o) ==
    /\ ~ended /\ bar < MaxBars
    /\ LET s == Replayed(b, begins)
           x == Request(s, o, b)
           l == Rules(x)
       IN IF Looks(s, o)
          THEN sim' = Evaluated(s, x, l) /\ count' = IF Counts(l) THEN count + 1 ELSE count
          ELSE sim' = s /\ UNCHANGED count
    /\ bar' = bar + 1
    /\ UNCHANGED <<engine, ended, runs, before, nights>>

\* The data ends: an open trade is closed at the last close; neither the peak
\* nor the day is told, and a signal still pending is forgotten.
Finish(b) ==
    /\ ~ended /\ ended' = TRUE
    /\ sim' = IF sim.open = None THEN sim
              ELSE [sim EXCEPT !.balance = @ + Pnl(sim.open, b.close), !.open = None,
                               !.trades = @ + 1]
    /\ UNCHANGED <<engine, count, bar, runs, before, nights>>

\* walk_forward_test: the next window begins afresh, on the same engine.
NextWindow ==
    /\ ended /\ ended' = FALSE
    /\ runs < MaxRuns /\ runs' = runs + 1
    /\ before' = before + sim.approved
    /\ sim' = Fresh /\ bar' = 0
    /\ UNCHANGED <<engine, count, nights>>

\* Rule 11 begins to count again with the date.
Midnight ==
    /\ nights < MaxNights /\ nights' = nights + 1
    /\ count' = 0
    /\ UNCHANGED <<engine, sim, bar, ended, runs, before>>

Next ==
    \/ \E b \in Bars, begins \in BOOLEAN, o \in Offers \cup {None} : Bar(b, begins, o)
    \/ \E b \in Bars : Finish(b)
    \/ NextWindow
    \/ Midnight

Spec == Init /\ [][Next]_vars

-----------------------------------------------------------------------------
Flat(s) == s.open = None /\ s.pending = None

(* An account that has lost its share of the peak, or a day that has lost  *)
(* its cap, holds no trade and waits for none: nothing is opened again for *)
(* the rest of the run, or of the day, although halt_reason is cleared     *)
(* every day and the balance is first looked at with the next signal       *)
(* (run).                                                                  *)
LossesHalt ==
    ~ended /\ (Drawn(sim.balance, sim.peak) \/ DailyLost(sim.realised, sim.balance)) => Flat(sim)

Held(s) == (IF s.open = None THEN 0 ELSE 1) + (IF s.pending = None THEN 0 ELSE 1)

(* Every approval becomes one trade, on the next bar, and all runs on one  *)
(* engine have together no more of them than the daily cap of a stock,     *)
(* whatever number of days the bars cover: rule 11 counts by the date on   *)
(* the wall (MaxSignalsPerStockPerDay.check, walk_forward_test).           *)
OneTradePerApproval ==
    /\ sim.approved = sim.trades + Held(sim)
    /\ Held(sim) <= 1
    /\ before + sim.approved <= (nights + 1) * Cfg.max_signals_per_stock
=============================================================================
