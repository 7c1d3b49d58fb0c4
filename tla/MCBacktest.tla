----------------------------- MODULE MCBacktest -----------------------------
(* Instances of Backtest for TLC. *)
EXTENDS Backtest

\* A loss of 20 by the stop: one halts the day, two the account.
Config ==
    [max_daily_loss_inr |-> 15, max_daily_loss_pct |-> 1000,
     max_weekly_loss_inr |-> 200, max_weekly_loss_pct |-> 5000,
     max_account_drawdown_pct |-> 350, max_consecutive_errors |-> 5,
     max_concurrent_positions |-> 5, max_signals_per_stock |-> 3,
     min_risk_reward |-> 150, cooldown_minutes |-> 2, min_atr_pct |-> 100, max_atr_pct |-> 1000,
     risk_per_trade_pct |-> 200, max_position_pct |-> 10000, max_portfolio_exposure_pct |-> 10000,
     min_daily_volume |-> 500, max_spread_pct |-> 50, signal_start |-> 20, signal_end |-> 300,
     max_correlated_positions |-> 3, market_regime |-> "NONE"]

Price(o, h, l, c) == [open |-> o, high |-> h, low |-> l, close |-> c]

\* Quiet, a rise, a rise that turns, a fall, an opening far below.
PriceSet ==
    {Price(100, 101, 99, 100), Price(100, 112, 100, 111), Price(100, 106, 96, 97),
     Price(100, 101, 92, 93), Price(88, 90, 86, 89)}

\* One in each direction, and one whose reward is too small.
OfferSet ==
    {[dir |-> "BUY", risk |-> 5, reward |-> 10, atr |-> 5],
     [dir |-> "SELL", risk |-> 4, reward |-> 8, atr |-> 4],
     [dir |-> "BUY", risk |-> 5, reward |-> 6, atr |-> 5]}

Engine(v, e, m, n) == [adv |-> v, errors |-> e, minute |-> m, now |-> n]

\* History, data up to now, and engines that approve nothing: no volumes, broker
\* errors, evening.
EngineSet ==
    {Engine(1000, 0, 60, 1000), Engine(1000, 0, 60, 4), Engine(Unknown, 0, 60, 1000),
     Engine(1000, 5, 60, 1000), Engine(1000, 0, 400, 1000)}
=============================================================================
