----------------------------- MODULE RiskRules -----------------------------
(***************************************************************************)
(* The rules of RiskEngine in their order, as operators on one request x:  *)
(* the signal, the day's state, the portfolio and what a rule looks up     *)
(* (clock, Redis, quotes, volumes).  Money and prices are integers, shares *)
(* of them in basis points.  Who evaluates when, and what is read and      *)
(* written around an evaluation, is in RiskGate.                           *)
(***************************************************************************)
EXTENDS Integers, Sequences, FiniteSets

CONSTANT Cfg    \* the row of risk_config

Bp == 10000

PositiveSettings ==
    {"max_daily_loss_inr", "max_daily_loss_pct", "max_weekly_loss_inr", "max_weekly_loss_pct",
     "max_account_drawdown_pct", "max_consecutive_errors", "max_concurrent_positions",
     "max_signals_per_stock"}
Settings ==
    PositiveSettings \cup
    {"min_risk_reward", "cooldown_minutes", "min_atr_pct", "max_atr_pct", "risk_per_trade_pct",
     "max_position_pct", "max_portfolio_exposure_pct", "min_daily_volume", "max_spread_pct",
     "signal_start", "signal_end", "max_correlated_positions"}

ASSUME CfgAssumption ==
    /\ \A f \in Settings : Cfg[f] \in Nat
    /\ \A f \in PositiveSettings : Cfg[f] > 0
    /\ Cfg.max_account_drawdown_pct <= Bp
    /\ Cfg.market_regime \in {"NONE", "TRENDING", "RANGING", "HIGH_VOLATILITY"}

Pass == [status |-> "PASS", reason |-> "NONE"]
Skipped(r) == [status |-> "SKIPPED", reason |-> r]
Blocked(r) == [status |-> "BLOCKED", reason |-> r]
Unless(bad, verdict) == IF bad THEN verdict ELSE Pass

Least(a, b) == IF a < b THEN a ELSE b
Away(a, b) == IF a < b THEN b - a ELSE a - b

-----------------------------------------------------------------------------
\* The rules.

ConsecutiveErrors(x) ==
    Unless(x.errors >= Cfg.max_consecutive_errors, Blocked("CONSECUTIVE_ERRORS_LIMIT"))

\* In hundredths, rounded; nothing if the stop is not on the losing side.
risk_reward(g) ==
    LET d == IF g.dir = "BUY" THEN 1 ELSE -1
        risk == d * (g.entry - g.stop)
    IN IF risk <= 0 THEN 0 ELSE (200 * d * (g.target - g.entry) + risk) \div (2 * risk)

MinRiskReward(x) ==
    LET rr == risk_reward(x.signal)
    IN Unless(rr < Cfg.min_risk_reward,
              Skipped(IF rr = 0 THEN "NO_RISK_REWARD" ELSE "LOW_RISK_REWARD"))

\* Words in the name of the strategy; a CandidateSignal has no such attribute.
GlobalMarketRegime(x) ==
    Unless(\/ Cfg.market_regime = "TRENDING" /\ x.signal.words \cap {"REVERSION", "RSI"} # {}
           \/ Cfg.market_regime = "RANGING" /\ x.signal.words \cap {"TREND", "BREAKOUT", "EMA"} # {}
           \/ /\ Cfg.market_regime = "HIGH_VOLATILITY"
              /\ x.signal.words \cap {"ORB", "VOLUME", "TREND"} # {},
           Skipped("REGIME_MISMATCH"))

\* A loss of at least the smaller of the two caps; both in basis points.
LossAt(pnl, inr, pct, balance) == Bp * pnl <= -Least(Bp * inr, pct * balance)

DailyLost(pnl, balance) ==
    LossAt(pnl, Cfg.max_daily_loss_inr, Cfg.max_daily_loss_pct, balance)

\* Mutant of DailyLoss: the cap in rupees is forgotten.
DailyLossByShare(x) ==
    Unless(Bp * x.state.realised_pnl <= -(Cfg.max_daily_loss_pct * x.portfolio.balance),
           Blocked("DAILY_LOSS_LIMIT_REACHED"))

DailyLoss(x) ==
    Unless(DailyLost(x.state.realised_pnl, x.portfolio.balance),
           Blocked("DAILY_LOSS_LIMIT_REACHED"))

WeeklyLoss(x) ==
    Unless(LossAt(x.portfolio.weekly, Cfg.max_weekly_loss_inr, Cfg.max_weekly_loss_pct,
                  x.portfolio.balance),
           Blocked("WEEKLY_LOSS_LIMIT_REACHED"))

Drawn(balance, peak) ==
    peak > 0 /\ Bp * (peak - balance) >= Cfg.max_account_drawdown_pct * peak
AccountDrawdown(x) ==
    Unless(Drawn(x.portfolio.balance, x.portfolio.peak), Blocked("ACCOUNT_DRAWDOWN_HALT"))

\* By the clock on the wall; Never without an approval.
Never == -1
Cooldown(x) ==
    Unless(/\ ~x.signal.scanner
           /\ x.state.last_signal_time # Never
           /\ x.now - x.state.last_signal_time < Cfg.cooldown_minutes,
           Skipped("COOLDOWN_ACTIVE"))

Volatility(x) ==
    LET g == x.signal
    IN IF g.entry <= 0 THEN Skipped("INVALID_ENTRY_PRICE")
       ELSE IF Bp * g.atr < Cfg.min_atr_pct * g.entry /\ ~g.scanner THEN Skipped("LOW_VOLATILITY")
       ELSE Unless(Bp * g.atr > Cfg.max_atr_pct * g.entry, Skipped("HIGH_VOLATILITY"))

\* The risk of one trade, in basis points, by the distance to the stop.
TradeRisk(x) == x.portfolio.balance * Cfg.risk_per_trade_pct
SizeOf(x) == TradeRisk(x) \div (Bp * Away(x.signal.entry, x.signal.stop))
PositionSizer(x) ==
    IF x.signal.entry = x.signal.stop THEN Blocked("INVALID_STOP_LOSS")
    ELSE IF Bp * x.portfolio.committed + TradeRisk(x)
              > x.portfolio.balance * Cfg.max_account_drawdown_pct
         THEN Blocked("NO_RISK_BUDGET_LEFT")
    ELSE Unless(SizeOf(x) < 1, Blocked("INSUFFICIENT_CAPITAL"))

\* adjust_quantity, after all rules: at least one share, whatever it costs.
adjust_quantity(q, x) ==
    LET most == (x.portfolio.balance * Cfg.max_position_pct) \div (Bp * x.signal.entry)
    IN IF Bp * q * x.signal.entry > x.portfolio.balance * Cfg.max_position_pct
       THEN IF most < 1 THEN 1 ELSE most
       ELSE q

ConcurrentPositions(x) ==
    Unless(x.portfolio.open_positions >= Cfg.max_concurrent_positions,
           Skipped("MAX_POSITIONS_OPEN"))

GrossExposure(x) ==
    Unless(Bp * x.portfolio.notional >= x.portfolio.balance * Cfg.max_portfolio_exposure_pct,
           Skipped("GROSS_EXPOSURE_LIMIT"))

\* Volumes are in the cache only after load_adv; no caller of the program has one.
Unknown == -1
Liquidity(x) ==
    IF x.signal.scanner THEN Pass
    ELSE IF x.adv = Unknown THEN Blocked("ADV_DATA_MISSING")
    ELSE Unless(x.adv < Cfg.min_daily_volume, Skipped("LOW_ADV"))

\* Without an instrument key or a quote the spread is let through.
Spread(x) ==
    Unless(/\ x.quote.bid > 0
           /\ Bp * (x.quote.ask - x.quote.bid) > Cfg.max_spread_pct * x.quote.bid,
           Skipped("SPREAD_TOO_WIDE"))

SignalTimeGate(x) ==
    Unless(x.minute \notin Cfg.signal_start..Cfg.signal_end, Skipped("OUTSIDE_SIGNAL_WINDOW"))

\* The count of the process for the date on the wall.
StockCount(x) ==
    Unless(x.count >= Cfg.max_signals_per_stock, Skipped("MAX_SIGNALS_PER_STOCK"))

\* Open symbols of the sector of the signal's; 0 for one the map does not know.
Correlation(x) ==
    Unless(x.portfolio.sector >= Cfg.max_correlated_positions, Skipped("SECTOR_CORRELATION_LIMIT_MET"))

-----------------------------------------------------------------------------
\* validate: the first rule that does not pass decides; if all do, it is APPROVED.

Rules(x) ==
    <<ConsecutiveErrors(x), MinRiskReward(x), GlobalMarketRegime(x), DailyLoss(x), WeeklyLoss(x),
      AccountDrawdown(x), Cooldown(x), Volatility(x), PositionSizer(x), ConcurrentPositions(x),
      GrossExposure(x), Liquidity(x), Spread(x), SignalTimeGate(x), StockCount(x), Correlation(x)>>

Passes(l) == \A k \in DOMAIN l : l[k] = Pass
FirstOf(l) == l[CHOOSE k \in DOMAIN l : l[k] # Pass /\ \A j \in 1..(k - 1) : l[j] = Pass]

\* The count of rule 11 goes up before rule 12 has its say.
Counts(l) == Passes(SubSeq(l, 1, Len(l) - 1))
quantity(x) == adjust_quantity(SizeOf(x), x)
=============================================================================
