----------------------------- MODULE Strategies -----------------------------
(***************************************************************************)
(* The nine strategies and the indicators they read, as operators on the   *)
(* last bar of a DataFrame.  A bar gives what the candles and the ta       *)
(* library hold for it; df is the function of the columns written into the *)
(* DataFrame so far.  A direction d is 1 for BUY and -1 for SELL; a        *)
(* strategy is one rule stated for both.  Prices are integers, an ATR is   *)
(* an even number of ticks (twice b.halfAtr), NoIndex stands for the       *)
(* parameter nifty_return_1h that nothing in the program sets.             *)
(***************************************************************************)
EXTENDS Integers

CONSTANTS NoIndex, None, Raises

Directions == {1, -1}

\* x lies beyond y in direction d.
Beyond(d, x, y) == d * x > d * y
Further(d, x, y) == IF Beyond(d, x, y) THEN x ELSE y

Strategies == {"ema_crossover", "rsi_mean_reversion", "orb_vwap", "volume_expansion",
               "trend_continuation", "vwap_reclaim", "relative_strength",
               "trend_pullback", "failed_breakout"}

\* They build a RawSignal without the strategy_name it requires: TypeError.
Nameless == {"vwap_reclaim", "relative_strength", "trend_pullback", "failed_breakout"}

min_candles_required(s) ==
    CASE s \in {"ema_crossover", "orb_vwap", "vwap_reclaim"} -> 26
      [] s = "rsi_mean_reversion" -> 55
      [] s = "volume_expansion" -> 25
      [] s \in {"trend_continuation", "trend_pullback"} -> 60
      [] s = "relative_strength" -> 65
      [] s = "failed_breakout" -> 34

-----------------------------------------------------------------------------
\* Indicators.

\* The columns of v and those of w; where both have one, that of v.
v ++ w == [c \in DOMAIN v \cup DOMAIN w |-> IF c \in DOMAIN v THEN v[c] ELSE w[c]]

\* Levels of the opening range are stamped on bars after 9:30 only.
OrbColumns(b) == [or_high |-> IF b.afterOrb THEN b.orHigh ELSE 0,
                  or_low |-> IF b.afterOrb THEN b.orLow ELSE 0]

\* compute_for_strategy: the columns it writes for strategy s.
Columns(s, b) ==
    LET atr == [atr |-> 2 * b.halfAtr]
        vol == [volume_ma |-> b.volume20]
        cross == [ema_fast |-> b.ema9, ema_slow |-> b.ema21]
        stack == [ema_9 |-> b.ema9, ema_21 |-> b.ema21, ema_50 |-> b.ema50]
        vwap == [vwap |-> b.vwap]
        rsi == [rsi |-> b.rsi]
    IN CASE s = "ema_crossover" -> cross ++ rsi ++ atr ++ vol
         [] s = "rsi_mean_reversion" -> rsi ++ [ema_trend |-> b.ema50] ++ atr
         [] s = "orb_vwap" -> vwap ++ cross ++ [ema_50 |-> b.ema50] ++ atr
                              ++ [volume_ma |-> b.volume10] ++ OrbColumns(b)
         [] s = "volume_expansion" -> vol ++ atr
         [] s = "trend_continuation" -> stack ++ vwap ++ atr
         [] s = "failed_breakout" -> vwap ++ rsi ++ atr ++ vol ++ OrbColumns(b)
         [] s = "vwap_reclaim" -> vwap ++ cross ++ atr ++ vol
         [] s = "trend_pullback" -> stack ++ rsi ++ atr
         [] s = "relative_strength" -> vwap ++ atr ++ vol

ColumnNames ==
    {"atr", "volume_ma", "ema_fast", "ema_slow", "ema_9", "ema_21", "ema_50", "ema_trend",
     "vwap", "rsi", "or_high", "or_low"}

\* The columns whose presence a strategy takes for "precomputed".
Marker(s) ==
    CASE s = "ema_crossover" -> {"ema_fast"}
      [] s = "rsi_mean_reversion" -> {"rsi"}
      [] s \in {"orb_vwap", "vwap_reclaim", "relative_strength"} -> {"vwap"}
      [] s = "volume_expansion" -> {"volume_ma"}
      [] s = "trend_continuation" -> {"ema_50", "vwap"}
      [] s = "trend_pullback" -> {"ema_21"}
      [] s = "failed_breakout" -> {"atr"}

\* Columns read without asking (KeyError without them), and columns asked for.
Demands(s) ==
    CASE s = "ema_crossover" -> {"ema_fast", "ema_slow", "atr", "volume_ma"}
      [] s = "rsi_mean_reversion" -> {"rsi", "ema_trend", "atr"}
      [] s = "volume_expansion" -> {"atr", "volume_ma"}
      [] s = "trend_continuation" -> {"ema_50", "vwap", "atr"}
      [] s = "failed_breakout" -> {"atr", "rsi"}
      [] OTHER -> {}
AsksFor(s) ==
    CASE s \in {"orb_vwap", "vwap_reclaim"} -> {"vwap", "ema_fast", "ema_slow", "atr", "volume_ma"}
      [] s = "relative_strength" -> {"vwap", "atr", "volume_ma"}
      [] s = "trend_pullback" -> {"ema_9", "ema_21", "ema_50", "rsi", "atr"}
      [] s = "failed_breakout" -> {"or_high", "or_low"}
      [] OTHER -> {}

-----------------------------------------------------------------------------
\* When each strategy fires in direction d on bar b with columns v.

Crossed(b, v, d) == Beyond(d, b.ema21Prev, b.ema9Prev) /\ Beyond(d, v.ema_fast, v.ema_slow)

ema_crossover(b, v, d) ==
    /\ Crossed(b, v, d)
    /\ Beyond(d, b.close, v.ema_fast) /\ Beyond(d, b.close, v.ema_slow)
    /\ b.volume > v.volume_ma

Extreme(d) == IF d = 1 THEN 35 ELSE 65

rsi_mean_reversion(b, v, d) ==
    /\ Beyond(d, b.close, v.ema_trend)
    /\ Beyond(d, Extreme(d), b.rsiPrev) /\ Beyond(d, v.rsi, Extreme(d))

\* The edge of the opening range to be broken, and the other one.
Edge(b, d) == IF d = 1 THEN b.orHigh ELSE b.orLow
FarEdge(b, d) == Edge(b, -d)

orb_vwap(b, v, d) ==
    /\ b.orHigh > 0
    /\ 2000 * (b.orHigh - b.orLow) >= 3 * (b.orHigh + b.orLow)
    /\ ~Beyond(d, b.closePrev, Edge(b, d)) /\ Beyond(d, b.close, Edge(b, d))
    /\ Beyond(d, b.close, v.vwap) /\ Beyond(d, v.ema_fast, v.ema_slow)
    /\ b.volume > v.volume_ma

volume_expansion(b, v, d) ==
    /\ v.volume_ma > 0 /\ b.volume >= 3 * v.volume_ma
    /\ Beyond(d, b.close, IF d = 1 THEN b.windowHigh ELSE b.windowLow)
    /\ Beyond(d, b.close, b.open)

Distance(x, y) == IF x > y THEN x - y ELSE y - x

trend_continuation(b, v, d) ==
    /\ Beyond(d, b.ema9, b.ema21) /\ Beyond(d, b.ema21, v.ema_50)
    /\ v.atr > 0 /\ 10 * Distance(b.close, v.vwap) <= 3 * v.atr
    /\ Beyond(d, b.close, b.open)
    /\ Beyond(d, b.close, v.vwap - d * v.atr)

vwap_reclaim(b, v, d) ==
    /\ Beyond(d, v.vwap, b.closePrev) /\ Beyond(d, b.close, v.vwap)
    /\ v.volume_ma > 0 /\ 10 * b.volume >= 13 * v.volume_ma
    /\ Beyond(d, v.ema_fast, v.ema_slow)
    /\ Beyond(d, b.close, Further(d, b.close - d * 3 * b.halfAtr, IF d = 1 THEN b.lowPrev ELSE b.highPrev))

relative_strength(b, v, d) ==
    /\ b.nifty # NoIndex /\ b.closeHourAgo > 0
    /\ d * (1000 * (b.close - b.closeHourAgo) - 10 * b.nifty * b.closeHourAgo)
         >= 15 * b.closeHourAgo
    /\ Beyond(d, b.close, v.vwap)
    /\ v.volume_ma > 0 /\ 10 * b.volume >= 12 * v.volume_ma
    /\ v.atr > 0

trend_pullback(b, v, d) ==
    /\ Beyond(d, v.ema_9, v.ema_21) /\ Beyond(d, v.ema_21, v.ema_50)
    /\ ~Beyond(d, IF d = 1 THEN b.lowPrev ELSE b.highPrev, b.ema21Prev)
    /\ Beyond(d, b.close, v.ema_21)
    /\ v.rsi \in 40..60

\* A breakout of the range in direction -d that came back.
failed_breakout(b, v, d) ==
    LET edge == IF d = 1 THEN v.or_low ELSE v.or_high
        bound == edge + d * v.atr
        near == "vwap" \in DOMAIN v /\ Beyond(d, v.vwap, edge)
        target == IF near /\ Beyond(d, bound, v.vwap) THEN v.vwap ELSE bound
        spike == IF d = 1 THEN b.lowPrev ELSE b.highPrev
    IN /\ v.or_high > 0
       /\ Beyond(d, (1000 - 3 * d) * edge, 1000 * b.closePrev)
       /\ Beyond(d, b.close, edge)
       /\ Beyond(d, IF d = 1 THEN 32 ELSE 68, b.rsiPrev)
       /\ 10 * b.volume >= 9 * b.volumePrev
       /\ Beyond(d, target, b.close)
       /\ Beyond(d, 1000 * b.close, (1000 - 3 * d) * spike)

Fires(s, b, v, d) ==
    CASE s = "ema_crossover" -> ema_crossover(b, v, d)
      [] s = "rsi_mean_reversion" -> rsi_mean_reversion(b, v, d)
      [] s = "orb_vwap" -> orb_vwap(b, v, d)
      [] s = "volume_expansion" -> volume_expansion(b, v, d)
      [] s = "trend_continuation" -> trend_continuation(b, v, d)
      [] s = "vwap_reclaim" -> vwap_reclaim(b, v, d)
      [] s = "relative_strength" -> relative_strength(b, v, d)
      [] s = "trend_pullback" -> trend_pullback(b, v, d)
      [] s = "failed_breakout" -> failed_breakout(b, v, d)

-----------------------------------------------------------------------------
\* Stop and target.

\* The tighter of one ATR and the far side of the range.
OrbStop(b, v, d) ==
    LET stop == Further(d, b.close - d * v.atr, FarEdge(b, d))
    IN IF Beyond(d, b.close, stop) THEN stop ELSE b.close - d * v.atr

StopOf(s, b, v, d) ==
    CASE s = "ema_crossover" -> b.close - d * (v.atr + v.atr \div 2)
      [] s = "rsi_mean_reversion" -> b.close - d * v.atr
      [] s = "orb_vwap" -> OrbStop(b, v, d)
      [] s = "volume_expansion" -> (IF d = 1 THEN b.low ELSE b.high) - d * v.atr
      [] s = "trend_continuation" -> v.vwap - d * v.atr

\* The reward is a multiple of the risk: 2, and 1.5 for volume_expansion.
TargetOf(s, b, v, d) ==
    LET risk == d * (b.close - StopOf(s, b, v, d))
    IN b.close + d * (IF s = "volume_expansion" THEN (3 * risk) \div 2 ELSE 2 * risk)

RawSignal(s, b, v, d) ==
    [dir |-> IF d = 1 THEN "BUY" ELSE "SELL", entry |-> b.close,
     stop |-> StopOf(s, b, v, d), target |-> TargetOf(s, b, v, d)]

Sign(dir) == IF dir = "BUY" THEN 1 ELSE -1

\* The stop on the losing side of the entry, the target on the winning side.
Protects(g) == Beyond(Sign(g.dir), g.entry, g.stop) /\ Beyond(Sign(g.dir), g.target, g.entry)

-----------------------------------------------------------------------------
\* evaluate: what is found, and the DataFrame it leaves.

\* relative_strength returns before it looks at the columns without an index.
Skips(s, b) ==
    b.candles < min_candles_required(s) \/ (s = "relative_strength" /\ b.nifty = NoIndex)

Prepared(s, b, df) ==
    IF Skips(s, b) \/ Marker(s) \subseteq DOMAIN df THEN df ELSE Columns(s, b) ++ df

Found(s, b, v) ==
    IF Skips(s, b) THEN None
    ELSE IF ~(Demands(s) \subseteq DOMAIN v) THEN Raises
    ELSE IF ~(AsksFor(s) \subseteq DOMAIN v) THEN None
    ELSE IF \E d \in Directions : Fires(s, b, v, d)
         THEN IF s \in Nameless THEN Raises
              ELSE RawSignal(s, b, v, IF Fires(s, b, v, 1) THEN 1 ELSE -1)
    ELSE None

\* On a DataFrame of its own.
Empty == [c \in {} |-> 0]
Alone(s, b) == Found(s, b, Prepared(s, b, Empty))
=============================================================================
