-------------------------- MODULE MCSignalPipeline --------------------------
(* Instances of SignalPipeline for TLC. *)
EXTENDS SignalPipeline

\* A quiet bar; the others say what is different.
Quiet ==
    [open |-> 1000, high |-> 1004, low |-> 996, close |-> 1000, volume |-> 100,
     closePrev |-> 1000, highPrev |-> 1004, lowPrev |-> 996, volumePrev |-> 100,
     closeHourAgo |-> 1000, windowHigh |-> 1006, windowLow |-> 994,
     orHigh |-> 1010, orLow |-> 990, afterOrb |-> TRUE,
     ema9 |-> 1000, ema9Prev |-> 1000, ema21 |-> 1000, ema21Prev |-> 1000, ema50 |-> 1000,
     rsi |-> 50, rsiPrev |-> 50, halfAtr |-> 4, vwap |-> 1000,
     volume10 |-> 100, volume20 |-> 100, nifty |-> NoIndex, candles |-> 120,
     detected |-> "TREND"]

\* A break of the opening range upwards on heavy volume, above every average: ORB,
\* volume expansion and the EMA cross buy, each with its own stop.
Breakout ==
    [Quiet EXCEPT !.close = 1014, !.high = 1016, !.low = 1002, !.volume = 400, !.vwap = 1004,
                  !.ema9 = 1008, !.ema21 = 1006, !.ema9Prev = 1001, !.ema21Prev = 1003]

\* The same, a little later and higher, volume between the two averages.
Second ==
    [Quiet EXCEPT !.close = 1024, !.high = 1025, !.low = 1020, !.closePrev = 1008,
                  !.volume = 110, !.volume10 = 120, !.vwap = 1023, !.halfAtr = 20,
                  !.open = 1020, !.ema9 = 1020, !.ema21 = 1015, !.ema50 = 1010,
                  !.ema9Prev = 1010, !.ema21Prev = 1012]

\* An oversold bounce that an EMA cross down contradicts.
Divided ==
    [Quiet EXCEPT !.close = 996, !.low = 990, !.volume = 120, !.ema9 = 998, !.ema21 = 999,
                  !.ema9Prev = 1002, !.ema21Prev = 1001, !.ema50 = 990,
                  !.rsi = 38, !.rsiPrev = 30, !.detected = "RANGE"]

\* A breakout that failed, and a fall through the average price.
Failed ==
    [Quiet EXCEPT !.close = 1004, !.closePrev = 1016, !.highPrev = 1018, !.rsiPrev = 75,
                  !.volume = 140, !.vwap = 1006, !.ema9 = 1000, !.ema21 = 1001, !.candles = 40]

AllBars == {Breakout, Second, Divided, Failed}

\* The order of the rows decides what a strategy finds in the DataFrame.
LoadOrders ==
    {<<"orb_vwap", "trend_continuation", "relative_strength">>,
     <<"ema_crossover", "rsi_mean_reversion", "failed_breakout">>,
     <<"volume_expansion", "trend_pullback", "vwap_reclaim">>}
IdsOfOrders == 1..3

\* A lost trade and a won one.
Results == {-1, 1}

Start(w, t, b, m, r) == [wiring |-> w, slot |-> t, bars |-> b, moves |-> m, recorded |-> r]

\* Two bars with no trade closed, or trades closed around one bar.
StartSet ==
    {Start("api", 1, 0, MaxMoves, MaxTrades), Start("api", 1, 1, MaxMoves, 0),
     Start("worker", 1, 0, 0, MaxTrades), Start("worker", 2, 1, 0, MaxTrades)}
=============================================================================
