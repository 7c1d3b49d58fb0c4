--------------------------- MODULE SignalPipeline ---------------------------
(***************************************************************************)
(* From a bar to signals:approved, in the two processes that wire the      *)
(* intelligence pipeline.  The API replica loads strategies and evaluates  *)
(* them on its candles (CandleConsumer, StrategyRunner); the signal engine *)
(* worker loads none, so what comes to it are the candidates of scans.     *)
(* Behind the pool both hand a group of one symbol through consolidation,  *)
(* META and the filter layers.  Timing and recovery of the pool are in     *)
(* SignalPool, the streams in SignalDelivery.                              *)
(***************************************************************************)
EXTENDS Strategies, StrategyHealth

CONSTANTS
    Bars,       \* bars to look at
    Orders,     \* orders in which an API replica may have loaded strategies
    Keys,       \* strategies a scan may be asked for
    Starts,     \* starts to look at: wiring, time of day, what is used of the bounds
    MaxBars,    \* bars to come (a bound)
    MaxMoves    \* changes of regime, time and trading state (a bound)

Wirings == {"api", "worker"}
Regimes == {"TREND", "RANGE", "HIGH_VOLATILITY", "LOW_LIQUIDITY", "NONE"}

\* Before 9:25, until 10:30, until 13:30, until 14:45, after.
Slots == 0..4

ScanOrder == <<"ema_crossover", "rsi_mean_reversion", "orb_vwap", "volume_expansion",
               "trend_continuation">>
Names == Strategies \cup {"multi_strategy"}

\* A candidate signal: who sent it, its prices, when, and the id of its strategy.
Candidate(name, id, g, t) ==
    [name |-> name, id |-> id, dir |-> g.dir, entry |-> g.entry, stop |-> g.stop,
     target |-> g.target, time |-> t, scanner |-> id = 0]
Candidates ==
    [name : Names, id : Ids \cup {0}, dir : {"BUY", "SELL"},
     entry : Int, stop : Int, target : Int, time : Slots, scanner : BOOLEAN]

\* A bar: its candle and the ones before it, the opening range, the indicators.
BarRecords ==
    [open : Int, high : Int, low : Int, close : Int, volume : Int,
     closePrev : Int, highPrev : Int, lowPrev : Int, volumePrev : Int, closeHourAgo : Int,
     windowHigh : Int, windowLow : Int, orHigh : Int, orLow : Int, afterOrb : BOOLEAN,
     ema9 : Int, ema9Prev : Int, ema21 : Int, ema21Prev : Int, ema50 : Int,
     rsi : Int, rsiPrev : Int, halfAtr : Nat \ {0}, vwap : Int, volume10 : Int, volume20 : Int,
     nifty : Int \cup {NoIndex}, candles : Nat, detected : Regimes]

ASSUME PipelineAssumption ==
    /\ Orders \subseteq Seq(Strategies) /\ \A o \in Orders : Ids = DOMAIN o
    /\ {"runner", "meta"} = Askers
    /\ Starts \subseteq [wiring : Wirings, slot : Slots, bars : Nat, moves : Nat, recorded : Nat]
    /\ {MaxBars, MaxMoves} \subseteq Nat
    /\ Bars \subseteq BarRecords /\ \A b \in Bars : b.low <= b.close /\ b.close <= b.high

VARIABLES
    wiring,     \* which of the two this process is
    loaded,     \* _strategies: types in the order they were loaded, none in the worker
    bar,        \* the bar under evaluation, None without one
    asked,      \* what the scan was asked for
    next,       \* the strategy whose turn it is
    df,         \* columns in the DataFrame of this bar
    found,      \* what each strategy made of the bar
    pool,       \* candidates of the symbol in the order they came
    at,         \* where the pipeline is: "idle", "meta", "asking", a layer or "approved"
    sig,        \* the consolidated signal in the pipeline
    let,        \* members META has let through so far
    seen,       \* the regime META read
    regime,     \* RiskConfig.market_regime
    slot,       \* time of day
    trading,    \* is_trading_enabled
    out,        \* the last message on signals:approved and its row
    bars, moves \* bounds

runner == <<bar, asked, next, df, found>>
pipe == <<at, sig, let, seen>>
world == <<regime, slot, trading, moves>>
vars == <<wiring, loaded, runner, pool, pipe, world, out, bars, health_vars>>

\* The rows of the table strategies, in an order the database chooses.
load_strategies(w) == IF w = "api" THEN Orders ELSE {<<>>}

Init ==
    /\ \E s \in Starts :
         /\ wiring = s.wiring /\ slot = s.slot /\ bars = s.bars /\ moves = s.moves
         /\ HealthInit(s.recorded)
    /\ loaded \in load_strategies(wiring)
    /\ bar = None /\ asked = None /\ next = 1 /\ df = Empty /\ found = <<>>
    /\ pool = <<>>
    /\ at = "idle" /\ sig = None /\ let = <<>> /\ seen = "TREND"
    /\ regime = "TREND" /\ trading = TRUE
    /\ out = None

\* The elements of a list that are in T, as [x for x in l if x in T].
Keep(l, T) == FoldLeft(LAMBDA k, x : IF x \in T THEN Append(k, x) ELSE k, <<>>, l)

-----------------------------------------------------------------------------
\* StrategyRunner.evaluate, one strategy after the other on one DataFrame.

NewBar(b) ==
    /\ wiring = "api" /\ bar = None
    /\ bars < MaxBars /\ bars' = bars + 1
    /\ bar' = b /\ next' = 1 /\ df' = Empty /\ found' = <<>>
    /\ UNCHANGED <<wiring, loaded, asked, pool, pipe, world, out, health_vars>>

Outcome(s, r) == [strategy |-> s, result |-> r]

Evaluate ==
    LET s == loaded[next]
        v == Prepared(s, bar, df)
    IN /\ df' = v
       /\ found' = Append(found, Outcome(s, Found(s, bar, v)))

EvaluateNext ==
    /\ wiring = "api" /\ bar # None /\ next <= Len(loaded)
    /\ next' = next + 1
    /\ \/ is_disabled(next) /\ UNCHANGED <<df, found, health_vars>>
       \/ ~health[next].disabled /\ Evaluate /\ UNCHANGED health_vars
       \/ clear_pause("runner", next) /\ Evaluate
    /\ UNCHANGED <<wiring, loaded, bar, asked, pool, pipe, world, out, bars>>

\* _run_strategy: every strategy has a copy of the DataFrame.
Allowed(name, r) ==
    name \notin CASE r = "RANGE" -> {"orb_vwap", "volume_expansion"}
                  [] r = "HIGH_VOLATILITY" -> {"orb_vwap", "volume_expansion", "trend_continuation"}
                  [] r = "LOW_LIQUIDITY" -> {"ema_crossover", "rsi_mean_reversion", "orb_vwap",
                                             "volume_expansion", "trend_continuation",
                                             "failed_breakout"}
                  [] OTHER -> {}

ToRun(key, r) ==
    Keep(IF key = "multi_strategy" THEN ScanOrder ELSE <<key>>,
         {s \in ToSet(ScanOrder) : Allowed(s, r)})

\* Mutant of run_strategy: without the copy.
run_strategy_shared(key, b, r) ==
    LET todo == ToRun(key, r)
        After[k \in 0..Len(todo)] ==
            IF k = 0 THEN Empty ELSE Prepared(todo[k], b, After[k - 1])
    IN [k \in DOMAIN todo |-> Outcome(todo[k], Found(todo[k], b, After[k]))]

run_strategy(key, b, r) ==
    LET todo == ToRun(key, r)
    IN [k \in DOMAIN todo |-> Outcome(todo[k], Found(todo[k], b, Prepared(todo[k], b, Empty)))]

Scan(b, key, kind) ==
    /\ wiring = "worker" /\ bar = None
    /\ bars < MaxBars /\ bars' = bars + 1
    /\ bar' = b /\ asked' = [key |-> key, kind |-> kind]
    /\ found' = run_strategy(key, b, IF kind = "analyze" THEN b.detected ELSE "TREND")
    /\ next' = Len(loaded) + 1
    /\ UNCHANGED <<wiring, loaded, df, pool, pipe, world, out, health_vars>>

\* An analysis detects the regime of the bars and sends every signal; the bulk
\* scan and the scanner worker, with the strategy of its configuration, assume
\* TREND and send the first one.
Analyze(b, key) == Scan(b, key, "analyze")
ScanList(b, key) == Scan(b, key, "bulk")

-----------------------------------------------------------------------------
\* To the pool: a strategy's newer signal replaces its older one.  Signals come
\* in the order of candle_time, by which the group is sorted.

Put(p, c) == Append(Keep(p, {x \in ToSet(p) : x.name # c.name}), c)

IsSignal(o) == o.result \notin {None, Raises}
Firsts(l) == IF asked.kind = "analyze" THEN l ELSE SubSeq(l, 1, IF l = <<>> THEN 0 ELSE 1)

\* What a scan found goes under the name it was asked for and strategy id 0.
Sent ==
    LET l == Keep(found, {o \in ToSet(found) : IsSignal(o)})
    IN IF wiring = "api"
       THEN [k \in DOMAIN l |->
               Candidate(l[k].strategy, CHOOSE i \in Ids : loaded[i] = l[k].strategy,
                         l[k].result, slot)]
       ELSE [k \in DOMAIN Firsts(l) |-> Candidate(asked.key, 0, l[k].result, slot)]

Feed ==
    /\ bar # None /\ next > Len(loaded)
    /\ pool' = FoldLeft(Put, pool, Sent)
    /\ bar' = None /\ asked' = None /\ next' = 1 /\ df' = Empty /\ found' = <<>>
    /\ UNCHANGED <<wiring, loaded, pipe, world, out, bars, health_vars>>

-----------------------------------------------------------------------------
\* Consolidation and META.

Layers ==
    IF wiring = "api"
    THEN <<"confirmation", "quality", "regime", "ml", "nlp", "time", "liquidity">>
    ELSE <<"confirmation", "quality", "ml", "nlp", "time">>
LayerAfter(l) == (Layers \o <<"approved">>)[1 + CHOOSE k \in DOMAIN Layers : Layers[k] = l]

Group == INSTANCE Consolidation WITH
    Signals <- Candidates,
    Dir <- [c \in Candidates |-> c.dir], CandleTime <- [c \in Candidates |-> c.time],
    Entry <- [c \in Candidates |-> c.entry], Stop <- [c \in Candidates |-> c.stop],
    Target <- [c \in Candidates |-> c.target]

Merged(l) ==
    LET c == FoldLeft(Group!merge, Group!Primary(Head(l)), Tail(l))
    IN [dir |-> c.dir, entry |-> c.entry, stop |-> c.stop, target |-> c.target,
        first |-> c.first]

\* The group of the symbol leaves the pool; one that disagrees is dropped.
Flush ==
    /\ pool # <<>> /\ at = "idle"
    /\ pool' = <<>>
    /\ IF Group!Conflict(ToSet(pool))
       THEN UNCHANGED <<at, sig>>
       ELSE at' = "meta" /\ sig' = [members |-> pool, merged |-> Merged(pool),
                                    weight |-> 0, score |-> 0]
    /\ UNCHANGED <<wiring, loaded, runner, let, seen, world, out, bars, health_vars>>

\* The regime is read once, before the members are looked at; TREND if it cannot.
ReadRegime ==
    /\ at = "meta" /\ at' = "asking"
    /\ seen' \in {regime, "TREND"}
    /\ let' = <<>>
    /\ UNCHANGED <<wiring, loaded, runner, pool, sig, world, out, bars, health_vars>>

Drop == at' = "idle" /\ sig' = None /\ let' = <<>> /\ seen' = "TREND"

Asked(c, healthy) ==
    /\ sig' = [sig EXCEPT !.weight = @ + 1]
    /\ let' = IF healthy /\ Allowed(c.name, seen) THEN Append(let, c) ELSE let
    /\ UNCHANGED <<at, seen>>

\* weight counts the members asked until the confirmation layer sets it.
AskHealth ==
    /\ at = "asking" /\ sig.weight < Len(sig.members)
    /\ LET c == sig.members[sig.weight + 1]
       IN IF c.id = 0
          THEN Asked(c, TRUE) /\ UNCHANGED health_vars
          ELSE \/ is_disabled(c.id) /\ Asked(c, FALSE) /\ UNCHANGED health_vars
               \/ ~health[c.id].disabled /\ Asked(c, TRUE) /\ UNCHANGED health_vars
               \/ clear_pause("meta", c.id) /\ Asked(c, TRUE)
    /\ UNCHANGED <<wiring, loaded, runner, pool, world, out, bars>>

filter_signal ==
    /\ at = "asking" /\ sig.weight = Len(sig.members)
    /\ IF let = <<>> THEN Drop
       ELSE /\ at' = Layers[1] /\ sig' = [sig EXCEPT !.members = let, !.weight = 0]
            /\ UNCHANGED <<let, seen>>
    /\ UNCHANGED <<wiring, loaded, runner, pool, world, out, bars, health_vars>>

-----------------------------------------------------------------------------
\* The layers behind META; weights in tenths.

\* The first of vwap, trend, ema, rsi, volume, orb in the name counts.
WeightOf(name) ==
    CASE name \in {"orb_vwap", "vwap_reclaim"} -> 15
      [] name \in {"trend_continuation", "trend_pullback"} -> 12
      [] name = "rsi_mean_reversion" -> 8
      [] OTHER -> 10
Enough == 15
Weight(l) ==
    LET strategies == Keep(l, {c \in ToSet(l) : ~c.scanner})
        sum == FoldLeft(LAMBDA w, c : w + WeightOf(c.name), 0, strategies)
    IN IF Len(strategies) < Len(l) /\ sum < Enough THEN Enough ELSE sum

\* Nothing fills in the indicator snapshot, volume ratio, spread and relative
\* strength of a candidate: the weight and five points for the spread are left.
Threshold == 75
Score(s) ==
    LET score == (IF s.weight < 30 THEN s.weight ELSE 30) + 5
    IN IF s.members[1].scanner /\ score < Threshold THEN Threshold ELSE score

Reverts(l) == \E k \in DOMAIN l : l[k].name \in {"rsi_mean_reversion"}
RegimeLets(s) ==
    /\ regime # "LOW_LIQUIDITY"
    /\ regime = "HIGH_VOLATILITY" => s.score >= 85
    /\ regime = "RANGE" => Reverts(s.members)

\* The time is that of the first candle, not the time it is now.
TimeLets(s) ==
    /\ s.merged.first \in 1..3
    /\ s.merged.first = 3 => s.score >= 80
    /\ s.merged.first = 2 => s.score >= 65

\* Machine learning and news are switched off; liquidity sees the defaults.
Lets(layer, s) ==
    CASE layer = "confirmation" -> s.weight >= Enough
      [] layer = "quality" -> s.score >= Threshold
      [] layer = "regime" -> RegimeLets(s)
      [] layer = "time" -> TimeLets(s)
      [] OTHER -> TRUE

Set(layer, s) ==
    CASE layer = "confirmation" -> [s EXCEPT !.weight = Weight(s.members)]
      [] layer = "quality" -> [s EXCEPT !.score = Score(s)]
      [] OTHER -> s

Layer ==
    /\ at \in ToSet(Layers)
    /\ LET s == Set(at, sig)
       IN IF Lets(at, s) THEN at' = LayerAfter(at) /\ sig' = s /\ UNCHANGED <<let, seen>>
          ELSE Drop
    /\ UNCHANGED <<wiring, loaded, runner, pool, world, out, bars, health_vars>>

Prices(x) == [dir |-> x.dir, entry |-> x.entry, stop |-> x.stop, target |-> x.target]

\* Mutant of Message: the prices of the merged signal.
MessageMerged(s) == Prices(s.merged)

\* The worker publishes the prices of the first member.
Message(s) == Prices(Head(s.members))

\* The terminus of the API replica: it raises at risk_decision, which nothing
\* defines, before it writes the row or publishes.
process_alert == wiring = "api" /\ UNCHANGED out

\* With trading disabled the worker uses its logger before it is bound, and
\* raises: neither message nor row.
Published ==
    /\ wiring = "worker"
    /\ out' = IF trading
              THEN [message |-> Message(sig), row |-> Prices(sig.merged),
                    members |-> sig.members, regime |-> seen]
              ELSE out

on_signal_approved ==
    /\ at = "approved"
    /\ process_alert \/ Published
    /\ Drop
    /\ UNCHANGED <<wiring, loaded, runner, pool, world, bars, health_vars>>

-----------------------------------------------------------------------------
\* The day goes on, the scheduler detects a regime, someone stops trading.
Move(r, t, e) ==
    /\ moves < MaxMoves /\ moves' = moves + 1
    /\ regime' = r /\ slot' = t /\ trading' = e
    /\ UNCHANGED <<wiring, loaded, runner, pool, pipe, out, bars, health_vars>>

RegimeDetected == \E r \in Regimes \ {regime, "NONE"} : Move(r, slot, trading)
TimePasses == slot < 4 /\ Move(regime, slot + 1, trading)
TradingStopped == Move(regime, slot, ~trading)

Health == HealthNext /\ UNCHANGED <<wiring, loaded, runner, pool, pipe, world, out, bars>>

Next ==
    \/ \E b \in Bars : NewBar(b)
    \/ EvaluateNext
    \/ \E b \in Bars, k \in Keys : Analyze(b, k) \/ ScanList(b, k)
    \/ Feed \/ Flush
    \/ ReadRegime \/ AskHealth \/ filter_signal \/ Layer \/ on_signal_approved
    \/ RegimeDetected \/ TimePasses \/ TradingStopped
    \/ Health

Spec == Init /\ [][Next]_vars

-----------------------------------------------------------------------------
(* What a strategy finds on a bar does not depend on who was evaluated     *)
(* before it: always in a scan, which copies the DataFrame, and in the     *)
(* runner, which does not, unless a strategy loaded earlier had written    *)
(* the columns this one takes for its own (strategy_runner.py:86).         *)
EvaluatedAlone ==
    \A k \in DOMAIN found :
        LET s == found[k].strategy
            earlier == {found[j].strategy : j \in 1..(k - 1)}
        IN \/ found[k].result = Alone(s, bar)
           \/ wiring = "api" /\ Marker(s) \subseteq UNION {DOMAIN Columns(e, bar) : e \in earlier}

(* A message on signals:approved speaks with one voice: its prices are all *)
(* of one scanner candidate that the regime META read allows, with the     *)
(* stop below and the target above the entry (for a SELL the other way     *)
(* round), although the signal it stands for mixes the prices of several   *)
(* (_on_signal_approved against ConsolidatedSignal.merge).                 *)
OneVoice ==
    out # None =>
        /\ Protects(out.message)
        /\ \E k \in DOMAIN out.members :
             LET c == out.members[k]
             IN c.scanner /\ Prices(c) = out.message /\ Allowed(c.name, out.regime)
=============================================================================
