--------------------------- MODULE BacktestProofs ---------------------------
(* Theorems about Backtest. *)
EXTENDS Backtest, TLAPS

Lost(s) == Drawn(s.balance, s.peak) \/ DailyLost(s.realised, s.balance)

\* What holds of a run after each step of the loop.
Sims ==
    [balance : Int, peak : Int, realised : Int, halt : {"NONE"} \cup Halts, last : Int, atr : Int,
     open : Trades \cup {None}, pending : Waiting \cup {None}, approved : Nat, trades : Nat]

Sound(s) ==
    /\ s \in Sims
    /\ s.peak > 0
    /\ s.open = None \/ s.pending = None
    /\ Lost(s) => Flat(s)
    /\ s.approved = s.trades + Held(s)

Inv ==
    /\ bar \in Nat
    /\ sim \in Sims
    /\ sim.approved = sim.trades + Held(sim)
    /\ sim.open = None \/ sim.pending = None
    /\ ~ended => Sound(sim)
    /\ ended => sim.open = None

\* An account that is not drawn down has money left.
LEMMA MoneyLeft ==
    ASSUME NEW b \in Int, NEW p \in Int, p > 0, ~Drawn(b, p)
    PROVE  b > 0
<1> DEFINE dd == Cfg.max_account_drawdown_pct
<1>1. dd \in Nat /\ dd <= Bp
  BY CfgAssumption DEF Settings, PositiveSettings
<1>2. Bp * (p - b) < dd * p
  BY <1>1 DEF Drawn, Bp
<1>3. dd * p <= Bp * p
  BY <1>1 DEF Bp
<1> QED
  BY <1>1, <1>2, <1>3 DEF Bp

\* With money left no loss has reached the cap at the beginning of a day.
LEMMA NothingLostYet ==
    ASSUME NEW b \in Int, b > 0
    PROVE  ~DailyLost(0, b)
<1> DEFINE inr == Cfg.max_daily_loss_inr
           pct == Cfg.max_daily_loss_pct
<1>1. inr \in Nat /\ inr > 0 /\ pct \in Nat /\ pct > 0
  BY CfgAssumption DEF Settings, PositiveSettings
<1>2. Bp * inr > 0 /\ pct * b > 0
  BY <1>1 DEF Bp
<1>3. Least(Bp * inr, pct * b) > 0
  BY <1>2 DEF Least
<1>4. Least(Bp * inr, pct * b) \in Int
  BY <1>1 DEF Least, Bp
<1> QED
  BY <1>3, <1>4 DEF DailyLost, LossAt, Bp

\* What an approval says: no loss limit is reached, and the size is a number.
LEMMA ApprovedMeans ==
    ASSUME NEW x, Passes(Rules(x))
    PROVE  /\ ~Drawn(x.portfolio.balance, x.portfolio.peak)
           /\ ~DailyLost(x.state.realised_pnl, x.portfolio.balance)
           /\ x.signal.entry # x.signal.stop
           /\ ~(x.signal.entry <= 0)
<1>1. DOMAIN Rules(x) = 1..16
  BY DEF Rules
<1>2. Rules(x)[4] = Pass /\ Rules(x)[6] = Pass /\ Rules(x)[8] = Pass /\ Rules(x)[9] = Pass
  BY <1>1 DEF Passes
<1>3. DailyLoss(x) = Pass /\ AccountDrawdown(x) = Pass /\ Volatility(x) = Pass
      /\ PositionSizer(x) = Pass
  BY <1>2 DEF Rules
<1>4. \A r : Skipped(r) # Pass /\ Blocked(r) # Pass
  BY DEF Skipped, Blocked, Pass
<1>5. ~Drawn(x.portfolio.balance, x.portfolio.peak)
  BY <1>3, <1>4 DEF AccountDrawdown, Unless
<1>6. ~DailyLost(x.state.realised_pnl, x.portfolio.balance)
  BY <1>3, <1>4 DEF DailyLoss, Unless
<1>7. x.signal.entry # x.signal.stop
  BY <1>3, <1>4 DEF PositionSizer
<1>8. ~(x.signal.entry <= 0)
  BY <1>3, <1>4 DEF Volatility
<1> QED
  BY <1>5, <1>6, <1>7, <1>8

LEMMA QuantityIsNumber ==
    ASSUME NEW x, Passes(Rules(x)),
           x.signal.entry \in Int, x.signal.stop \in Int, x.portfolio.balance \in Int
    PROVE  quantity(x) \in Int
<1>1. x.signal.entry > 0 /\ Away(x.signal.entry, x.signal.stop) \in Nat \ {0}
  BY ApprovedMeans DEF Away
<1>2. /\ Cfg.risk_per_trade_pct \in Nat /\ Cfg.max_position_pct \in Nat
  BY CfgAssumption DEF Settings
<1>3. TradeRisk(x) \in Int
  BY <1>2 DEF TradeRisk
<1>4. Bp * Away(x.signal.entry, x.signal.stop) \in Nat \ {0}
  BY <1>1 DEF Bp
<1>5. SizeOf(x) \in Int
  BY <1>3, <1>4 DEF SizeOf
<1>6. Bp * x.signal.entry \in Nat \ {0}
  BY <1>1 DEF Bp
<1>7. x.portfolio.balance * Cfg.max_position_pct \in Int
  BY <1>2
<1>8. (x.portfolio.balance * Cfg.max_position_pct) \div (Bp * x.signal.entry) \in Int
  BY <1>6, <1>7
<1> QED
  BY <1>5, <1>8 DEF quantity, adjust_quantity

-----------------------------------------------------------------------------
\* Each part of a turn of the loop keeps what is Sound.

\* The records stay of their type, one field after the other.
LEMMA BookedTyped ==
    ASSUME NEW s \in Sims, NEW pnl \in Int
    PROVE  Booked(s, pnl) \in Sims
<1> DEFINE p == IF s.balance + pnl > s.peak THEN s.balance + pnl ELSE s.peak
           a == [s EXCEPT !.balance = s.balance + pnl]
           b == [a EXCEPT !.realised = s.realised + pnl]
           c == [b EXCEPT !.open = None]
           d == [c EXCEPT !.trades = s.trades + 1]
           e == [d EXCEPT !.peak = p]
<1>1. a \in Sims
  BY DEF Sims
<1>2. b \in Sims
  <2> HIDE DEF a
  <2>1. s.realised + pnl \in Int
    BY DEF Sims
  <2> QED
    BY <1>1, <2>1 DEF Sims
<1>3. c \in Sims
  <2> HIDE DEF b
  <2> QED
    BY <1>2 DEF Sims
<1>4. d \in Sims
  <2> HIDE DEF c
  <2>1. s.trades + 1 \in Nat
    BY DEF Sims
  <2> QED
    BY <1>3, <2>1 DEF Sims
<1>5. e \in Sims
  <2> HIDE DEF d
  <2>1. p \in Int
    BY DEF Sims
  <2> HIDE DEF p
  <2> QED
    BY <1>4, <2>1 DEF Sims
<1>6. Booked(s, pnl) = e
  BY DEF Booked, Sims
<1> QED
  BY <1>5, <1>6

LEMMA NewDayTyped ==
    ASSUME NEW s \in Sims
    PROVE  [s EXCEPT !.realised = 0, !.halt = "NONE"] \in Sims
<1> DEFINE a == [s EXCEPT !.realised = 0]
<1>1. a \in Sims
  BY DEF Sims
<1>2. [a EXCEPT !.halt = "NONE"] \in Sims
  <2> HIDE DEF a
  <2> QED
    BY <1>1 DEF Sims
<1> QED
  BY <1>2

LEMMA ApprovedTyped ==
    ASSUME NEW s \in Sims, NEW atr \in Int, NEW last \in Int, NEW q \in Waiting
    PROVE  [s EXCEPT !.atr = atr, !.approved = @ + 1, !.last = last, !.pending = q] \in Sims
<1> DEFINE a == [s EXCEPT !.atr = atr]
           b == [a EXCEPT !.approved = s.approved + 1]
           c == [b EXCEPT !.last = last]
<1>1. a \in Sims
  BY DEF Sims
<1>2. b \in Sims
  <2> HIDE DEF a
  <2>1. s.approved + 1 \in Nat
    BY DEF Sims
  <2> QED
    BY <1>1, <2>1 DEF Sims
<1>3. c \in Sims
  <2> HIDE DEF b
  <2> QED
    BY <1>2 DEF Sims
<1>4. [c EXCEPT !.pending = q] \in Sims
  <2> HIDE DEF c
  <2> QED
    BY <1>3 DEF Sims
<1>5. [s EXCEPT !.atr = atr, !.approved = @ + 1, !.last = last, !.pending = q]
      = [c EXCEPT !.pending = q]
  BY DEF Sims
<1> QED
  BY <1>4, <1>5

LEMMA RefusedTyped ==
    ASSUME NEW s \in Sims, NEW atr \in Int, NEW h \in {"NONE"} \cup Halts
    PROVE  [s EXCEPT !.atr = atr, !.halt = h] \in Sims
<1> DEFINE a == [s EXCEPT !.atr = atr]
<1>1. a \in Sims
  BY DEF Sims
<1>2. [a EXCEPT !.halt = h] \in Sims
  <2> HIDE DEF a
  <2> QED
    BY <1>1 DEF Sims
<1> QED
  BY <1>2

LEMMA FinishedTyped ==
    ASSUME NEW s \in Sims, NEW pnl \in Int
    PROVE  [s EXCEPT !.balance = @ + pnl, !.open = None, !.trades = @ + 1] \in Sims
<1> DEFINE a == [s EXCEPT !.balance = s.balance + pnl]
           b == [a EXCEPT !.open = None]
<1>1. a \in Sims
  BY DEF Sims
<1>2. b \in Sims
  <2> HIDE DEF a
  <2> QED
    BY <1>1 DEF Sims
<1>3. [b EXCEPT !.trades = s.trades + 1] \in Sims
  <2> HIDE DEF b
  <2>1. s.trades + 1 \in Nat
    BY DEF Sims
  <2> QED
    BY <1>2, <2>1 DEF Sims
<1>4. [s EXCEPT !.balance = @ + pnl, !.open = None, !.trades = @ + 1]
      = [b EXCEPT !.trades = s.trades + 1]
  BY DEF Sims
<1> QED
  BY <1>3, <1>4

LEMMA FilledSound ==
    ASSUME NEW s, Sound(s), NEW b \in Bars
    PROVE  Sound(Filled(s, b))
<1>1. CASE s.open = None /\ s.pending # None
  <2>1. s.pending \in Waiting /\ s \in Sims
    BY <1>1 DEF Sound, Sims
  <2>2. Trade(s.pending, b) \in Trades
    BY <2>1, BacktestAssumption DEF Trade, Trades, Waiting
  <2>3. Trade(s.pending, b) # None
    BY <2>2, BacktestAssumption
  <2>4. Filled(s, b) = [s EXCEPT !.open = Trade(s.pending, b), !.pending = None]
    BY <1>1 DEF Filled
  <2>5. Filled(s, b) \in Sims
    BY <2>1, <2>2, <2>4 DEF Sims
  <2>6. /\ Filled(s, b).open = Trade(s.pending, b) /\ Filled(s, b).pending = None
        /\ Filled(s, b).balance = s.balance /\ Filled(s, b).peak = s.peak
        /\ Filled(s, b).realised = s.realised
        /\ Filled(s, b).approved = s.approved /\ Filled(s, b).trades = s.trades
    BY <2>1, <2>4 DEF Sims
  <2>7. Held(Filled(s, b)) = 1 /\ Held(s) = 1
    BY <1>1, <2>3, <2>6 DEF Held
  <2>8. ~Lost(s) /\ ~Lost(Filled(s, b))
    BY <1>1, <2>6 DEF Sound, Flat, Lost
  <2> QED
    BY <2>5, <2>6, <2>7, <2>8 DEF Sound
<1>2. CASE ~(s.open = None /\ s.pending # None)
  BY <1>2 DEF Filled
<1> QED
  BY <1>1, <1>2

LEMMA NewDaySound ==
    ASSUME NEW s, Sound(s), NEW begins \in BOOLEAN
    PROVE  Sound(NewDay(s, begins))
<1> DEFINE n == [s EXCEPT !.realised = 0, !.halt = "NONE"]
<1>1. s \in Sims /\ s.balance \in Int /\ s.peak \in Int /\ s.peak > 0
  BY DEF Sound, Sims
<1>2. n \in Sims
  BY <1>1, NewDayTyped
<1>3. /\ n.open = s.open /\ n.pending = s.pending /\ n.balance = s.balance /\ n.peak = s.peak
      /\ n.realised = 0 /\ n.approved = s.approved /\ n.trades = s.trades
  BY <1>1 DEF Sims
<1>4. Held(n) = Held(s)
  BY <1>3 DEF Held
<1>5. Lost(n) => Flat(n)
  <2>1. SUFFICES ASSUME ~Flat(s) PROVE ~Lost(n)
    BY <1>3 DEF Flat
  <2>2. ~Drawn(s.balance, s.peak)
    BY <2>1 DEF Sound, Lost
  <2>3. s.balance > 0
    BY <1>1, <2>2, MoneyLeft
  <2> QED
    BY <1>1, <1>3, <2>2, <2>3, NothingLostYet DEF Lost
<1>6. Sound(n)
  BY <1>2, <1>3, <1>4, <1>5 DEF Sound
<1> QED
  BY <1>6 DEF NewDay

LEMMA TrailedSound ==
    ASSUME NEW s, Sound(s), NEW b \in Bars
    PROVE  Sound(Trailed(s, b))
<1> DEFINE new == Best(s.open, b) - Sign(s.open.dir) * s.atr
           n == [s EXCEPT !.open.stop = new]
<1>1. CASE Trailed(s, b) = s
  BY <1>1
<1>2. CASE s.open # None /\ Trailed(s, b) = n
  <2>1. s \in Sims /\ s.open \in Trades /\ s.atr \in Int
    BY <1>2 DEF Sound, Sims
  <2>2. new \in Int
    BY <2>1, BacktestAssumption DEF Best, Sign, Trades, Directions
  <2>3. [s.open EXCEPT !.stop = new] \in Trades
    BY <2>1, <2>2 DEF Trades
  <2>4. n = [s EXCEPT !.open = [s.open EXCEPT !.stop = new]]
    BY <2>1 DEF Sims
  <2>5. n \in Sims
    BY <2>1, <2>3, <2>4 DEF Sims
  <2>6. /\ n.open # None /\ n.pending = s.pending /\ n.balance = s.balance /\ n.peak = s.peak
        /\ n.realised = s.realised /\ n.approved = s.approved /\ n.trades = s.trades
    BY <2>1, <2>3, <2>4, BacktestAssumption DEF Sims
  <2>7. Held(n) = Held(s)
    BY <1>2, <2>6 DEF Held
  <2>8. Lost(n) => Flat(n)
    BY <1>2, <2>6 DEF Sound, Lost, Flat
  <2>9. n.peak > 0 /\ (n.open = None \/ n.pending = None) /\ n.approved = n.trades + Held(n)
    BY <1>2, <2>6, <2>7 DEF Sound
  <2> QED
    BY <1>2, <2>5, <2>8, <2>9 DEF Sound
<1> QED
  BY <1>1, <1>2 DEF Trailed

LEMMA PnlIsNumber ==
    ASSUME NEW t \in Trades, NEW price \in Int
    PROVE  Pnl(t, price) \in Int
BY DEF Pnl, Sign, Trades, Directions

LEMMA ExitedSound ==
    ASSUME NEW s, Sound(s), NEW b \in Bars
    PROVE  Sound(Exited(s, b))
<1> DEFINE price == IF StopHit(s.open, b) THEN s.open.stop ELSE s.open.target
           pnl == Pnl(s.open, price)
           n == Booked(s, pnl)
<1>1. CASE Exited(s, b) = s
  BY <1>1
<1>2. CASE s.open # None /\ Exited(s, b) = n
  <2>1. s \in Sims /\ s.open \in Trades /\ s.pending = None
    BY <1>2 DEF Sound, Sims
  <2>2. price \in Int
    BY <2>1 DEF Trades
  <2>3. pnl \in Int
    BY <2>1, <2>2, PnlIsNumber
  <2>4. n \in Sims /\ n.open = None /\ n.pending = None /\ n.approved = s.approved
        /\ n.trades = s.trades + 1 /\ n.peak > 0
    <3> HIDE DEF pnl
    <3>1. n \in Sims
      BY <2>1, <2>3, BookedTyped
    <3>2. n.open = None /\ n.pending = None /\ n.approved = s.approved /\ n.trades = s.trades + 1
      BY <2>1 DEF Sims, Booked
    <3>3. s.balance \in Int /\ s.peak \in Int /\ s.peak > 0
      BY <2>1 DEF Sims, Sound
    <3>4. n.peak = IF s.balance + pnl > s.peak THEN s.balance + pnl ELSE s.peak
      BY <2>1 DEF Sims, Booked
    <3>5. n.peak > 0
      BY <2>3, <3>3, <3>4
    <3> QED
      BY <3>1, <3>2, <3>5
  <2>5. Held(s) = 1 /\ Held(n) = 0
    BY <1>2, <2>1, <2>4 DEF Held
  <2>6. s.approved = s.trades + 1 /\ s.trades \in Nat
    BY <2>1, <2>5 DEF Sound, Sims
  <2> QED
    BY <1>2, <2>4, <2>5, <2>6 DEF Sound, Flat
<1> QED
  BY <1>1, <1>2 DEF Exited

LEMMA EvaluatedSound ==
    ASSUME NEW s, Sound(s), NEW b \in Bars, NEW o \in Offers \cup {None}, Looks(s, o),
           s.pending = None, bar \in Nat
    PROVE  Sound(Evaluated(s, Request(s, o, b), Rules(Request(s, o, b))))
<1> DEFINE x == Request(s, o, b)
           l == Rules(x)
           n == Evaluated(s, x, l)
<1> SUFFICES Sound(n)
  OBVIOUS
<1>1. s \in Sims /\ s.open = None /\ o \in Offers
  BY DEF Looks, Sound
<1>2. /\ x.signal.dir = o.dir /\ x.signal.entry = b.close
      /\ x.signal.stop = b.close - Sign(o.dir) * o.risk
      /\ x.signal.target = b.close + Sign(o.dir) * o.reward /\ x.signal.atr = o.atr
      /\ x.portfolio.balance = s.balance /\ x.portfolio.peak = s.peak
      /\ x.state.realised_pnl = s.realised
  BY DEF Request
<1>3. /\ x.signal.dir \in Directions /\ x.signal.entry \in Int /\ x.signal.stop \in Int
      /\ x.signal.target \in Int /\ x.signal.atr \in Int /\ x.portfolio.balance \in Int
  BY <1>1, <1>2, BacktestAssumption DEF Sims, Sign, Directions
<1> HIDE DEF x
<1>4. CASE Passes(l)
  <2>1. quantity(x) \in Int
    BY <1>3, <1>4, QuantityIsNumber
  <2>2. Pending(x) \in Waiting
    BY <1>3, <2>1 DEF Pending, Waiting
  <2>3. Pending(x) # None
    BY <2>2, BacktestAssumption
  <2>4. n = [s EXCEPT !.atr = x.signal.atr, !.approved = @ + 1, !.last = bar,
                      !.pending = Pending(x)]
    BY <1>4 DEF Evaluated
  <2> HIDE DEF n
  <2>5. n \in Sims
    <3> DEFINE atr == x.signal.atr
               q == Pending(x)
    <3>1. atr \in Int /\ q \in Waiting
      BY <1>3, <2>2
    <3>2. n = [s EXCEPT !.atr = atr, !.approved = @ + 1, !.last = bar, !.pending = q]
      BY <2>4
    <3>3. bar \in Int
      OBVIOUS
    <3> HIDE DEF atr, q
    <3> QED
      BY <1>1, <3>1, <3>2, <3>3, ApprovedTyped
  <2>6. /\ n.open = None /\ n.pending # None /\ n.balance = s.balance /\ n.peak = s.peak
        /\ n.realised = s.realised /\ n.approved = s.approved + 1 /\ n.trades = s.trades
    BY <1>1, <2>3, <2>4 DEF Sims
  <2>7. ~Lost(n)
    BY <1>2, <1>4, <2>6, ApprovedMeans DEF Lost
  <2>8. Held(s) = 0 /\ Held(n) = 1
    BY <1>1, <2>6 DEF Held
  <2>9. s.approved = s.trades + Held(s) /\ s.peak > 0 /\ s.approved \in Nat /\ s.trades \in Nat
    BY <1>1 DEF Sound, Sims
  <2>10. n.approved = n.trades + Held(n) /\ n.peak > 0
    BY <2>6, <2>8, <2>9
  <2>11. (n.open = None \/ n.pending = None) /\ (Lost(n) => Flat(n))
    BY <2>6, <2>7
  <2> QED
    BY <2>5, <2>10, <2>11 DEF Sound
<1>5. CASE ~Passes(l)
  <2> DEFINE atr == x.signal.atr
             h == IF FirstOf(l).reason \in Halts THEN FirstOf(l).reason ELSE s.halt
  <2>1. h \in {"NONE"} \cup Halts /\ atr \in Int
    BY <1>1, <1>3 DEF Sims
  <2>2. n = [s EXCEPT !.atr = atr, !.halt = h]
    BY <1>1, <1>5 DEF Evaluated, Sims
  <2> HIDE DEF h, atr, n
  <2>3. n \in Sims
    BY <1>1, <2>1, <2>2, RefusedTyped
  <2>4. /\ n.open = None /\ n.pending = None /\ n.balance = s.balance /\ n.peak = s.peak
        /\ n.realised = s.realised /\ n.approved = s.approved /\ n.trades = s.trades
    BY <1>1, <2>2 DEF Sims
  <2>5. Held(n) = Held(s) /\ Flat(n)
    BY <1>1, <2>4 DEF Held, Flat
  <2>6. s.peak > 0 /\ s.approved = s.trades + Held(s)
    BY DEF Sound
  <2>7. n.peak > 0 /\ n.approved = n.trades + Held(n)
    BY <2>4, <2>5, <2>6
  <2>8. (n.open = None \/ n.pending = None) /\ (Lost(n) => Flat(n))
    BY <2>4, <2>5
  <2> QED
    BY <2>3, <2>7, <2>8 DEF Sound
<1> QED
  BY <1>4, <1>5

\* Nothing is pending after a bar was filled.
LEMMA NothingPending ==
    ASSUME Sound(sim), NEW b \in Bars, NEW begins \in BOOLEAN
    PROVE  Sound(Replayed(b, begins)) /\ Replayed(b, begins).pending = None
<1> DEFINE f == Filled(sim, b)
           n == NewDay(f, begins)
           t == Trailed(n, b)
<1>1. Sound(f)
  BY FilledSound
<1>2. Sound(n)
  BY <1>1, NewDaySound
<1>3. Sound(t)
  BY <1>2, TrailedSound
<1>4. Sound(Exited(t, b))
  BY <1>3, ExitedSound
<1>5. f.pending = None
  BY DEF Sound, Sims, Filled
<1>6. n.pending = None
  BY <1>1, <1>5 DEF Sound, Sims, NewDay
<1>7. t.pending = None
  BY <1>2, <1>6 DEF Sound, Sims, Trailed
<1>8. Exited(t, b).pending = None
  BY <1>3, <1>7 DEF Sound, Sims, Exited, Booked
<1> QED
  BY <1>4, <1>8 DEF Replayed
-----------------------------------------------------------------------------

(* The invariant of a run: sound after every turn of the loop, and still   *)
(* one trade for each approval when the run has ended.                     *)
THEOREM RunsAreSound == Spec => []Inv
<1>1. Init => Inv
  <2> SUFFICES ASSUME Init PROVE Inv
    OBVIOUS
  <2>1. initial_balance \in Int /\ initial_balance > 0
    BY BacktestAssumption
  <2>2. Fresh \in Sims
    BY <2>1 DEF Fresh, Sims, Never
  <2>3. Held(Fresh) = 0 /\ Flat(Fresh) /\ Fresh.peak > 0 /\ Fresh.approved = Fresh.trades + 0
    BY <2>1 DEF Held, Flat, Fresh
  <2>4. Sound(Fresh)
    BY <2>2, <2>3 DEF Sound, Flat
  <2> QED
    BY <2>2, <2>3, <2>4 DEF Init, Inv, Flat
<1>2. Inv /\ [Next]_vars => Inv'
  <2> SUFFICES ASSUME Inv, [Next]_vars PROVE Inv'
    OBVIOUS
  <2>1. CASE \E b \in Bars, begins \in BOOLEAN, o \in Offers \cup {None} : Bar(b, begins, o)
    <3> PICK b \in Bars, begins \in BOOLEAN, o \in Offers \cup {None} : Bar(b, begins, o)
      BY <2>1
    <3> DEFINE s == Replayed(b, begins)
               x == Request(s, o, b)
    <3>1. ~ended /\ ~ended' /\ bar \in Nat /\ bar' \in Nat /\ Sound(sim)
      BY DEF Bar, Inv
    <3>2. Sound(s) /\ s.pending = None
      BY <3>1, NothingPending
    <3>3. CASE Looks(s, o)
      <4>1. sim' = Evaluated(s, x, Rules(x))
        BY <3>3 DEF Bar
      <4>2. Sound(Evaluated(s, x, Rules(x)))
        BY <3>1, <3>2, <3>3, EvaluatedSound
      <4> QED
        BY <3>1, <4>1, <4>2 DEF Inv, Sound, Held, Lost, Flat
    <3>4. CASE ~Looks(s, o)
      <4>1. sim' = s
        BY <3>4 DEF Bar
      <4> QED
        BY <3>1, <3>2, <4>1 DEF Inv, Sound, Held, Lost, Flat
    <3> QED
      BY <3>3, <3>4
  <2>2. CASE \E b \in Bars : Finish(b)
    <3> PICK b \in Bars : Finish(b)
      BY <2>2
    <3>1. ~ended /\ ended' /\ bar' = bar /\ Sound(sim)
      BY DEF Finish, Inv
    <3>2. CASE sim.open = None
      BY <3>1, <3>2 DEF Finish, Inv, Held
    <3>3. CASE sim.open # None
      <4> DEFINE pnl == Pnl(sim.open, b.close)
      <4>1. sim \in Sims /\ sim.open \in Trades /\ sim.pending = None
        BY <3>1, <3>3 DEF Sound, Sims
      <4>2. pnl \in Int
        BY <4>1, PnlIsNumber, BacktestAssumption
      <4>3. sim' = [sim EXCEPT !.balance = @ + pnl, !.open = None, !.trades = @ + 1]
        BY <3>3 DEF Finish
      <4> HIDE DEF pnl
      <4>4. /\ sim' \in Sims /\ sim'.open = None /\ sim'.pending = None
            /\ sim'.approved = sim.approved /\ sim'.trades = sim.trades + 1
        <5>1. sim' \in Sims
          BY <4>1, <4>2, <4>3, FinishedTyped
        <5>2. /\ sim'.open = None /\ sim'.pending = None
              /\ sim'.approved = sim.approved /\ sim'.trades = sim.trades + 1
          BY <4>1, <4>3 DEF Sims
        <5> QED
          BY <5>1, <5>2
      <4>5. Held(sim) = 1 /\ Held(sim)' = 0
        BY <3>3, <4>1, <4>4 DEF Held
      <4>6. sim.approved = sim.trades + 1 /\ sim.trades \in Nat
        BY <4>1, <4>5 DEF Inv, Sims
      <4> QED
        BY <3>1, <4>4, <4>5, <4>6 DEF Inv
    <3> QED
      BY <3>2, <3>3
  <2>3. CASE NextWindow
    <3>1. initial_balance \in Int /\ initial_balance > 0
      BY BacktestAssumption
    <3>2. Fresh \in Sims
      BY <3>1 DEF Fresh, Sims, Never
    <3>3. Held(Fresh) = 0 /\ Flat(Fresh) /\ Fresh.peak > 0 /\ Fresh.approved = Fresh.trades + 0
      BY <3>1 DEF Held, Flat, Fresh
    <3>4. Sound(Fresh)
      BY <3>2, <3>3 DEF Sound, Flat
    <3>5. sim' = Fresh /\ bar' = 0 /\ ~ended'
      BY <2>3 DEF NextWindow
    <3> QED
      BY <3>2, <3>3, <3>4, <3>5 DEF Inv, Sound, Held, Lost, Flat
  <2>4. CASE Midnight
    BY <2>4 DEF Midnight, Inv, Sound, Held, Lost, Flat
  <2>5. CASE UNCHANGED vars
    BY <2>5 DEF vars, Inv, Sound, Held, Lost, Flat
  <2> QED
    BY <2>1, <2>2, <2>3, <2>4, <2>5 DEF Next
<1> QED
  BY <1>1, <1>2, PTL DEF Spec

(* A run whose account or day has lost its limit holds no trade and waits  *)
(* for none, for any limits, bars and signals (AccountDrawdownHalt and     *)
(* DailyLossCircuitBreaker against the loop of run).                       *)
THEOREM LossesStopTrading == Spec => []LossesHalt
<1>1. Inv => LossesHalt
  BY DEF Inv, Sound, Lost, LossesHalt
<1> QED
  BY <1>1, RunsAreSound, PTL

-----------------------------------------------------------------------------
(* The cap.  RunsAreSound says how approvals and trades agree within a     *)
(* run; CapInv says what no run sees, that each approval has its place in  *)
(* the count of rule 11 for some date of the wall.                         *)

Cap == Cfg.max_signals_per_stock

CapInv ==
    /\ count \in Nat /\ nights \in Nat /\ before \in Nat
    /\ count <= Cap
    /\ before + sim.approved <= nights * Cap + count

\* The list without its last verdict.
LEMMA AllButTheLast ==
    ASSUME NEW x
    PROVE  /\ DOMAIN SubSeq(Rules(x), 1, Len(Rules(x)) - 1) = 1..15
           /\ \A k \in 1..15 : SubSeq(Rules(x), 1, Len(Rules(x)) - 1)[k] = Rules(x)[k]
<1> PICK l : l = Rules(x)
  OBVIOUS
<1>1. Len(Rules(x)) = 16 /\ Rules(x) \in Seq({Rules(x)[k] : k \in 1..16})
  BY DEF Rules
<1> DEFINE D == {l[k] : k \in 1..16}
<1>2. l \in Seq(D) /\ Len(l) = 16
  BY <1>1
<1> HIDE DEF D
<1>3. /\ Len(SubSeq(l, 1, 15)) = 15 /\ SubSeq(l, 1, 15) \in Seq(D)
      /\ \A k \in 1..15 : SubSeq(l, 1, 15)[k] = l[k]
  BY <1>2
<1>4. DOMAIN SubSeq(l, 1, 15) = 1..15
  BY <1>3
<1> QED
  BY <1>2, <1>3, <1>4

\* A signal counts only below the cap, and an approved one counts.
LEMMA CountedBelowTheCap ==
    ASSUME NEW x, Counts(Rules(x))
    PROVE  ~(x.count >= Cap)
<1> DEFINE u == SubSeq(Rules(x), 1, Len(Rules(x)) - 1)
<1>1. Rules(x)[15] = Pass
  <2>1. \A k \in DOMAIN u : u[k] = Pass
    BY DEF Counts, Passes
  <2>2. DOMAIN u = 1..15 /\ \A k \in 1..15 : u[k] = Rules(x)[k]
    BY AllButTheLast, Zenon
  <2> HIDE DEF u
  <2> QED
    BY <2>1, <2>2
<1>2. StockCount(x) = Pass
  BY <1>1 DEF Rules
<1> QED
  BY <1>2 DEF StockCount, Unless, Pass, Skipped, Cap

LEMMA ApprovedCounts ==
    ASSUME NEW x, Passes(Rules(x))
    PROVE  Counts(Rules(x))
<1>1. \A k \in 1..15 : Rules(x)[k] = Pass
  <2>1. DOMAIN Rules(x) = 1..16
    BY DEF Rules
  <2> QED
    BY <2>1 DEF Passes
<1> QED
  BY <1>1, AllButTheLast DEF Counts, Passes

\* Only an evaluation approves.
LEMMA ReplayApprovesNothing ==
    ASSUME sim \in Sims, NEW b, NEW begins
    PROVE  Replayed(b, begins).approved = sim.approved
<1> DEFINE f == Filled(sim, b)
           n == NewDay(f, begins)
           t == Trailed(n, b)
<1>1. f.approved = sim.approved /\ DOMAIN f = DOMAIN sim
  BY DEF Filled, Sims
<1>2. n.approved = f.approved /\ DOMAIN n = DOMAIN f
  BY <1>1 DEF NewDay, Sims
<1>3. t.approved = n.approved /\ DOMAIN t = DOMAIN n
  BY <1>1, <1>2 DEF Trailed, Sims
<1>4. Exited(t, b).approved = t.approved
  BY <1>1, <1>2, <1>3 DEF Exited, Booked, Sims
<1> QED
  BY <1>1, <1>2, <1>3, <1>4 DEF Replayed

(* Every approval, of this run or an earlier one, was counted by rule 11   *)
(* on some date of the wall, and the count of a date stops at the cap      *)
(* (MaxSignalsPerStockPerDay.check, walk_forward_test).                    *)
THEOREM ApprovalsAreCounted == Spec => []CapInv
<1>1. Cap \in Nat
  BY CfgAssumption DEF Settings, PositiveSettings, Cap
<1>2. Init => CapInv
  BY <1>1 DEF Init, CapInv, Fresh
<1>3. Inv /\ CapInv /\ [Next]_vars => CapInv'
  <2> SUFFICES ASSUME Inv, CapInv, [Next]_vars PROVE CapInv'
    OBVIOUS
  <2>1. sim \in Sims /\ sim.approved \in Nat
    BY DEF Inv, Sims
  <2>2. Cap' = Cap
    BY DEF Cap
  <2>3. CASE \E b \in Bars, begins \in BOOLEAN, o \in Offers \cup {None} : Bar(b, begins, o)
    <3> PICK b \in Bars, begins \in BOOLEAN, o \in Offers \cup {None} : Bar(b, begins, o)
      BY <2>3
    <3> DEFINE s == Replayed(b, begins)
               x == Request(s, o, b)
               l == Rules(x)
    <3>1. nights' = nights /\ before' = before
      BY DEF Bar
    <3>2. s.approved = sim.approved
      BY <2>1, ReplayApprovesNothing
    <3>3. CASE Looks(s, o)
      <4>1. sim' = Evaluated(s, x, l) /\ count' = IF Counts(l) THEN count + 1 ELSE count
        BY <3>3 DEF Bar
      <4>2. Counts(l) => count < Cap
        <5>1. x.count = count
          BY DEF Request
        <5>2. Counts(l) => ~(x.count >= Cap)
          BY CountedBelowTheCap
        <5> QED
          BY <1>1, <5>1, <5>2 DEF CapInv
      <4>3. Sound(sim) /\ bar \in Nat
        BY DEF Bar, Inv
      <4>4. s \in Sims
        BY <4>3, NothingPending DEF Sound
      <4>5. CASE Passes(l)
        <5>1. Counts(l)
          BY <4>5, ApprovedCounts
        <5>2. sim'.approved = sim.approved + 1
          <6> HIDE DEF s, x, l
          <6> QED
            BY <3>2, <4>1, <4>4, <4>5 DEF Evaluated, Sims
        <5>3. count' = count + 1 /\ count' <= Cap
          BY <1>1, <4>1, <4>2, <5>1 DEF CapInv
        <5> QED
          BY <1>1, <2>1, <2>2, <3>1, <5>2, <5>3 DEF CapInv
      <4>6. CASE ~Passes(l)
        <5>1. sim'.approved = sim.approved
          <6> HIDE DEF s, x, l
          <6> QED
            BY <3>2, <4>1, <4>4, <4>6 DEF Evaluated, Sims
        <5>2. count' \in Nat /\ count' <= Cap /\ count' >= count
          <6> HIDE DEF l
          <6> QED
            BY <1>1, <4>1, <4>2 DEF CapInv
        <5> QED
          BY <1>1, <2>1, <2>2, <3>1, <5>1, <5>2 DEF CapInv
      <4> QED
        BY <4>5, <4>6
    <3>4. CASE ~Looks(s, o)
      <4>1. sim' = s /\ count' = count
        BY <3>4 DEF Bar
      <4>2. sim'.approved = sim.approved
        BY <3>2, <4>1
      <4> QED
        BY <2>2, <3>1, <4>1, <4>2 DEF CapInv
    <3> QED
      BY <3>3, <3>4
  <2>4. CASE \E b \in Bars : Finish(b)
    <3> PICK b \in Bars : Finish(b)
      BY <2>4
    <3>1. sim'.approved = sim.approved
      BY <2>1 DEF Finish, Sims
    <3> QED
      BY <2>2, <3>1 DEF Finish, CapInv
  <2>5. CASE NextWindow
    <3>1. before' = before + sim.approved /\ sim'.approved = 0
      BY <2>5 DEF NextWindow, Fresh
    <3> QED
      BY <2>1, <2>2, <2>5, <3>1 DEF NextWindow, CapInv
  <2>6. CASE Midnight
    <3>1. nights' = nights + 1 /\ count' = 0 /\ before' = before /\ sim' = sim
      BY <2>6 DEF Midnight
    <3>2. (nights + 1) * Cap = nights * Cap + Cap
      BY <1>1 DEF CapInv
    <3> QED
      BY <1>1, <2>1, <2>2, <3>1, <3>2 DEF CapInv
  <2>7. CASE UNCHANGED vars
    BY <2>2, <2>7 DEF vars, CapInv
  <2> QED
    BY <2>3, <2>4, <2>5, <2>6, <2>7 DEF Next
<1> QED
  BY <1>2, <1>3, RunsAreSound, PTL DEF Spec

(* Every approval becomes one trade, and the runs of a walk-forward test   *)
(* have together no more of them than the cap of a stock for each date of  *)
(* the wall, for any cap, any bars and any number of runs.                 *)
THEOREM ApprovalsTradeOnce == Spec => []OneTradePerApproval
<1>1. Inv /\ CapInv => OneTradePerApproval
  <2> SUFFICES ASSUME Inv, CapInv PROVE OneTradePerApproval
    OBVIOUS
  <2>1. Cap \in Nat
    BY CfgAssumption DEF Settings, PositiveSettings, Cap
  <2>2. sim.approved \in Nat /\ nights \in Nat
    BY DEF Inv, CapInv, Sims
  <2>3. Held(sim) <= 1
    BY DEF Inv, Held
  <2>4. (nights + 1) * Cap = nights * Cap + Cap
    BY <2>1, <2>2
  <2>5. before + sim.approved <= (nights + 1) * Cap
    BY <2>1, <2>2, <2>4 DEF CapInv
  <2> QED
    BY <2>3, <2>5 DEF OneTradePerApproval, Inv, Cap
<1> QED
  BY <1>1, RunsAreSound, ApprovalsAreCounted, PTL

=============================================================================
