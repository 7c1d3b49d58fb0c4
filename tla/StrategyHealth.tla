--------------------------- MODULE StrategyHealth ---------------------------
(***************************************************************************)
(* The health of each strategy: one Redis key per strategy, read, changed  *)
(* in memory and written back whole by whoever closes a trade or asks      *)
(* whether the strategy is disabled.  Nothing else changes the keys:       *)
(* re_enable and hydrate_from_db have no callers.                          *)
(***************************************************************************)
EXTENDS Integers, Sequences, FiniteSets, SequencesExt

CONSTANTS
    Ids,            \* strategies with a key
    Closers,        \* processes that record the result of a trade
    Askers,         \* is_disabled calls whose pause is over
    MaxLosses,      \* MAX_CONSECUTIVE_LOSSES, 5
    WinLookback,    \* WIN_RATE_LOOKBACK, 20
    WinPct,         \* WIN_RATE_MIN_PCT, 35
    PfLookback,     \* PF_LOOKBACK, 30
    Pnls,           \* profits and losses of a trade
    MaxTrades,      \* trades to record (a bound)
    MaxDays         \* days to pass (a bound)

Never == -1

ASSUME HealthAssumption ==
    /\ Closers \cap Askers = {}
    /\ {MaxLosses, WinLookback, PfLookback} \subseteq Nat \ {0}
    /\ {WinPct, MaxTrades, MaxDays} \subseteq Nat
    /\ Pnls \subseteq Int

VARIABLES
    health,     \* health[i]: what the key strategy_health:<i> holds
    holder,     \* holder[w]: the strategy whose state w has read, 0 if none
    read,       \* read[w]: the state w read
    write,      \* write[w]: the state w will save
    today,      \* days gone by
    recorded    \* trades recorded so far

health_vars == <<health, holder, read, write, today, recorded>>

Sessions == Closers \cup Askers
Fresh == [trades |-> <<>>, losses |-> 0, disabled |-> FALSE, until |-> Never]
Records == [trades : Seq(Pnls), losses : Nat, disabled : BOOLEAN, until : Nat \cup {Never}]

HealthInit(n) ==
    /\ health = [i \in Ids |-> Fresh]
    /\ holder = [w \in Sessions |-> 0]
    /\ read = [w \in Sessions |-> Fresh] /\ write = [w \in Sessions |-> Fresh]
    /\ today = 0 /\ recorded = n

Recent(t, n) == IF Len(t) > n THEN SubSeq(t, Len(t) - n + 1, Len(t)) ELSE t
Total(t) == FoldLeft(LAMBDA x, y : x + y, 0, t)
Won(t) == SelectSeq(t, LAMBDA p : p > 0)
Lost(t) == SelectSeq(t, LAMBDA p : p < 0)

LosesTooOften(t) ==
    LET r == Recent(t, WinLookback)
    IN Len(r) >= WinLookback /\ 100 * Len(Won(r)) < WinPct * Len(r)
LosesTooMuch(t) ==
    LET r == Recent(t, PfLookback)
    IN Len(r) >= PfLookback /\ Total(Won(r)) < -Total(Lost(r))

\* A run of losses pauses the strategy for a day; the other two have no end.
should_disable(h) == h.losses >= MaxLosses \/ LosesTooOften(h.trades) \/ LosesTooMuch(h.trades)

\* Mutant of Recorded: a trade that is not a loss turns the strategy on again.
RecordedForgiving(h, pnl) ==
    LET n == [h EXCEPT !.trades = Recent(Append(@, pnl), PfLookback),
                       !.losses = IF pnl < 0 THEN @ + 1 ELSE 0]
    IN [n EXCEPT !.disabled = should_disable(n)]

Recorded(h, pnl) ==
    LET n == [h EXCEPT !.trades = Recent(Append(@, pnl), PfLookback),
                       !.losses = IF pnl < 0 THEN @ + 1 ELSE 0]
    IN IF should_disable(n) /\ ~n.disabled
       THEN [n EXCEPT !.disabled = TRUE,
                      !.until = IF n.losses >= MaxLosses THEN today + 1 ELSE @]
       ELSE n

\* Between the answer to GET and the SET others may read and write the key.
Hold(w, i, new) ==
    /\ holder[w] = 0
    /\ holder' = [holder EXCEPT ![w] = i]
    /\ read' = [read EXCEPT ![w] = health[i]]
    /\ write' = [write EXCEPT ![w] = new]
    /\ UNCHANGED <<health, today>>

record_trade(w, i, pnl) ==
    /\ w \in Closers
    /\ recorded < MaxTrades
    /\ recorded' = recorded + 1
    /\ Hold(w, i, Recorded(health[i], pnl))

save_state(w) ==
    /\ holder[w] # 0
    /\ health' = [health EXCEPT ![holder[w]] = write[w]]
    /\ holder' = [holder EXCEPT ![w] = 0]
    /\ read' = [read EXCEPT ![w] = Fresh] /\ write' = [write EXCEPT ![w] = Fresh]
    /\ UNCHANGED <<today, recorded>>

PauseOver(h) == h.disabled /\ h.until # Never /\ today >= h.until
is_disabled(i) == health[i].disabled /\ ~PauseOver(health[i])

\* is_disabled clears a pause that is over, and keeps the count of losses.
clear_pause(w, i) ==
    /\ w \in Askers
    /\ PauseOver(health[i])
    /\ Hold(w, i, [health[i] EXCEPT !.disabled = FALSE, !.until = Never])
    /\ UNCHANGED recorded

\* Recording is a task nobody awaits: it may end with its process, or on a SET
\* that Redis refuses.
NotSaved(w) ==
    /\ w \in Closers
    /\ holder[w] # 0
    /\ holder' = [holder EXCEPT ![w] = 0]
    /\ read' = [read EXCEPT ![w] = Fresh] /\ write' = [write EXCEPT ![w] = Fresh]
    /\ UNCHANGED <<health, today, recorded>>

DayPasses ==
    /\ today < MaxDays
    /\ today' = today + 1
    /\ UNCHANGED <<health, holder, read, write, recorded>>

HealthNext ==
    \/ \E w \in Sessions, i \in Ids, p \in Pnls : record_trade(w, i, p)
    \/ \E w \in Sessions, i \in Ids : clear_pause(w, i)
    \/ \E w \in Sessions : save_state(w) \/ NotSaved(w)
    \/ DayPasses

(* A strategy that was switched off is not switched on again before its    *)
(* pause is over, whoever wins a trade or asks meanwhile, except by a save *)
(* whose reader had found it still on (strategy_health.record_trade and    *)
(* is_disabled change the whole record without a lock).  A strategy that   *)
(* was switched off without an end stays off for ever.                     *)
PauseHolds ==
    [][\A i \in Ids :
         health[i].disabled /\ ~health'[i].disabled =>
             \E w \in Sessions :
                 holder[w] = i /\ (PauseOver(read[w]) \/ ~read[w].disabled)]_health_vars
=============================================================================
