--------------------------- MODULE TradingControl ---------------------------
(***************************************************************************)
(* The row of auto_trade_config, today's halt and the server's lock on     *)
(* LIVE.  A request reads both rows, changes attributes and commits; the   *)
(* session writes only attributes that differ from what it read, so two    *)
(* requests under way at once each write a part.                           *)
(***************************************************************************)
EXTENDS Naturals, FiniteSets

CONSTANTS
    None,
    Requests    \* requests that change the rows, each made once (a bound)

VARIABLES
    row,        \* enabled and mode of the config, is_halted of the day
    lock,       \* LIVE_TRADING_LOCK is CONFIRMED in this process
    unused,     \* requests not made yet
    calls       \* those between their read and their commit

controlVars == <<row, lock, unused, calls>>

Modes == {"disabled", "paper", "live"}
Rows == [enabled : BOOLEAN, mode : Modes, is_halted : BOOLEAN]

\* Begins with what an earlier process left; one that finds no rows makes them.
ControlInit == lock \in BOOLEAN /\ calls = [q \in Requests |-> None]

\* What a config row means in a process with, or without, the lock.
mode_of(r, l) ==
    IF ~r.enabled THEN "disabled"
    ELSE IF r.mode = "live" /\ ~l THEN "paper"
    ELSE r.mode

get_mode == mode_of(row, lock)

-----------------------------------------------------------------------------
validate_mode_switch(m) == m = "live" => lock

Both(e, m) == [enabled |-> e, mode |-> m]

update_config == {Both(e, m) : e \in BOOLEAN, m \in {n \in Modes : validate_mode_switch(n)}}
set_trading_mode == {Both(m # "disabled", m) : m \in {n \in Modes : validate_mode_switch(n)}}

emergency_halt == [enabled |-> FALSE, mode |-> "disabled", is_halted |-> TRUE]
resume_after_halt == [enabled |-> TRUE, mode |-> "paper", is_halted |-> FALSE]

Wishes == update_config \cup set_trading_mode \cup {emergency_halt, resume_after_halt}

\* A handler has its rows and its changes made.
Read(q, want) ==
    /\ q \in unused /\ unused' = unused \ {q}
    /\ calls' = [calls EXCEPT ![q] = [want |-> want, read |-> row]]
    /\ UNCHANGED <<row, lock>>

\* Mutant of After: the rows are written as the handler holds them.
AfterWhole(c) == [f \in DOMAIN row |-> IF f \in DOMAIN c.want THEN c.want[f] ELSE c.read[f]]

Written(c) == {f \in DOMAIN c.want : c.want[f] # c.read[f]}
After(c) == [f \in DOMAIN row |-> IF f \in Written(c) THEN c.want[f] ELSE row[f]]

Commit(q) ==
    /\ calls[q] # None /\ row' = After(calls[q])
    /\ calls' = [calls EXCEPT ![q] = None]
    /\ UNCHANGED <<lock, unused>>

\* reset_daily_risk_state, at 09:00, ends a halt of the day as well.
NewDay ==
    /\ row.is_halted /\ row' = [row EXCEPT !.is_halted = FALSE]
    /\ UNCHANGED <<lock, unused, calls>>

\* The process is started again, perhaps with another lock.
ControlRestart ==
    /\ lock' \in BOOLEAN
    /\ calls' = [q \in Requests |-> None]
    /\ UNCHANGED <<row, unused>>

ControlNext ==
    \/ \E q \in Requests, want \in Wishes : Read(q, want)
    \/ \E q \in Requests : Commit(q)
    \/ NewDay
=============================================================================
