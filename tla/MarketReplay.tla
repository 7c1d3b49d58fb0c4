---------------------------- MODULE MarketReplay ----------------------------
(***************************************************************************)
(* A replay sends the ticks of a file to the CandleAggregator of the API   *)
(* process (Candles), in a task of its own, while requests start, pause,   *)
(* resume and stop replays and change the trading mode (TradingControl).   *)
(* One process: a task runs until it awaits, and is cancelled where it     *)
(* awaits.                                                                 *)
(***************************************************************************)
EXTENDS TradingControl, Candles

CONSTANTS
    Files,      \* contents of the CSV files: their rows, or none if a column is missing
    Session,    \* times of a market session
    Clients,    \* handlers that check the safety rules at the same time
    Bounds      \* rows found at the start; how often what has no limit may still happen

\* The rows of the files.
Deals == UNION {{f[i].deal : i \in DOMAIN f} : f \in Files}
FileRows == [time : Nat, symbol : Symbols, deal : Deals]
Ticks == [time : Nat, symbol : Symbols, deal : Deals, session : Nat]
Building == [minute : Nat, ticks : Seq(Ticks)]

ASSUME ReplayAssumption ==
    /\ None \notin Rows /\ NoCandle \notin Building
    /\ Files \subseteq Seq(FileRows)
    /\ MinuteLength \in Nat \ {0} /\ RecentMax \in Nat \ {0} /\ Session \subseteq Nat \ {0}
    /\ Bounds \subseteq [rows : SUBSET Rows, requests : SUBSET Requests, starts : Nat,
                         restarts : Nat, outages : Nat]

VARIABLES
    asks,       \* handlers of start and resume that passed the check
    engine,     \* is_running, is_paused, current_session_id, replay_task
    tasks,      \* the replay loop of each session
    starts,     \* and how often each of these may still happen
    restarts

replayVars == <<asks, engine, tasks>>
limitVars == <<starts, restarts>>
vars == <<controlVars, candleVars, replayVars, limitVars>>

NotRunning == [is_running |-> FALSE, is_paused |-> FALSE, session |-> 0, task |-> 0]

Init ==
    /\ ControlInit /\ CandlesInit
    /\ asks = [c \in Clients |-> None] /\ engine = NotRunning
    /\ tasks = <<>>
    /\ \E b \in Bounds :
          /\ row \in b.rows /\ unused = b.requests /\ starts = b.starts
          /\ restarts = b.restarts /\ outages = b.outages

\* A task that does not await has the process to itself.
Awaiting == {"started", "paused", "sleeping", "publishing", "published"}
Turns == {s \in DOMAIN tasks : tasks[s].pc = "next"}
Quiet == Turns = {}

-----------------------------------------------------------------------------
\* Requests.

check_safety_rules(c, kind, f) ==
    /\ asks[c] = None /\ get_mode = "paper"
    /\ asks' = [asks EXCEPT ![c] = [kind |-> kind, file |-> f]]
    /\ UNCHANGED <<engine, tasks>>

HasColumns(f) == f # <<>>
InSession(t) == t.time \in Session
Before(f, i, j) == f[i].time < f[j].time \/ (f[i].time = f[j].time /\ i < j)

\* The ticks of a session in order of time, rows of one time as in the file.
parse_csv(f) ==
    LET kept == {i \in DOMAIN f : InSession(f[i])}
        rank(i) == Cardinality({j \in kept : Before(f, j, i)}) + 1
    IN [k \in 1..Cardinality(kept) |-> f[CHOOSE i \in kept : rank(i) = k]]

Task(ticks, pc) == [ticks |-> ticks, at |-> 1, pc |-> pc, cancelled |-> FALSE, closing |-> NoCandle]
NextId == Len(tasks) + 1

\* start_replay; without the columns it fails with is_running already set.
start_replay(c) ==
    /\ asks[c] # None /\ asks[c].kind = "start" /\ ~engine.is_running
    /\ starts > 0 /\ starts' = starts - 1
    /\ asks' = [asks EXCEPT ![c] = None]
    /\ engine' = [is_running |-> TRUE, is_paused |-> FALSE, session |-> NextId,
                  task |-> IF HasColumns(asks[c].file) THEN NextId ELSE engine.task]
    /\ IF HasColumns(asks[c].file)
       THEN /\ tasks' = Append(tasks, Task(parse_csv(asks[c].file), "started"))
            /\ reset_session
       ELSE /\ tasks' = Append(tasks, Task(<<>>, "done"))
            /\ UNCHANGED aggregatorVars

resume_replay(c) ==
    /\ asks[c] # None /\ asks[c].kind = "resume" /\ engine.is_running
    /\ asks' = [asks EXCEPT ![c] = None]
    /\ engine' = [engine EXCEPT !.is_paused = FALSE]
    /\ UNCHANGED tasks

\* A second start, or a resume with nothing to resume.
RuntimeError(c) ==
    /\ asks[c] # None /\ (asks[c].kind = "start") = engine.is_running
    /\ asks' = [asks EXCEPT ![c] = None]
    /\ UNCHANGED <<engine, tasks>>

pause_replay ==
    /\ engine.is_running /\ engine' = [engine EXCEPT !.is_paused = TRUE]
    /\ UNCHANGED <<asks, tasks>>

\* Mutant of Stopped: the task is left alone, is_running will end it.
StoppedByFlag(e, l) == l

\* The tasks after stop_replay.
Stopped(e, l) ==
    [s \in DOMAIN l |-> IF s = e.task /\ l[s].pc # "done"
                        THEN [l[s] EXCEPT !.cancelled = TRUE] ELSE l[s]]

stop_replay ==
    /\ engine.is_running /\ engine' = [engine EXCEPT !.is_running = FALSE]
    /\ tasks' = Stopped(engine, tasks)
    /\ UNCHANGED asks

-----------------------------------------------------------------------------
\* _replay_loop

Goes(s, pc) == tasks' = [tasks EXCEPT ![s].pc = pc]
Advances(s) == tasks' = [tasks EXCEPT ![s].at = @ + 1, ![s].pc = "next"]
Runs(s, pc) == tasks[s].pc = pc /\ ~tasks[s].cancelled

Row(s) == tasks[s].ticks[tasks[s].at]
Tick(s) == [time |-> Row(s).time, symbol |-> Row(s).symbol, deal |-> Row(s).deal, session |-> s]
Gap(s) == tasks[s].at > 1 /\ tasks[s].ticks[tasks[s].at - 1].time < Row(s).time

Begins(s) == Runs(s, "started") /\ Goes(s, "next") /\ UNCHANGED <<engine, aggregatorVars>>

\* At the end, or when a stop is seen between two ticks.
Ends(s) ==
    /\ tasks[s].pc = "next" /\ (tasks[s].at > Len(tasks[s].ticks) \/ ~engine.is_running)
    /\ Goes(s, "done")
    /\ engine' = [engine EXCEPT !.is_running = FALSE]
    /\ UNCHANGED aggregatorVars

HasTick(s) ==
    tasks[s].pc = "next" /\ tasks[s].at <= Len(tasks[s].ticks) /\ engine.is_running

Waits(s) ==
    /\ HasTick(s) /\ engine.is_paused /\ Goes(s, "paused")
    /\ UNCHANGED <<engine, aggregatorVars>>

\* Past the pause; is_running is not looked at again.
Ready(s) == (HasTick(s) \/ Runs(s, "paused")) /\ ~engine.is_paused

Sleeps(s) == Ready(s) /\ Gap(s) /\ Goes(s, "sleeping") /\ UNCHANGED <<engine, aggregatorVars>>

\* process_tick up to its await, or to its end.
Injects(s) ==
    /\ (Ready(s) /\ ~Gap(s)) \/ Runs(s, "sleeping")
    /\ \/ Drop(Tick(s)) /\ Advances(s)
       \/ Take(Tick(s)) /\ AddTick(Tick(s)) /\ Advances(s)
       \/ /\ Take(Tick(s)) /\ Closes(Tick(s)) /\ UNCHANGED builders
          /\ tasks' = [tasks EXCEPT ![s].pc = "publishing",
                                    ![s].closing = to_dict(Tick(s), engine.session)]
    /\ UNCHANGED engine

Publishes(s) ==
    /\ tasks[s].pc = "publishing" /\ stream' = Append(stream, tasks[s].closing)
    /\ Goes(s, "published") /\ UNCHANGED <<engine, aggregatorVars, outages>>

\* Redis has the candle, its answer is lost, and the client sends the call again.
AnswerLost(s) ==
    /\ Runs(s, "publishing") /\ Fails /\ stream' = Append(stream, tasks[s].closing)
    /\ UNCHANGED <<tasks, engine, aggregatorVars>>

\* Only subscribers of a channel nobody listens to hear of the candle.
PublishFails(s) ==
    /\ Runs(s, "publishing") /\ Fails
    /\ Goes(s, "published") /\ UNCHANGED <<engine, aggregatorVars, stream>>

Continues(s) ==
    /\ Runs(s, "published") /\ NextMinute(Tick(s)) /\ Advances(s)
    /\ UNCHANGED engine

Cancelled(s) ==
    /\ tasks[s].cancelled /\ tasks[s].pc \in Awaiting /\ Goes(s, "done")
    /\ UNCHANGED <<engine, aggregatorVars>>

\* Steps that leave Redis alone.
Turn(s) ==
    /\ Begins(s) \/ Ends(s) \/ Waits(s) \/ Sleeps(s) \/ Injects(s) \/ Continues(s)
       \/ Cancelled(s)
    /\ UNCHANGED <<stream, outages>>

Loop(s) ==
    /\ Quiet \/ s \in Turns
    /\ Turn(s) \/ Publishes(s) \/ AnswerLost(s) \/ PublishFails(s)
    /\ UNCHANGED <<asks, persisterVars>>

-----------------------------------------------------------------------------
Restart ==
    /\ Quiet /\ restarts > 0 /\ restarts' = restarts - 1
    /\ ControlRestart /\ CandlesRestart
    /\ asks' = [c \in Clients |-> None] /\ engine' = NotRunning
    /\ tasks' = [s \in DOMAIN tasks |-> [tasks[s] EXCEPT !.pc = "done"]]
    /\ UNCHANGED starts

Replay(c) ==
    /\ Quiet
    /\ \/ start_replay(c)
       \/ /\ \/ \E f \in Files : check_safety_rules(c, "start", f)
             \/ check_safety_rules(c, "resume", <<>>)
             \/ resume_replay(c)
             \/ RuntimeError(c)
          /\ UNCHANGED <<aggregatorVars, starts>>
    /\ UNCHANGED <<controlVars, stream, persisterVars, outages, restarts>>

Control ==
    /\ Quiet /\ ControlNext
    /\ UNCHANGED <<candleVars, replayVars, limitVars>>

Next ==
    \/ \E c \in Clients : Replay(c)
    \/ /\ Quiet /\ (pause_replay \/ stop_replay)
       /\ UNCHANGED <<controlVars, candleVars, limitVars>>
    \/ Control
    \/ Restart
    \/ Quiet /\ PersisterNext /\ UNCHANGED <<controlVars, replayVars, limitVars>>
    \/ \E s \in DOMAIN tasks : Loop(s) /\ UNCHANGED <<controlVars, limitVars>>

Spec == Init /\ [][Next]_vars

-----------------------------------------------------------------------------
Sent(c) ==
    {t \in {tasks[c.session].ticks[i] : i \in DOMAIN tasks[c.session].ticks} :
        t.symbol = c.symbol /\ minute(t) = c.minute}
Held(c) == {[time |-> t.time, symbol |-> t.symbol, deal |-> t.deal] :
              t \in {c.ticks[k] : k \in DOMAIN c.ticks}}

\* Equal ticks have more than RecentMax of their symbol from one to the next.
Apart(l) ==
    \A k, m \in DOMAIN l : k < m /\ Signature(l[k]) = Signature(l[m]) => m - k > RecentMax

(* A candle of a replay is made of the ticks of its own session and minute *)
(* and none is missing, whatever session was stopped before and wherever   *)
(* its task was waiting then; a tick is in it twice only if the file       *)
(* repeats it after more of the same second than are remembered, and if it *)
(* is in the stream twice both entries are the same (process_tick,         *)
(* stop_replay).                                                           *)
WholeCandles ==
    \A i \in DOMAIN stream :
        LET c == stream[i]
        IN /\ \A k \in DOMAIN c.ticks : c.ticks[k].session = c.session
           /\ Held(c) = Sent(c) /\ Apart(c.ticks)
           /\ \A j \in DOMAIN stream :
                <<c.session, c.symbol, c.minute>>
                  = <<stream[j].session, stream[j].symbol, stream[j].minute>> => c = stream[j]

(* An emergency halt is not undone by a request that read the rows before  *)
(* it: trading is enabled again only by one that found it disabled and     *)
(* asks for it, and the halt of the day ends by a /resume that saw it, or  *)
(* with the day (emergency_halt, resume_after_halt, reset_daily_risk_state).*)
HaltHolds ==
    [][/\ ~row.enabled /\ row'.enabled =>
            \E q \in Requests : Commit(q) /\ ~calls[q].read.enabled /\ calls[q].want.enabled
       /\ row.is_halted /\ ~row'.is_halted =>
            \/ NewDay
            \/ \E q \in Requests : /\ Commit(q) /\ calls[q].read.is_halted
                                    /\ calls[q].want = resume_after_halt]_vars

(* A candle whose entry is acknowledged is in the batch or has a row of its *)
(* minute, however often the write fails (CandlePersister).                *)
AckedIsKept ==
    \A i \in acked :
        \/ \E k \in DOMAIN reader.batch : reader.batch[k] = i
        \/ \E k \in DOMAIN reader.flushing : reader.flushing[k] = i
        \/ HasRow(i)
=============================================================================
