------------------------------ MODULE RiskGate ------------------------------
(***************************************************************************)
(* The risk gate: replicas of RiskEngineWorker evaluate approved signals   *)
(* one at a time under the Redis lock risk_eval:portfolio, count open      *)
(* positions and risk reservations, reserve, publish to signals:risk_passed*)
(* and update the row of DailyRiskState.  The autotrader workers that turn *)
(* the published signals into positions are here as far as the gate counts *)
(* on them; SignalDelivery and PaperLedger have them in full.              *)
(*                                                                         *)
(* No signal carries a trace_id, so a reservation is kept under a fresh    *)
(* key that nobody can name: it ends with its TTL and in no other way.     *)
(* Nothing bounds an evaluation: the lock may end under it, and it goes on.*)
(* What the code swallows (no portfolio, part of the reservations, none    *)
(* written, a lock not deleted) is a choice of the action.                 *)
(* Handlers of consume_stream run one message to its end, and             *)
(* _process_signal swallows its errors: a signal is evaluated once.        *)
(***************************************************************************)
EXTENDS Integers, FiniteSets

CONSTANTS
    Replicas,       \* processes of risk-engine-worker
    Msgs,           \* signals that may be approved upstream (a bound)
    Stocks,
    Stock,          \* Stock[m]: symbol_id of signal m
    CandleTime,     \* CandleTime[m]
    Scanner,        \* signals with is_scanner
    Replay,         \* signals with is_replay
    MaxPositions,   \* RiskConfig.max_concurrent_positions
    MaxPerStock,    \* RiskConfig.max_signals_per_stock
    Cooldown,       \* RiskConfig.cooldown_minutes
    GateStaleAge,   \* 300 s, in _process_signal
    StaleAge,       \* 60 s, in the autotrader worker
    ReserveTTL,     \* 120 s
    LockTTL,        \* 5 s
    MaxTime,        \* end of the clock (a bound)
    None

ASSUME GateAssumption ==
    /\ IsFiniteSet(Msgs)
    /\ Stock \in [Msgs -> Stocks]
    /\ CandleTime \in [Msgs -> Nat]
    /\ Scanner \subseteq Msgs /\ Replay \subseteq Msgs
    /\ MaxPositions \in Nat \ {0} /\ MaxPerStock \in Nat \ {0}
    /\ {Cooldown, GateStaleAge, StaleAge, ReserveTTL, LockTTL, MaxTime} \subseteq Nat
    /\ StaleAge + LockTTL < ReserveTTL
    /\ None \notin Replicas /\ None \notin Msgs

VARIABLES
    now,
    unread,         \* signals:approved entries no replica has read
    pc,             \* where each replica is
    work,           \* the signal it evaluates
    since,          \* when it began to wait for the lock, then when it set it
    lock, lockUntil,\* lock:risk_eval:portfolio: who set it, when it expires
    seen,           \* open positions _load_portfolio found
    held,           \* reservations get_total_reserved_risk found
    clear,          \* both were read to their end
    base,           \* the DailyRiskState row as the session read it
    counts,         \* MaxSignalsPerStockPerDay._counts of each process
    row,            \* DailyRiskState: approved, last (signal time), perStock
    reservedUntil,  \* when the reservation of a signal expires, 0: none
    order,          \* what became of a signal behind the gate
    takenAt,        \* when the autotrader that executes it checked its age
    overdue,        \* opened when the reservation was no longer sure to outlive
                    \* a lock
    slow,           \* opened long after the age check
    committed,      \* approvals that were counted in the row
    late,           \* those of them committed after the lock had ended
    unsure          \* signals let through after the lock had ended, or on
                    \* less than there was to see

gateVars == <<unread, pc, work, since, seen, held, clear, base, counts>>
lockVars == <<lock, lockUntil>>
orderVars == <<order, takenAt, overdue, slow>>
passVars == <<reservedUntil, unsure>>
countVars == <<row, committed, late>>
vars == <<now, gateVars, lockVars, passVars, orderVars, countVars>>

Row == [approved : Nat, last : Int, perStock : [Stocks -> Nat]]

\* _write_back: the count of a stock goes into the JSON column.
WriteBack(b, s, n) ==
    [approved |-> b.approved, last |-> b.last, perStock |-> [b.perStock EXCEPT ![s] = n]]

FreshRow == [approved |-> 0, last |-> -Cooldown, perStock |-> [s \in Stocks |-> 0]]

Init ==
    /\ now = 0
    /\ unread = Msgs
    /\ pc = [r \in Replicas |-> "idle"]
    /\ work = [r \in Replicas |-> None]
    /\ since = [r \in Replicas |-> 0]
    /\ lock = None /\ lockUntil = 0
    /\ seen = [r \in Replicas |-> {}]
    /\ held = [r \in Replicas |-> {}]
    /\ clear = [r \in Replicas |-> FALSE]
    /\ base = [r \in Replicas |-> FreshRow]
    /\ counts = [r \in Replicas |-> [s \in Stocks |-> 0]]
    /\ row = FreshRow
    /\ reservedUntil = [m \in Msgs |-> 0]
    /\ order = [m \in Msgs |-> "none"]
    /\ takenAt = [m \in Msgs |-> 0]
    /\ overdue = {} /\ slow = {} /\ unsure = {}
    /\ committed = {} /\ late = {}

Open == {m \in Msgs : order[m] = "open"}
Reservations == {m \in Msgs : now < reservedUntil[m]}

\* The autotrader does not look at their age.
Timeless == Scanner \cup Replay

Goto(r, label) == pc' = [pc EXCEPT ![r] = label]

Evaluating(r) == pc[r] \in {"locked", "loaded", "scanned", "passed", "rejected",
                            "reserved", "published"}

\* The key r set when it began has not expired.
InTime(r) == now < since[r] + LockTTL

-----------------------------------------------------------------------------
(* redis_lock.                                                             *)

LockFree == lock = None \/ lockUntil <= now

\* Mutant of SetLock: SET EX without NX.
SetLockAlways(r) == lock' = r /\ lockUntil' = now + LockTTL

\* SET NX EX: the key is set if it is free.
SetLock(r) ==
    /\ LockFree
    /\ lock' = r
    /\ lockUntil' = now + LockTTL

\* The Lua script deletes the key only if it still has the nonce of r; the
\* call may fail.
Unlock(r) ==
    /\ UNCHANGED lockUntil
    /\ \/ lock' = IF lock = r THEN None ELSE lock
       \/ UNCHANGED lock

\* Mutant of Leave: the signal is kept in hand.
LeaveHolding(r) ==
    /\ Goto(r, "idle")
    /\ seen' = [seen EXCEPT ![r] = {}]
    /\ held' = [held EXCEPT ![r] = {}]
    /\ clear' = [clear EXCEPT ![r] = FALSE]
    /\ since' = [since EXCEPT ![r] = 0]
    /\ base' = [base EXCEPT ![r] = FreshRow]
    /\ UNCHANGED work

\* Leaving the context manager: a waiter holds nothing and deletes nothing.
Leave(r) ==
    /\ Goto(r, "idle")
    /\ work' = [work EXCEPT ![r] = None]
    /\ seen' = [seen EXCEPT ![r] = {}]
    /\ held' = [held EXCEPT ![r] = {}]
    /\ clear' = [clear EXCEPT ![r] = FALSE]
    /\ since' = [since EXCEPT ![r] = 0]
    /\ base' = [base EXCEPT ![r] = FreshRow]

-----------------------------------------------------------------------------
(* RiskEngineWorker._process_signal.                                       *)

\* A signal older than GateStaleAge is dropped, any other waits for the lock.
Receive(r, m) ==
    /\ pc[r] = "idle"
    /\ m \in unread /\ now >= CandleTime[m]
    /\ unread' = unread \ {m}
    /\ IF m \notin Replay /\ now > CandleTime[m] + GateStaleAge
         THEN UNCHANGED <<pc, work, since>>
         ELSE /\ Goto(r, "waiting")
              /\ work' = [work EXCEPT ![r] = m]
              /\ since' = [since EXCEPT ![r] = now]
    /\ UNCHANGED <<now, lockVars, seen, held, clear, base, counts, passVars, orderVars,
                   countVars>>

Acquire(r) ==
    /\ pc[r] = "waiting"
    /\ SetLock(r)
    /\ since' = [since EXCEPT ![r] = now]
    /\ Goto(r, "locked")
    /\ UNCHANGED <<now, unread, work, seen, held, clear, base, counts, passVars,
                   orderVars, countVars>>

\* The answer of SET is lost and the client asks again: the key is taken, by
\* nobody that knows.
LoseGrant(r) ==
    /\ pc[r] = "waiting"
    /\ SetLock(r)
    /\ UNCHANGED <<now, gateVars, passVars, orderVars, countVars>>

\* TimeoutError: the signal is dropped with a warning.
GiveUp(r) ==
    /\ pc[r] = "waiting"
    /\ now > since[r] + LockTTL /\ ~LockFree
    /\ Leave(r)
    /\ UNCHANGED <<now, unread, lockVars, counts, passVars, orderVars, countVars>>

\* On an error the portfolio is an empty one.
LoadPortfolio(r) ==
    /\ pc[r] = "locked"
    /\ \E found \in {Open, {}} :
         /\ seen' = [seen EXCEPT ![r] = found]
         /\ clear' = [clear EXCEPT ![r] = (found = Open)]
    /\ Goto(r, "loaded")
    /\ UNCHANGED <<now, unread, work, since, lockVars, held, base, counts, passVars,
                   orderVars, countVars>>

\* Mutant of ScanReservations: reservations are not added to the portfolio.
ScanNothing(r) ==
    /\ pc[r] = "loaded"
    /\ base' = [base EXCEPT ![r] = row]
    /\ Goto(r, "scanned")
    /\ UNCHANGED <<now, unread, work, since, lockVars, seen, held, clear, counts,
                   passVars, orderVars, countVars>>

\* get_total_reserved_risk, which returns what it had when a call failed, then
\* _load_daily_state.
ScanReservations(r) ==
    /\ pc[r] = "loaded"
    /\ \E found \in SUBSET Reservations :
         /\ held' = [held EXCEPT ![r] = found]
         /\ clear' = [clear EXCEPT ![r] = @ /\ found = Reservations]
    /\ base' = [base EXCEPT ![r] = row]
    /\ Goto(r, "scanned")
    /\ UNCHANGED <<now, unread, work, since, lockVars, seen, counts, passVars, orderVars,
                   countVars>>

\* CooldownFilter and MaxConcurrentPositions, rules 3 and 7 of the chain.
CooledDown(r) == work[r] \in Scanner \/ now >= base[r].last + Cooldown
RoomLeft(r) == Cardinality(seen[r]) + Cardinality(held[r]) < MaxPositions
StockLeft(r) == counts[r][Stock[work[r]]] < MaxPerStock

\* A rule before the per-stock one blocks or skips the signal: one of these
\* two, or a rule about prices, market or account that may always fail.
RejectEarly(r) ==
    /\ pc[r] = "scanned"
    /\ Goto(r, "rejected")
    /\ UNCHANGED <<now, unread, work, since, lockVars, seen, held, clear, base, counts,
                   passVars, orderVars, countVars>>

\* MaxSignalsPerStockPerDay counts, in memory and in the row the session
\* holds; the sector rule behind it may still skip what was counted.
CountStock(r) ==
    /\ pc[r] = "scanned"
    /\ CooledDown(r) /\ RoomLeft(r) /\ StockLeft(r)
    /\ LET s == Stock[work[r]]
       IN  /\ counts' = [counts EXCEPT ![r][s] = @ + 1]
           /\ base' = [base EXCEPT ![r] = WriteBack(@, s, counts[r][s] + 1)]
    /\ \/ Goto(r, "passed")
       \/ Goto(r, "rejected")
    /\ UNCHANGED <<now, unread, work, since, lockVars, seen, held, clear, passVars,
                   orderVars, countVars>>

\* signals_blocked or signals_skipped goes up; the row is committed.
CommitRejection(r) ==
    /\ pc[r] = "rejected"
    /\ row' = [approved |-> row.approved, last |-> row.last,
               perStock |-> base[r].perStock]
    /\ Leave(r)
    /\ Unlock(r)
    /\ UNCHANGED <<now, unread, counts, passVars, orderVars, committed, late>>

\* Sure of what it let through.
Sure(r) == clear[r] /\ InTime(r)

\* Mutant of Reserve: the reservation lives only as long as the lock.
ReserveBriefly(r) ==
    /\ pc[r] = "passed"
    /\ reservedUntil' = [reservedUntil EXCEPT ![work[r]] = now + LockTTL]
    /\ unsure' = IF Sure(r) THEN unsure ELSE unsure \cup {work[r]}
    /\ Goto(r, "reserved")
    /\ UNCHANGED <<now, unread, work, since, lockVars, seen, held, clear, base, counts,
                   orderVars, countVars>>

\* reserve_risk; SETEX may fail, and nobody looks at the result.
Reserve(r) ==
    /\ pc[r] = "passed"
    /\ \/ reservedUntil' = [reservedUntil EXCEPT ![work[r]] = now + ReserveTTL]
       \/ UNCHANGED reservedUntil
    /\ unsure' = IF Sure(r) THEN unsure ELSE unsure \cup {work[r]}
    /\ Goto(r, "reserved")
    /\ UNCHANGED <<now, unread, work, since, lockVars, seen, held, clear, base, counts,
                   orderVars, countVars>>

\* Mutant of Publish: the context manager ends before the row is written.
PublishAndUnlock(r) ==
    /\ pc[r] = "reserved"
    /\ order' = [order EXCEPT ![work[r]] = "queued"]
    /\ Unlock(r)
    /\ Goto(r, "published")
    /\ UNCHANGED <<now, unread, work, since, seen, held, clear, base, counts, passVars,
                   takenAt, overdue, slow, countVars>>

\* publish_to_stream; it swallows its errors, so the XADD may not happen.  The
\* idempotency key of the autotrader refuses one the client repeats.
Publish(r) ==
    /\ pc[r] = "reserved"
    /\ \/ order' = [order EXCEPT ![work[r]] = "queued"]
       \/ UNCHANGED order
    /\ Goto(r, "published")
    /\ UNCHANGED <<now, unread, work, since, lockVars, seen, held, clear, base, counts,
                   passVars, takenAt, overdue, slow, countVars>>

\* The counters of the row, as read and counted on.
CommitApproval(r) ==
    /\ pc[r] = "published"
    /\ row' = [approved |-> base[r].approved + 1, last |-> now,
               perStock |-> base[r].perStock]
    /\ committed' = committed \cup {work[r]}
    /\ late' = IF InTime(r) THEN late ELSE late \cup {work[r]}
    /\ Leave(r)
    /\ Unlock(r)
    /\ UNCHANGED <<now, unread, counts, passVars, orderVars>>

\* A database or Redis error nobody swallowed before: logged, a lock held is
\* released, the signal gone.
Fail(r) ==
    /\ pc[r] # "idle"
    /\ Leave(r)
    /\ IF Evaluating(r) THEN Unlock(r) ELSE UNCHANGED lockVars
    /\ UNCHANGED <<now, unread, counts, passVars, orderVars, countVars>>

\* The process dies and is restarted: the counts in memory are gone, the
\* lock stays until it expires.
Crash(r) ==
    /\ Leave(r)
    /\ counts' = [counts EXCEPT ![r] = [s \in Stocks |-> 0]]
    /\ UNCHANGED <<now, unread, lockVars, passVars, orderVars, countVars>>

-----------------------------------------------------------------------------
(* Behind the gate: the autotrader workers.                                *)

\* The age check of _handle_signal.
TakeOrder(m) ==
    /\ order[m] = "queued"
    /\ IF m \notin Timeless /\ now > CandleTime[m] + StaleAge
         THEN order' = [order EXCEPT ![m] = "dropped"] /\ UNCHANGED takenAt
         ELSE /\ order' = [order EXCEPT ![m] = "executing"]
              /\ takenAt' = [takenAt EXCEPT ![m] = now]
    /\ UNCHANGED <<now, gateVars, lockVars, passVars, overdue, slow, countVars>>

\* What the TTL of a reservation leaves for an execution after the age check.
Slack == ReserveTTL - StaleAge - LockTTL

\* The position is committed.
OpenPosition(m) ==
    /\ order[m] = "executing"
    /\ order' = [order EXCEPT ![m] = "open"]
    /\ takenAt' = [takenAt EXCEPT ![m] = 0]
    /\ overdue' = IF now + LockTTL >= reservedUntil[m] THEN overdue \cup {m} ELSE overdue
    /\ slow' = IF now >= takenAt[m] + Slack THEN slow \cup {m} ELSE slow
    /\ UNCHANGED <<now, gateVars, lockVars, passVars, countVars>>

\* The autotrader refuses or loses the signal; a position is closed.
DropOrder(m) ==
    /\ order[m] = "executing"
    /\ order' = [order EXCEPT ![m] = "dropped"]
    /\ takenAt' = [takenAt EXCEPT ![m] = 0]
    /\ UNCHANGED <<now, gateVars, lockVars, passVars, overdue, slow, countVars>>

ClosePosition(m) ==
    /\ order[m] = "open"
    /\ order' = [order EXCEPT ![m] = "closed"]
    /\ UNCHANGED <<now, gateVars, lockVars, passVars, takenAt, overdue, slow, countVars>>

\* Time passes, for an evaluation or an execution under way as well.
Tick ==
    /\ now < MaxTime
    /\ now' = now + 1
    /\ UNCHANGED <<gateVars, lockVars, passVars, orderVars, countVars>>

-----------------------------------------------------------------------------
Evaluate(r) ==
    \/ \E m \in Msgs : Receive(r, m)
    \/ Acquire(r) \/ LoseGrant(r) \/ GiveUp(r)
    \/ LoadPortfolio(r) \/ ScanReservations(r) \/ RejectEarly(r) \/ CountStock(r)
    \/ CommitRejection(r)
    \/ Reserve(r) \/ Publish(r) \/ CommitApproval(r)
    \/ Fail(r) \/ Crash(r)

Trade(m) == TakeOrder(m) \/ OpenPosition(m) \/ DropOrder(m) \/ ClosePosition(m)

Next ==
    \/ \E r \in Replicas : Evaluate(r)
    \/ \E m \in Msgs : Trade(m)
    \/ Tick

Spec == Init /\ [][Next]_vars

-----------------------------------------------------------------------------
TypeOK ==
    /\ now \in Nat /\ lockUntil \in Nat
    /\ unread \subseteq Msgs /\ committed \subseteq Msgs /\ late \subseteq Msgs
    /\ unsure \subseteq Msgs
    /\ pc \in [Replicas -> {"idle", "waiting", "locked", "loaded", "scanned", "passed",
                            "rejected", "reserved", "published"}]
    /\ work \in [Replicas -> Msgs \cup {None}]
    /\ since \in [Replicas -> Nat]
    /\ lock \in Replicas \cup {None}
    /\ seen \in [Replicas -> SUBSET Msgs] /\ held \in [Replicas -> SUBSET Msgs]
    /\ clear \in [Replicas -> BOOLEAN]
    /\ base \in [Replicas -> Row] /\ row \in Row
    /\ counts \in [Replicas -> [Stocks -> Nat]]
    /\ reservedUntil \in [Msgs -> Nat]
    /\ takenAt \in [Msgs -> Nat] /\ overdue \subseteq Msgs /\ slow \subseteq Msgs
    /\ order \in [Msgs -> {"none", "queued", "executing", "open", "closed", "dropped"}]
    /\ \A r \in Replicas : work[r] = None <=> pc[r] = "idle"

(* Of two replicas that evaluate at once one has outlived the lock it set: *)
(* the other waited for its end, and the first does not take the lock from *)
(* it when it leaves ("only one worker assesses portfolio risk at a time"). *)
OneEvaluation ==
    \A q, r \in Replicas :
        Evaluating(q) /\ Evaluating(r) /\ q # r => ~InTime(q) \/ ~InTime(r)

(* Positions that were let through in time, on all there was to see, and   *)
(* opened while their reservation stood never exceed                       *)
(* max_concurrent_positions, whatever became of the others: a limit that   *)
(* is passed is passed by signals evaluated too slowly or half blind, or   *)
(* executed without their reservation ("prevent concurrent signals from    *)
(* exceeding overall risk limits").                                        *)
PositionLimit == Cardinality(Open \ (unsure \cup overdue)) <= MaxPositions

(* A candle signal is opened that late only if its execution took all that *)
(* time, or its reservation was never written: at StaleAge the autotrader  *)
(* refuses it, and a reservation outlives that.  Scanner and replay signals *)
(* have no age (_handle_signal, reserve_risk).                             *)
OverdueExplained ==
    \A m \in overdue : m \in Timeless \cup slow \/ reservedUntil[m] = 0

(* signals_approved counts no approval twice, and all of them while none   *)
(* was committed after its lock had ended: the read and the write of the   *)
(* row are under one lock (_process_signal).                               *)
ApprovalsCounted ==
    /\ row.approved <= Cardinality(committed)
    /\ late = {} => row.approved = Cardinality(committed)

(* The inductive strengthening behind the theorems of RiskGateProofs.      *)
\* Until it expires the key is that of the evaluation which set it.
LockHeld ==
    \A r \in Replicas : Evaluating(r) =>
        /\ since[r] <= now
        /\ InTime(r) => lock = r /\ lockUntil = since[r] + LockTTL

\* A signal is read once, by one replica, published and counted after that.
ReadOnce ==
    /\ \A r \in Replicas : work[r] # None =>
         /\ work[r] \notin unread \cup committed
         /\ pc[r] # "published" => order[work[r]] = "none"
         /\ now >= CandleTime[work[r]]
         /\ \A q \in Replicas : work[q] = work[r] => q = r
    /\ unread \cap committed = {}
    /\ \A m \in Msgs : m \in unread => order[m] = "none"
    /\ \A m \in overdue : order[m] # "none"

\* A reservation, where there is one, was made after the candle; an execution
\* began before the signal was stale.
Backed ==
    /\ \A m \in Msgs : reservedUntil[m] # 0 => reservedUntil[m] >= CandleTime[m] + ReserveTTL
    /\ \A m \in Msgs \ Timeless : order[m] = "executing" =>
         takenAt[m] <= CandleTime[m] + StaleAge

\* Signals that may still become positions in good time, and positions.
Timely(m) == now + LockTTL < reservedUntil[m]
Coming(m) == \/ order[m] \in {"queued", "executing"}
             \/ \E r \in Replicas : pc[r] = "reserved" /\ work[r] = m
Claims == (Open \cup {m \in Msgs : Coming(m) /\ Timely(m)}) \ (unsure \cup overdue)

\* What a replica that is still sure has seen and found reserved contains
\* every claim.
Sight(r) ==
    /\ Sure(r) =>
         /\ pc[r] = "loaded" =>
              \A m \in Claims : m \in seen[r] \/ since[r] + LockTTL < reservedUntil[m]
         /\ pc[r] \in {"scanned", "passed"} => Claims \subseteq seen[r] \cup held[r]
    /\ pc[r] = "passed" => Cardinality(seen[r]) + Cardinality(held[r]) < MaxPositions

\* The claims stay within the limit.
Budget == Cardinality(Claims) <= MaxPositions /\ \A r \in Replicas : Sight(r)

\* The row an evaluation works on is the one in the database.
CountedRight ==
    /\ ApprovalsCounted
    /\ \A r \in Replicas :
         pc[r] \in {"scanned", "passed", "rejected", "reserved", "published"} =>
           /\ base[r].approved <= Cardinality(committed)
           /\ late = {} /\ InTime(r) => base[r].approved = row.approved

GateInv ==
    /\ TypeOK /\ LockHeld /\ ReadOnce /\ Backed /\ OverdueExplained /\ Budget /\ CountedRight
=============================================================================
