----------------------------- MODULE PaperLedger -----------------------------
(***************************************************************************)
(* The paper account as the database sees it: one RiskConfig row with the  *)
(* virtual balance, the rows of paper_trades, and the sessions that read   *)
(* them into memory, await prices or other queries, and write back what    *)
(* they computed.  Sessions run under READ COMMITTED; an UPDATE writes the *)
(* absolute value held in memory.  Only the autotrader worker locks the    *)
(* RiskConfig row (SELECT ... FOR UPDATE).                                 *)
(*                                                                         *)
(* A flush sends an UPDATE only for columns whose value changed: a closed  *)
(* position with no profit leaves realized_pnl out of the statement.       *)
(***************************************************************************)
EXTENDS PaperAccount

CONSTANTS
    Instrument,         \* Instrument[t]: symbol and direction of row t
    MaxOpenPositions,   \* AutoTradeConfig.max_open_positions
    Workers,            \* autotrader-worker replicas
    Manuals,            \* requests to POST /paper/execute
    Closers,            \* requests to POST /paper/close/{id}
    Monitors,           \* check_paper_trades jobs, one per API replica
    TradeMonitors,      \* trade-monitor-worker replicas
    KillSwitches,       \* requests to POST /auto-trader/close-all
    Resets,             \* requests to DELETE /paper/data
    NoSession,          \* "nobody holds the row lock"
    NoMark, Trailed     \* marks of a session on a row, see marks

Openers == Workers \cup Manuals
ClosingSessions == Closers \cup Monitors \cup TradeMonitors \cup KillSwitches
                      \cup Resets
Sessions == Openers \cup ClosingSessions

ASSUME LedgerAssumption ==
    /\ MaxOpenPositions \in Nat \ {0}
    /\ NoSession \notin Sessions
    /\ Openers \cap ClosingSessions = {}
    /\ NoMark # Trailed
    /\ \A p \in Pnls : p # NoMark /\ p # Trailed

VARIABLES
    rowLock,    \* session holding the RiskConfig row, or NoSession
    squareOff,  \* trades whose square_off_lock key exists in Redis
    pc,         \* where each session is
    rows,       \* rows of paper_trades the session works on
    mem,        \* config.paper_balance as the session holds it in memory
    marks,      \* what the session will write to each row at commit: a
                \* p in Pnls (close, realising p), Trailed (new stop) or NoMark
    loss,       \* what mem lost to positions beyond their margin
    excess      \* all that was committed of it

local == <<pc, rows, mem, marks, loss>>
books == <<account, excess>>
vars == <<books, rowLock, squareOff, local>>

NoMarks == [t \in Trades |-> NoMark]
Closing(s) == {t \in Trades : marks[s][t] \in Pnls}
Touched(s) == {t \in Trades : marks[s][t] # NoMark}

\* What a position that realises p loses beyond its margin.
Beyond(t, p) == IF Margin[t] + p < 0 THEN -(Margin[t] + p) ELSE 0

LedgerInit ==
    /\ Init
    /\ rowLock = NoSession
    /\ squareOff = {}
    /\ pc = [s \in Sessions |-> "idle"]
    /\ rows = [s \in Sessions |-> {}]
    /\ mem = [s \in Sessions |-> 0]
    /\ marks = [s \in Sessions |-> NoMarks]
    /\ loss = [s \in Sessions |-> 0]
    /\ excess = 0

-----------------------------------------------------------------------------
(* Steps every session is built from.                                      *)

Goto(s, label) == pc' = [pc EXCEPT ![s] = label]

\* A row that no session has in hand for an insert (each t is one insert).
Unclaimed(t) ==
    /\ status[t] = "NEW"
    /\ \A s \in Openers : t \notin rows[s]

\* Mutant of Finish: a session ends without releasing its row lock.
FinishKeepsLock(s) ==
    /\ Goto(s, "idle")
    /\ rows' = [rows EXCEPT ![s] = {}]
    /\ mem' = [mem EXCEPT ![s] = 0]
    /\ marks' = [marks EXCEPT ![s] = NoMarks]
    /\ loss' = [loss EXCEPT ![s] = 0]
    /\ UNCHANGED rowLock

\* The session ends: its memory goes away, a lock it holds is released.
Finish(s) ==
    /\ Goto(s, "idle")
    /\ rows' = [rows EXCEPT ![s] = {}]
    /\ mem' = [mem EXCEPT ![s] = 0]
    /\ marks' = [marks EXCEPT ![s] = NoMarks]
    /\ loss' = [loss EXCEPT ![s] = 0]
    /\ rowLock' = IF rowLock = s THEN NoSession ELSE rowLock

\* Mutant of MayWriteBalance: an UPDATE that does not wait for the row lock.
WriteBalanceUnlocked(s) == TRUE

\* An UPDATE of RiskConfig waits for the holder of the row lock.
MayWriteBalance(s) == rowLock \in {NoSession, s}

\* Rows a session has deleted or updated without having committed: a trade
\* monitor flushes each exit when it queries DailyRiskState right after it, a
\* close when it queries RiskConfig.
HeldRows(s) ==
    IF s \in TradeMonitors \/ (s \in Closers /\ pc[s] = "priced") THEN Closing(s)
    ELSE IF s \in Resets THEN rows[s] ELSE {}

\* An UPDATE or DELETE of these rows waits for the sessions that hold them.
MayWriteRows(s, ts) ==
    \A r \in (Resets \cup TradeMonitors \cup Closers) \ {s} : HeldRows(r) \cap ts = {}

\* The UPDATE of a deleted row matches nothing: StaleDataError, rollback.
StaleRows(s) == \E t \in Touched(s) : status[t] = "DELETED"

\* Mutant of CloseMarked: every column of a touched row is written back, a
\* trailed row with the status that was read.
CloseWholeRows(s) ==
    status' = [t \in Trades |-> IF t \in Closing(s) THEN "CLOSED"
                                ELSE IF t \in Touched(s) THEN "OPEN" ELSE status[t]]

CloseMarked(s) ==
    status' = [t \in Trades |-> IF t \in Closing(s) THEN "CLOSED" ELSE status[t]]

\* Mutant of BookMarked: a trailed row is booked as if it had been closed.
BookTouched(s) ==
    pnl' = [t \in Trades |-> IF t \in Touched(s) THEN marks[s][t] ELSE pnl[t]]

BookMarked(s) ==
    pnl' = [t \in Trades |->
              IF t \in Closing(s) /\ marks[s][t] # 0 THEN marks[s][t] ELSE pnl[t]]

\* db.commit() of a session that returns margin: balance, rows, or nothing.
CommitReturns(s) ==
    /\ MayWriteRows(s, Touched(s))
    /\ IF StaleRows(s)
         THEN UNCHANGED books
         ELSE /\ IF Closing(s) = {}
                   THEN UNCHANGED <<balance, excess>>
                   ELSE /\ MayWriteBalance(s)
                        /\ balance' = mem[s]
                        /\ excess' = excess + loss[s]
              /\ CloseMarked(s)
              /\ BookMarked(s)
    /\ Finish(s)
    /\ UNCHANGED squareOff

\* A crash, a dropped connection or an exception: rollback.
Abort(s) ==
    /\ pc[s] # "idle"
    /\ Finish(s)
    /\ UNCHANGED <<books, squareOff>>

-----------------------------------------------------------------------------
(* autotrader-worker: _handle_signal and _execute_paper_trade.             *)

\* Mutant of WorkerCount: the limit compared with <=.
WorkerCountOffByOne(s, t) ==
    /\ pc[s] = "idle"
    /\ Unclaimed(t)
    /\ Cardinality(WithStatus("OPEN")) <= MaxOpenPositions
    /\ rows' = [rows EXCEPT ![s] = {t}]
    /\ Goto(s, "counted")
    /\ UNCHANGED <<books, rowLock, squareOff, mem, loss, marks>>

WorkerCount(s, t) ==
    /\ pc[s] = "idle"
    /\ Unclaimed(t)
    /\ Cardinality(WithStatus("OPEN")) < MaxOpenPositions
    /\ rows' = [rows EXCEPT ![s] = {t}]
    /\ Goto(s, "counted")
    /\ UNCHANGED <<books, rowLock, squareOff, mem, loss, marks>>

\* Mutant of WorkerCheckDuplicate: only the same row counts as a duplicate.
WorkerSkipDuplicateCheck(s) ==
    /\ pc[s] = "counted"
    /\ IF \E t \in rows[s] : t \in WithStatus("OPEN")
         THEN Finish(s)
         ELSE Goto(s, "checked") /\ UNCHANGED <<rows, mem, loss, marks, rowLock>>
    /\ UNCHANGED <<books, squareOff>>

WorkerCheckDuplicate(s) ==
    /\ pc[s] = "counted"
    /\ IF \E t \in rows[s], u \in WithStatus("OPEN") : Instrument[t] = Instrument[u]
         THEN Finish(s)
         ELSE Goto(s, "checked") /\ UNCHANGED <<rows, mem, loss, marks, rowLock>>
    /\ UNCHANGED <<books, squareOff>>

\* Mutant of WorkerLock: a plain SELECT, without FOR UPDATE.
WorkerReadUnlocked(s) ==
    /\ pc[s] = "checked"
    /\ mem' = [mem EXCEPT ![s] = balance]
    /\ Goto(s, "locked")
    /\ UNCHANGED <<books, squareOff, rows, marks, loss, rowLock>>

\* SELECT ... FOR UPDATE: waits for the row, then reads the latest balance.
WorkerLock(s) ==
    /\ pc[s] = "checked"
    /\ rowLock = NoSession
    /\ rowLock' = s
    /\ mem' = [mem EXCEPT ![s] = balance]
    /\ Goto(s, "locked")
    /\ UNCHANGED <<books, squareOff, rows, marks, loss>>

WorkerReject(s) ==
    /\ pc[s] = "locked"
    /\ \E t \in rows[s] : mem[s] < Margin[t]
    /\ Finish(s)
    /\ UNCHANGED <<books, squareOff>>

\* Mutant of OpenCommit: the balance is debited without being compared.
OpenUnchecked(s, t) ==
    /\ t \in rows[s]
    /\ MayWriteBalance(s)
    /\ balance' = mem[s] - Margin[t]
    /\ status' = [status EXCEPT ![t] = "OPEN"]
    /\ Finish(s)
    /\ UNCHANGED <<pnl, squareOff, excess>>

OpenCommit(s, t) ==
    /\ t \in rows[s]
    /\ mem[s] >= Margin[t]
    /\ MayWriteBalance(s)
    /\ balance' = mem[s] - Margin[t]
    /\ status' = [status EXCEPT ![t] = "OPEN"]
    /\ Finish(s)
    /\ UNCHANGED <<pnl, squareOff, excess>>

WorkerCommit(s, t) == pc[s] = "locked" /\ OpenCommit(s, t)

-----------------------------------------------------------------------------
(* API: POST /paper/execute, POST /paper/close, DELETE /paper/data,        *)
(* POST /auto-trader/close-all.                                            *)

ManualRead(s, t) ==
    /\ pc[s] = "idle"
    /\ Unclaimed(t)
    /\ balance >= Margin[t]
    /\ rows' = [rows EXCEPT ![s] = {t}]
    /\ mem' = [mem EXCEPT ![s] = balance]
    /\ Goto(s, "priced")
    /\ UNCHANGED <<books, rowLock, squareOff, marks, loss>>

ManualCommit(s, t) == pc[s] = "priced" /\ OpenCommit(s, t)

CloseRead(s, t, p) ==
    /\ pc[s] = "idle"
    /\ status[t] = "OPEN"
    /\ rows' = [rows EXCEPT ![s] = {t}]
    /\ marks' = [marks EXCEPT ![s][t] = p]
    /\ Goto(s, "found")
    /\ UNCHANGED <<books, rowLock, squareOff, mem, loss>>

CloseReadBalance(s, t) ==
    /\ pc[s] = "found"
    /\ t \in rows[s]
    /\ MayWriteRows(s, {t})
    /\ mem' = [mem EXCEPT ![s] = balance + Margin[t] + marks[s][t]]
    /\ loss' = [loss EXCEPT ![s] = Beyond(t, marks[s][t])]
    /\ Goto(s, "priced")
    /\ UNCHANGED <<books, rowLock, squareOff, rows, marks>>

CloseCommit(s) == pc[s] = "priced" /\ CommitReturns(s)

\* DELETE FROM paper_trades, then the balance is read; commit comes later.
ResetDelete(s) ==
    /\ pc[s] = "idle"
    /\ MayWriteRows(s, WithStatus("OPEN") \cup WithStatus("CLOSED"))
    /\ rows' = [rows EXCEPT ![s] = WithStatus("OPEN") \cup WithStatus("CLOSED")]
    /\ mem' = [mem EXCEPT ![s] = balance]
    /\ Goto(s, "deleted")
    /\ UNCHANGED <<books, rowLock, squareOff, marks, loss>>

\* 100000.0 is written only if the balance that was read differs from it.
ResetCommit(s) ==
    /\ pc[s] = "deleted"
    /\ IF mem[s] = Capital
         THEN UNCHANGED balance
         ELSE MayWriteBalance(s) /\ balance' = Capital
    /\ status' = [t \in Trades |-> IF t \in rows[s] THEN "DELETED" ELSE status[t]]
    /\ Finish(s)
    /\ UNCHANGED <<pnl, squareOff, excess>>

KillSwitchRead(s) ==
    /\ pc[s] = "idle"
    /\ WithStatus("OPEN") # {}
    /\ \E exits \in [WithStatus("OPEN") -> Pnls] :
         marks' = [marks EXCEPT ![s] =
                     [t \in Trades |-> IF t \in DOMAIN exits THEN exits[t] ELSE NoMark]]
    /\ rows' = [rows EXCEPT ![s] = WithStatus("OPEN")]
    /\ Goto(s, "priced")
    /\ UNCHANGED <<books, rowLock, squareOff, mem, loss>>

\* Books the profit and loss on the rows; the balance is not touched.
KillSwitchCommit(s) ==
    /\ pc[s] = "priced"
    /\ MayWriteRows(s, Touched(s))
    /\ IF StaleRows(s)
         THEN UNCHANGED <<status, pnl>>
         ELSE CloseMarked(s) /\ BookMarked(s)
    /\ Finish(s)
    /\ UNCHANGED <<balance, squareOff, excess>>

-----------------------------------------------------------------------------
(* API scheduler: paper_monitor.check_paper_trades.  Rows first, prices    *)
(* (awaits), then the balance, then the loop over the rows, one commit.    *)

MonitorRead(s) ==
    /\ pc[s] = "idle"
    /\ WithStatus("OPEN") # {}
    /\ rows' = [rows EXCEPT ![s] = WithStatus("OPEN")]
    /\ Goto(s, "pricing")
    /\ UNCHANGED <<books, rowLock, squareOff, mem, loss, marks>>

MonitorReadBalance(s) ==
    /\ pc[s] = "pricing"
    /\ mem' = [mem EXCEPT ![s] = balance]
    /\ Goto(s, "priced")
    /\ UNCHANGED <<books, rowLock, squareOff, rows, marks, loss>>

MonitorExit(s, t, p) ==
    /\ pc[s] = "priced"
    /\ t \in rows[s] /\ marks[s][t] \notin Pnls
    /\ marks' = [marks EXCEPT ![s][t] = p]
    /\ mem' = [mem EXCEPT ![s] = @ + Margin[t] + p]
    /\ loss' = [loss EXCEPT ![s] = @ + Beyond(t, p)]
    /\ UNCHANGED <<books, rowLock, squareOff, pc, rows>>

MonitorTrail(s, t) ==
    /\ pc[s] = "priced"
    /\ t \in rows[s] /\ marks[s][t] = NoMark
    /\ marks' = [marks EXCEPT ![s][t] = Trailed]
    /\ UNCHANGED <<books, rowLock, squareOff, pc, rows, mem, loss>>

MonitorCommit(s) == pc[s] = "priced" /\ CommitReturns(s)

-----------------------------------------------------------------------------
(* trade-monitor-worker: _check_paper_trades.  A price is awaited for each *)
(* row; the balance is never touched and realised_pnl, exit_time and       *)
(* exit_reason are not columns, so only status and exit_price are written. *)

TradeMonitorRead(s) ==
    /\ pc[s] = "idle"
    /\ WithStatus("OPEN") # {}
    /\ rows' = [rows EXCEPT ![s] = WithStatus("OPEN")]
    /\ Goto(s, "pricing")
    /\ UNCHANGED <<books, rowLock, squareOff, mem, loss, marks>>

\* Stop or target hit.
TradeMonitorExit(s, t, p) ==
    /\ pc[s] = "pricing"
    /\ t \in rows[s] /\ marks[s][t] = NoMark
    /\ MayWriteRows(s, {t})
    /\ marks' = [marks EXCEPT ![s][t] = p]
    /\ UNCHANGED <<books, rowLock, squareOff, pc, rows, mem, loss>>

\* End of day or EMERGENCY_FLATTEN: only the session that sets the key closes.
TradeMonitorSquareOff(s, t, p) ==
    /\ pc[s] = "pricing"
    /\ t \in rows[s] \ squareOff /\ marks[s][t] = NoMark
    /\ MayWriteRows(s, {t})
    /\ squareOff' = squareOff \cup {t}
    /\ marks' = [marks EXCEPT ![s][t] = p]
    /\ UNCHANGED <<books, rowLock, pc, rows, mem, loss>>

TradeMonitorTrail(s, t) ==
    /\ pc[s] = "pricing"
    /\ t \in rows[s] /\ marks[s][t] = NoMark
    /\ marks' = [marks EXCEPT ![s][t] = Trailed]
    /\ UNCHANGED <<books, rowLock, squareOff, pc, rows, mem, loss>>

TradeMonitorCommit(s) ==
    /\ pc[s] = "pricing"
    /\ MayWriteRows(s, Touched(s))
    /\ IF StaleRows(s) THEN UNCHANGED status ELSE CloseMarked(s)
    /\ Finish(s)
    /\ UNCHANGED <<balance, pnl, squareOff, excess>>

\* The key's TTL of an hour.
SquareOffExpires(t) ==
    /\ t \in squareOff
    /\ squareOff' = squareOff \ {t}
    /\ UNCHANGED <<books, rowLock, local>>

-----------------------------------------------------------------------------
WorkerNext(s) ==
    \/ \E t \in Trades : WorkerCount(s, t) \/ WorkerCommit(s, t)
    \/ WorkerCheckDuplicate(s) \/ WorkerLock(s) \/ WorkerReject(s)

ManualNext(s) == \E t \in Trades : ManualRead(s, t) \/ ManualCommit(s, t)

CloserNext(s) ==
    \/ \E t \in Trades, p \in Pnls : CloseRead(s, t, p)
    \/ \E t \in Trades : CloseReadBalance(s, t)
    \/ CloseCommit(s)

MonitorNext(s) ==
    \/ \E t \in Trades, p \in Pnls : MonitorExit(s, t, p)
    \/ \E t \in Trades : MonitorTrail(s, t)
    \/ MonitorRead(s) \/ MonitorReadBalance(s) \/ MonitorCommit(s)

TradeMonitorNext(s) ==
    \/ \E t \in Trades, p \in Pnls :
         TradeMonitorExit(s, t, p) \/ TradeMonitorSquareOff(s, t, p)
    \/ \E t \in Trades : TradeMonitorTrail(s, t)
    \/ TradeMonitorRead(s) \/ TradeMonitorCommit(s)

LedgerNext ==
    \/ \E s \in Workers : WorkerNext(s)
    \/ \E s \in Manuals : ManualNext(s)
    \/ \E s \in Closers : CloserNext(s)
    \/ \E s \in Monitors : MonitorNext(s)
    \/ \E s \in TradeMonitors : TradeMonitorNext(s)
    \/ \E s \in KillSwitches : KillSwitchRead(s) \/ KillSwitchCommit(s)
    \/ \E s \in Resets : ResetDelete(s) \/ ResetCommit(s)
    \/ \E s \in Sessions : Abort(s)
    \/ \E t \in Trades : SquareOffExpires(t)

LedgerSpec == LedgerInit /\ [][LedgerNext]_vars

(* PostgreSQL serves the waiters of a row lock in order and a worker that  *)
(* has the lock runs on: the queue moves (SF), the holder finishes (WF).   *)
LedgerFairness ==
    \A s \in Workers :
        /\ SF_vars(WorkerLock(s))
        /\ WF_vars(WorkerReject(s) \/ \E t \in Trades : WorkerCommit(s, t))

FairLedgerSpec == LedgerSpec /\ LedgerFairness

-----------------------------------------------------------------------------
LedgerTypeOK ==
    /\ TypeOK
    /\ rowLock \in Sessions \cup {NoSession}
    /\ squareOff \subseteq Trades
    /\ pc \in [Sessions -> {"idle", "counted", "checked", "locked", "priced",
                            "found", "pricing", "deleted"}]
    /\ rows \in [Sessions -> SUBSET Trades]
    /\ mem \in [Sessions -> Int]
    /\ marks \in [Sessions -> [Trades -> Pnls \cup {NoMark, Trailed}]]
    /\ loss \in [Sessions -> Nat] /\ excess \in Nat

(* Whatever is lost of the updates of workers, requests, monitors and      *)
(* resets, the balance is never lower than what committed closings lost    *)
(* beyond the margins they returned (close_paper_trade books any           *)
(* exit_price): opens alone never overdraw the account, however stale the  *)
(* balance they hold (the balance checks before every open).               *)
NoFurtherOverdraft == balance >= -excess

(* The balance a worker read under SELECT ... FOR UPDATE is still the      *)
(* committed one when the worker writes it back: every other writer waits  *)
(* (_execute_paper_trade, risk_cfg ... with_for_update).                   *)
LockedReadIsCurrent ==
    \A s \in Workers : rowLock = s => pc[s] = "locked" /\ mem[s] = balance

(* However stale the rows a session works from, a position that has been   *)
(* closed is never open again and a deleted row never comes back           *)
(* (check_paper_trades and _check_paper_trades write only the columns they *)
(* changed, and an UPDATE of a deleted row rolls the session back).        *)
NeverReopened ==
    [][\A t \in Trades :
         /\ status[t] = "CLOSED" => status'[t] \in {"CLOSED", "DELETED"}
         /\ status[t] = "DELETED" => status'[t] = "DELETED"]_vars

(* The number of open positions never exceeds max_open_positions           *)
(* (_handle_signal, "Max Open Positions Validation").                      *)
OpenPositionsCap == Cardinality(WithStatus("OPEN")) <= MaxOpenPositions

(* No two open positions of the same symbol and direction                  *)
(* (_execute_paper_trade, "Check for duplicate open trades").              *)
OnePositionPerInstrument ==
    \A t, u \in WithStatus("OPEN") : Instrument[t] = Instrument[u] => t = u

(* The inductive strengthening behind the theorems of PaperLedgerProofs.   *)
FoundMarked ==
    \A s \in Sessions : pc[s] = "found" => \A t \in rows[s] : marks[s][t] \in Pnls

LockHeld ==
    \A s \in Sessions :
        /\ rowLock = s <=> pc[s] = "locked"
        /\ rowLock = s => mem[s] = balance

NothingBelow ==
    /\ NoFurtherOverdraft
    /\ \A s \in Sessions : mem[s] >= -(excess + loss[s])

\* A row in hand for an insert is in nobody else's hands and not inserted.
ClaimsExclusive ==
    \A s \in Openers : \A t \in rows[s] :
        status[t] = "NEW" /\ \A r \in Openers : t \in rows[r] => r = s

\* Closers work on, and mark, inserted rows only.
MarksKnown ==
    /\ \A s \in ClosingSessions : \A t \in rows[s] : status[t] # "NEW"
    /\ \A s \in Sessions, t \in Trades :
         marks[s][t] # NoMark =>
           t \in rows[s] /\ s \in ClosingSessions /\ pc[s] # "idle"

LedgerInv ==
    /\ LedgerTypeOK
    /\ FoundMarked
    /\ LockHeld
    /\ NothingBelow
    /\ ClaimsExclusive
    /\ MarksKnown

(* Where only autotrader workers touch the account, any number of them, it *)
(* behaves as PaperAccount does: opens are atomic and no debit is lost.    *)
ImplementsAccount == Spec

\* Deployments the theorems of PaperLedgerProofs are about.
WorkersOnly == Manuals = {} /\ ClosingSessions = {}
SingleWorker == Manuals = {} /\ \A v, w \in Workers : v = w

\* Inductive strengthening of the two limits where one worker opens.
LimitsInv ==
    /\ IsFiniteSet(WithStatus("OPEN"))
    /\ OpenPositionsCap
    /\ OnePositionPerInstrument
    /\ \A s \in Workers :
         /\ pc[s] \in {"counted", "checked", "locked"} =>
              Cardinality(WithStatus("OPEN")) < MaxOpenPositions
         /\ pc[s] \in {"checked", "locked"} =>
              \A t \in rows[s], u \in WithStatus("OPEN") : Instrument[t] # Instrument[u]

(* A worker that waits for the balance row gets it and ends its session:   *)
(* nobody keeps the row lock.                                              *)
LockWaitEnds == \A s \in Workers : pc[s] \in {"checked", "locked"} ~> pc[s] = "idle"
=============================================================================
