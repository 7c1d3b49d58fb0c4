--------------------------- MODULE PortfolioBatch ---------------------------
(***************************************************************************)
(* The reactive auto-trader: every API process has an AutoTraderQueue and  *)
(* one worker that runs _process_batch on what the scanner endpoints put   *)
(* there.  A batch runs in one database session.  It closes reverse        *)
(* positions without a lock and opens positions under the Redis lock       *)
(* quantdss:portfolio_lock, whose key expires.                             *)
(*                                                                         *)
(* The session writes rows late: a close updates the trade at the next     *)
(* query and the account at the one after that, and a row stays locked     *)
(* until the session commits, which may be long after it has left the      *)
(* Redis lock.  Paper trading only; a trade is named by its batch and      *)
(* place.  Timers count down, so the clock has no end.                     *)
(***************************************************************************)
EXTENDS Integers, FiniteSets, Sequences

CONSTANTS
    Procs,      \* API processes
    Batches,    \* payloads the scanner may enqueue (a bound), and Past
    Past,       \* the batches whose trades are open as the model starts
    Home,       \* Home[b]: the process whose endpoint enqueues b
    Results,    \* Results[b]: the signals of batch b, in order
    Signals,    \* symbol, direction, strategy, timeframe and price
    Sym, Dir,   \* symbol and direction of a signal
    OldKeys,    \* signals executed within the hour before the start
    MaxOpen,    \* AutoTradeConfig.max_open_positions
    QueueMax,   \* 100
    LockTTL,    \* 30 s
    DedupTTL,   \* 3600 s
    Account,    \* the row of RiskConfig
    None

ASSUME BatchAssumption ==
    /\ IsFiniteSet(Batches) /\ Past \subseteq Batches
    /\ Home \in [Batches -> Procs]
    /\ Results \in [Batches -> Seq(Signals)]
    /\ Dir \in [Signals -> {"BUY", "SELL"}]
    /\ OldKeys \subseteq Signals
    /\ {MaxOpen, QueueMax, LockTTL, DedupTTL} \subseteq Nat \ {0}
    /\ None \notin Procs /\ None \notin Batches

Trades == UNION {{b} \X (1 .. Len(Results[b])) : b \in Batches}
SignalOf(t) == Results[t[1]][t[2]]

PastTrades == {t \in Trades : t[1] \in Past}

ASSUME TradesAssumption == Account \notin Trades /\ None \notin Trades

\* What is open at the start was opened within the limits.
ASSUME PastAssumption ==
    /\ Cardinality(PastTrades) <= MaxOpen
    /\ \A t, u \in PastTrades : Sym[SignalOf(t)] = Sym[SignalOf(u)] => t = u

VARIABLES
    sent,       \* batches that were enqueued
    queue,      \* AutoTraderQueue.queue of each process
    cur, idx,   \* the batch a worker is at, and the result in it
    pc,
    slots,      \* slots_left
    waited,     \* how long it has waited for the Redis lock
    target,     \* the reverse position it found
    closing,    \* trades it has closed and not committed
    opening,    \* trades it has inserted and not committed
    dirty,      \* paper_balance is changed in the session only
    rows,       \* who holds the row lock of a trade or the account
    status,     \* paper_trades.status, committed
    age,        \* time since the commit of a trade, up to DedupTTL
    lock, lockLeft, \* the Redis lock: who set it, what is left of its TTL
    keyLeft,    \* execution_dedup keys: what is left of their TTL
    outlived    \* workers the lock expired under

session == <<closing, opening, dirty>>
redisLock == <<lock, lockLeft>>
clocks == <<age, keyLeft, outlived>>
vars == <<sent, queue, cur, idx, pc, slots, waited, target, session, rows, status,
          redisLock, clocks>>

Init ==
    /\ sent = Past
    /\ queue = [p \in Procs |-> <<>>]
    /\ cur = [p \in Procs |-> None]
    /\ idx = [p \in Procs |-> 1]
    /\ pc = [p \in Procs |-> "idle"]
    /\ slots = [p \in Procs |-> 0]
    /\ waited = [p \in Procs |-> 0]
    /\ target = [p \in Procs |-> None]
    /\ closing = [p \in Procs |-> {}]
    /\ opening = [p \in Procs |-> {}]
    /\ dirty = [p \in Procs |-> FALSE]
    /\ rows = [x \in Trades \cup {Account} |-> None]
    /\ status = [t \in Trades |-> IF t \in PastTrades THEN "open" ELSE "none"]
    /\ age = [t \in Trades |-> 0]
    /\ lock = None /\ lockLeft = 0
    /\ keyLeft = [s \in Signals |-> IF s \in OldKeys THEN DedupTTL ELSE 0]
    /\ outlived = {}

Open == {t \in Trades : status[t] = "open"}

\* What a query of p finds: committed rows and what the session has flushed.
Found(p) == (Open \ closing[p]) \cup opening[p]

Result(p) == Results[cur[p]][idx[p]]
Goto(p, label) == pc' = [pc EXCEPT ![p] = label]

\* continue: on to the next result.
NextResult(p) == Goto(p, "result") /\ idx' = [idx EXCEPT ![p] = @ + 1]

RowFree(p, x) == rows[x] \in {None, p}
FreeRows(p) == rows' = [x \in DOMAIN rows |-> IF rows[x] = p THEN None ELSE rows[x]]

-----------------------------------------------------------------------------
(* AutoTraderQueue.                                                        *)

\* enqueue: a full queue loses its oldest payload.
Enqueue(b) ==
    /\ b \notin sent
    /\ sent' = sent \cup {b}
    /\ LET q == queue[Home[b]]
       IN  queue' = [queue EXCEPT ![Home[b]] =
                       Append(IF Len(q) = QueueMax THEN Tail(q) ELSE q, b)]
    /\ UNCHANGED <<cur, idx, pc, slots, waited, target, session, rows, status, redisLock,
                   clocks>>

\* _process_batch begins; it may find the auto-trader disabled or halted.
Start(p) ==
    /\ pc[p] = "idle" /\ queue[p] # <<>>
    /\ queue' = [queue EXCEPT ![p] = Tail(@)]
    /\ \/ /\ cur' = [cur EXCEPT ![p] = Head(queue[p])]
          /\ idx' = [idx EXCEPT ![p] = 1]
          /\ slots' = [slots EXCEPT ![p] = MaxOpen - Cardinality(Open)]
          /\ Goto(p, "result")
       \/ UNCHANGED <<cur, idx, slots, pc>>
    /\ UNCHANGED <<sent, waited, target, session, rows, status, redisLock, clocks>>

-----------------------------------------------------------------------------
(* A result: close what it reverses.                                       *)

\* The session writes paper_balance before its next query or commit.
AutoFlush(p) ==
    /\ pc[p] \in {"result", "locked"}
    /\ dirty[p]
    /\ RowFree(p, Account)
    /\ rows' = [rows EXCEPT ![Account] = p]
    /\ dirty' = [dirty EXCEPT ![p] = FALSE]
    /\ UNCHANGED <<sent, queue, cur, idx, pc, slots, waited, target, closing, opening,
                   status, redisLock, clocks>>

Reverse(p) == {t \in Found(p) : /\ Sym[SignalOf(t)] = Sym[Result(p)]
                                /\ Dir[SignalOf(t)] # Dir[Result(p)]}

\* With no slot left the result is skipped, otherwise the lock is wanted.
WantSlot(p, n) ==
    IF n > 0
      THEN Goto(p, "locking") /\ UNCHANGED idx
      ELSE NextResult(p)

\* _close_trade finds nothing to close, or is given no price.
NothingToClose(p) ==
    /\ pc[p] = "result" /\ ~dirty[p] /\ idx[p] <= Len(Results[cur[p]])
    /\ Cardinality(Reverse(p)) <= 1
    /\ WantSlot(p, slots[p])
    /\ UNCHANGED <<sent, queue, cur, slots, waited, target, session, rows, status, redisLock,
                   clocks>>

FindReverse(p) ==
    /\ pc[p] = "result" /\ ~dirty[p] /\ idx[p] <= Len(Results[cur[p]])
    /\ \E t \in Trades : /\ Reverse(p) = {t}
                         /\ target' = [target EXCEPT ![p] = t]
    /\ Goto(p, "closing")
    /\ UNCHANGED <<sent, queue, cur, idx, slots, waited, session, rows, status, redisLock,
                   clocks>>

\* The UPDATE of the trade waits for its row; it is not conditional.
CloseReverse(p) ==
    /\ pc[p] = "closing"
    /\ RowFree(p, target[p])
    /\ rows' = [rows EXCEPT ![target[p]] = p]
    /\ closing' = [closing EXCEPT ![p] = @ \cup {target[p]}]
    /\ dirty' = [dirty EXCEPT ![p] = TRUE]
    /\ slots' = [slots EXCEPT ![p] = @ + 1]
    /\ target' = [target EXCEPT ![p] = None]
    /\ WantSlot(p, slots[p] + 1)
    /\ UNCHANGED <<sent, queue, cur, waited, opening, status, redisLock, clocks>>

-----------------------------------------------------------------------------
(* Open a position under the lock.                                         *)

LockFree == lockLeft = 0

Acquire(p) ==
    /\ pc[p] = "locking"
    /\ LockFree
    /\ lock' = p /\ lockLeft' = LockTTL
    /\ Goto(p, "locked")
    /\ waited' = [waited EXCEPT ![p] = 0]
    /\ UNCHANGED <<sent, queue, cur, idx, slots, target, session, rows, status, clocks>>

\* TimeoutError after more than LockTTL: the signal is skipped.
GiveUp(p) ==
    /\ pc[p] = "locking"
    /\ ~LockFree /\ waited[p] > LockTTL
    /\ NextResult(p)
    /\ waited' = [waited EXCEPT ![p] = 0]
    /\ UNCHANGED <<sent, queue, cur, slots, target, session, rows, status, redisLock,
                   clocks>>

\* The key is deleted if it is still ours.
Unlock(p) ==
    IF lock = p /\ lockLeft > 0
      THEN lock' = None /\ lockLeft' = 0
      ELSE UNCHANGED redisLock

InLock(p) == pc[p] \in {"locked", "counted", "checked", "inserting", "keying",
                        "committing", "unlocking"}

\* Mutant of Recount: the count of the start of the batch is good enough.
RecountNothing(p) ==
    /\ pc[p] = "locked" /\ ~dirty[p]
    /\ Goto(p, "counted")
    /\ UNCHANGED <<sent, queue, cur, idx, slots, waited, target, session, rows, status,
                   redisLock, clocks>>

\* slots_now; the continue leaves the lock and commits nothing.
Recount(p) ==
    /\ pc[p] = "locked" /\ ~dirty[p]
    /\ IF Cardinality(Found(p)) < MaxOpen
         THEN Goto(p, "counted") /\ UNCHANGED <<idx, redisLock>>
         ELSE NextResult(p) /\ Unlock(p)
    /\ UNCHANGED <<sent, queue, cur, slots, waited, target, session, rows, status,
                   clocks>>

\* The deduplication key; again continue leaves the session as it is.
CheckKey(p) ==
    /\ pc[p] = "counted"
    /\ IF keyLeft[Result(p)] = 0
         THEN Goto(p, "checked") /\ UNCHANGED <<idx, redisLock>>
         ELSE NextResult(p) /\ Unlock(p)
    /\ UNCHANGED <<sent, queue, cur, slots, waited, target, session, rows, status,
                   clocks>>

SamePosition(p) == {t \in Found(p) : Sym[SignalOf(t)] = Sym[Result(p)]}

\* Mutant of CheckPosition: no look at the open positions.
CheckBalanceOnly(p) ==
    /\ pc[p] = "checked"
    /\ Goto(p, "inserting") \/ Goto(p, "committing")
    /\ UNCHANGED <<sent, queue, cur, idx, slots, waited, target, session, rows, status,
                   redisLock, clocks>>

\* _open_trade: a position in the symbol, a bad price or too little balance.
CheckPosition(p) ==
    /\ pc[p] = "checked"
    /\ Cardinality(SamePosition(p)) <= 1
    /\ \/ SamePosition(p) = {} /\ Goto(p, "inserting")
       \/ Goto(p, "committing")
    /\ UNCHANGED <<sent, queue, cur, idx, slots, waited, target, session, rows, status,
                   redisLock, clocks>>

\* db.flush: the trade is inserted and the balance updated.
Insert(p) ==
    /\ pc[p] = "inserting"
    /\ RowFree(p, Account)
    /\ rows' = [rows EXCEPT ![Account] = p]
    /\ opening' = [opening EXCEPT ![p] = {<<cur[p], idx[p]>>}]
    /\ Goto(p, "keying")
    /\ UNCHANGED <<sent, queue, cur, idx, slots, waited, target, closing, dirty, status,
                   redisLock, clocks>>

\* Mutant of SetKey: no key is set.
SetNoKey(p) ==
    /\ pc[p] = "keying"
    /\ UNCHANGED keyLeft
    /\ slots' = [slots EXCEPT ![p] = @ - 1]
    /\ Goto(p, "committing")
    /\ UNCHANGED <<sent, queue, cur, idx, waited, target, session, rows, status,
                   redisLock, age, outlived>>

SetKey(p) ==
    /\ pc[p] = "keying"
    /\ keyLeft' = [keyLeft EXCEPT ![Result(p)] = DedupTTL]
    /\ slots' = [slots EXCEPT ![p] = @ - 1]
    /\ Goto(p, "committing")
    /\ UNCHANGED <<sent, queue, cur, idx, waited, target, session, rows, status,
                   redisLock, age, outlived>>

\* The session is committed: its rows are seen by all and unlocked.
Save(p) ==
    /\ status' = [t \in Trades |-> IF t \in opening[p] THEN "open"
                                   ELSE IF t \in closing[p] THEN "closed"
                                   ELSE status[t]]
    /\ age' = [t \in Trades |-> IF t \in opening[p] THEN 0 ELSE age[t]]
    /\ closing' = [closing EXCEPT ![p] = {}]
    /\ opening' = [opening EXCEPT ![p] = {}]
    /\ FreeRows(p)

Commit(p) ==
    /\ pc[p] = "committing"
    /\ Save(p)
    /\ Goto(p, "unlocking")
    /\ UNCHANGED <<sent, queue, cur, idx, slots, waited, target, dirty, redisLock,
                   keyLeft, outlived>>

\* Mutant of LeaveLock: the same result again.
LeaveLockAgain(p) ==
    /\ pc[p] = "unlocking"
    /\ Unlock(p)
    /\ Goto(p, "result")
    /\ UNCHANGED <<sent, queue, cur, idx, slots, waited, target, session, rows, status,
                   clocks>>

LeaveLock(p) ==
    /\ pc[p] = "unlocking"
    /\ Unlock(p)
    /\ NextResult(p)
    /\ UNCHANGED <<sent, queue, cur, slots, waited, target, session, rows, status,
                   clocks>>

\* The locals of _process_batch are gone when it returns or raises.
EndBatch(p) ==
    /\ Goto(p, "idle")
    /\ cur' = [cur EXCEPT ![p] = None]
    /\ idx' = [idx EXCEPT ![p] = 1]
    /\ slots' = [slots EXCEPT ![p] = 0]
    /\ waited' = [waited EXCEPT ![p] = 0]
    /\ target' = [target EXCEPT ![p] = None]

\* The last commit of the batch.
Finish(p) ==
    /\ pc[p] = "result" /\ ~dirty[p] /\ idx[p] > Len(Results[cur[p]])
    /\ Save(p)
    /\ EndBatch(p)
    /\ UNCHANGED <<sent, queue, dirty, redisLock, keyLeft, outlived>>

-----------------------------------------------------------------------------
(* Errors.                                                                 *)

\* Mutant of Rollback: the session is used on with its pending change.
RollbackDirty(p) ==
    /\ EndBatch(p)
    /\ closing' = [closing EXCEPT ![p] = {}]
    /\ opening' = [opening EXCEPT ![p] = {}]
    /\ UNCHANGED dirty
    /\ FreeRows(p)

\* The session is rolled back and the batch is over.
Rollback(p) ==
    /\ EndBatch(p)
    /\ closing' = [closing EXCEPT ![p] = {}]
    /\ opening' = [opening EXCEPT ![p] = {}]
    /\ dirty' = [dirty EXCEPT ![p] = FALSE]
    /\ FreeRows(p)

\* An exception, scalar_one_or_none on two rows among others: the context
\* managers release the lock and roll back, _worker_loop logs.
Abort(p) ==
    /\ pc[p] # "idle"
    /\ Rollback(p)
    /\ IF InLock(p) THEN Unlock(p) ELSE UNCHANGED redisLock
    /\ UNCHANGED <<sent, queue, status, clocks>>

\* scalar_one_or_none raises when there is more than one row.
FindTooMany(p) ==
    /\ \/ /\ pc[p] = "result" /\ ~dirty[p] /\ idx[p] <= Len(Results[cur[p]])
          /\ Cardinality(Reverse(p)) > 1
       \/ pc[p] = "checked" /\ Cardinality(SamePosition(p)) > 1
    /\ Abort(p)

\* The process dies with its queue; the key of the lock stays.
Crash(p) ==
    /\ Rollback(p)
    /\ queue' = [queue EXCEPT ![p] = <<>>]
    /\ UNCHANGED <<sent, status, redisLock, clocks>>

\* p waits for a row that q has locked.
Wants(p) ==
    CASE pc[p] = "closing" -> {target[p]}
      [] pc[p] = "inserting" -> {Account}
      [] pc[p] \in {"result", "locked"} /\ dirty[p] -> {Account}
      [] OTHER -> {}
WaitsFor(p, q) == q # p /\ \E x \in Wants(p) : rows[x] = q
Blocked(p) == \E q \in Procs : WaitsFor(p, q)

\* PostgreSQL aborts a session of a cycle of waits; it sees no Redis locks.
Victim(p) ==
    /\ \E C \in SUBSET Procs : p \in C /\ \A q \in C : \E r \in C : WaitsFor(q, r)
    /\ Abort(p)

Down(n) == IF n = 0 THEN 0 ELSE n - 1
Older(n) == IF n < DedupTTL THEN n + 1 ELSE n

\* Time passes.  Under the lock nobody is slow, but may wait for a row.
Tick ==
    /\ \A p \in Procs : InLock(p) => Blocked(p)
    /\ lockLeft' = Down(lockLeft)
    /\ outlived' = outlived \cup {p \in Procs : lockLeft = 1 /\ lock = p /\ InLock(p)}
    /\ lock' = IF lockLeft <= 1 THEN None ELSE lock
    /\ keyLeft' = [s \in Signals |-> Down(keyLeft[s])]
    /\ age' = [t \in Trades |-> IF status[t] = "none" THEN 0 ELSE Older(age[t])]
    /\ waited' = [p \in Procs |-> IF pc[p] = "locking" /\ waited[p] <= LockTTL
                                  THEN waited[p] + 1 ELSE waited[p]]
    /\ UNCHANGED <<sent, queue, cur, idx, pc, slots, target, session, rows, status>>

-----------------------------------------------------------------------------
Work(p) ==
    \/ Start(p) \/ AutoFlush(p) \/ NothingToClose(p) \/ FindReverse(p) \/ CloseReverse(p)
    \/ Acquire(p) \/ GiveUp(p) \/ Recount(p) \/ CheckKey(p) \/ CheckPosition(p)
    \/ Insert(p) \/ SetKey(p) \/ Commit(p) \/ LeaveLock(p) \/ Finish(p)

Next ==
    \/ \E b \in Batches : Enqueue(b)
    \/ \E p \in Procs : Work(p) \/ Abort(p) \/ Crash(p)
    \/ Tick

Spec == Init /\ [][Next]_vars

\* A worker goes on with what it can do or raises, the clock runs,
\* PostgreSQL finds its deadlocks.
Fairness ==
    /\ \A p \in Procs : WF_vars(Work(p) \/ FindTooMany(p)) /\ WF_vars(Victim(p))
    /\ WF_vars(Tick)

FairSpec == Spec /\ Fairness

-----------------------------------------------------------------------------
Labels == {"idle", "result", "closing", "locking", "locked", "counted", "checked",
           "inserting", "keying", "committing", "unlocking"}
Queues == {q \in Seq(Batches) : Len(q) <= QueueMax}

TypeOK ==
    /\ sent \subseteq Batches
    /\ queue \in [Procs -> Queues]
    /\ cur \in [Procs -> Batches \cup {None}]
    /\ idx \in [Procs -> Nat] /\ slots \in [Procs -> Int] /\ waited \in [Procs -> Nat]
    /\ pc \in [Procs -> Labels]
    /\ target \in [Procs -> Trades \cup {None}]
    /\ closing \in [Procs -> SUBSET Trades] /\ opening \in [Procs -> SUBSET Trades]
    /\ dirty \in [Procs -> BOOLEAN]
    /\ rows \in [Trades \cup {Account} -> Procs \cup {None}]
    /\ status \in [Trades -> {"none", "open", "closed"}]
    /\ age \in [Trades -> 0 .. DedupTTL]
    /\ lock \in Procs \cup {None} /\ lockLeft \in 0 .. LockTTL
    /\ keyLeft \in [Signals -> 0 .. DedupTTL]
    /\ outlived \subseteq Procs
    /\ \A p \in Procs : pc[p] = "idle" => closing[p] \cup opening[p] = {} /\ ~dirty[p]

(* The batches of all processes together never open more positions than    *)
(* max_open_positions, as long as nobody stayed under the lock after it    *)
(* expired (the re-check inside the lock in _process_batch).               *)
PositionCap == outlived = {} => Cardinality(Open) <= MaxOpen

(* Nor two positions in one symbol ("resulting in a duplicate position").  *)
OnePerSymbol ==
    outlived = {} =>
        \A t, u \in Open : Sym[SignalOf(t)] = Sym[SignalOf(u)] => t = u

(* A signal is not traded again within the life of its key, whatever was   *)
(* closed in between (execution_dedup, set before the commit).             *)
OncePerKey ==
    [][outlived' = {} =>
         \A t, u \in Trades :
             /\ status[t] = "none" /\ status'[t] = "open"
             /\ u # t /\ u \notin PastTrades /\ status[u] # "none"
             /\ SignalOf(u) = SignalOf(t)
             => age[u] >= DedupTTL]_vars

(* A batch comes to its end although its session may hold rows that the    *)
(* holder of the Redis lock waits for: the key expires ("if the lock       *)
(* holder dies, the lock auto-expires in 30s").                            *)
BatchEnds == \A p \in Procs : pc[p] # "idle" ~> pc[p] = "idle"

(* The inductive strengthening behind the theorems of PortfolioBatchProofs.*)
\* A worker inside a batch is at one of its results.
Placed ==
    \A p \in Procs :
        /\ idx[p] >= 1
        /\ pc[p] # "idle" => cur[p] \in Batches
        /\ pc[p] \notin {"idle", "result"} => idx[p] <= Len(Results[cur[p]])
        /\ pc[p] = "closing" => target[p] \in Trades

\* Whoever is inside has the key, unless the lock expired under somebody.
LockHeld == outlived = {} => \A p \in Procs : InLock(p) => lock = p /\ lockLeft > 0

\* Only the trade of this result is inserted, and only inside the lock.
Inserted ==
    \A p \in Procs :
        opening[p] # {} => /\ pc[p] \in {"keying", "committing"}
                           /\ opening[p] = {<<cur[p], idx[p]>>}

\* From the count on there is room for one more, and from the look at the
\* symbol on nobody else opens one in it.
Opens(p) == pc[p] \in {"counted", "checked", "inserting", "keying"} \/ opening[p] # {}
Alone(p) == pc[p] \in {"inserting", "keying"} \/ opening[p] # {}
Room ==
    outlived = {} => \A p \in Procs :
        /\ Opens(p) => Cardinality(Open \ closing[p]) < MaxOpen
        /\ Alone(p) => \A t \in Open \ closing[p] : Sym[SignalOf(t)] # Sym[Result(p)]

BatchInv ==
    /\ TypeOK /\ Placed /\ LockHeld /\ Inserted /\ Room
    /\ PositionCap /\ OnePerSymbol
=============================================================================
