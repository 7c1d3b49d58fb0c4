--------------------------- MODULE SignalDelivery ---------------------------
(***************************************************************************)
(* Delivery of risk-approved signals: the stream signals:risk_passed, its  *)
(* consumer group, the autotrader workers that read it (consume_stream and *)
(* AutoTraderWorker._handle_signal) and the worker that claims entries     *)
(* left pending (PelRecoveryWorker.run).  A consumer reads a batch, then   *)
(* handles and acknowledges its messages one by one; all replicas read new *)
(* entries only (">"), so what a consumer leaves unacknowledged stays in   *)
(* the pending entries list (PEL).                                         *)
(*                                                                         *)
(* Time is a clock that may advance between any two steps, except that the *)
(* age check and the SET NX of the idempotency key are at most MaxStall    *)
(* apart: no database call and no other message lies between them.         *)
(***************************************************************************)
EXTENDS Integers

CONSTANTS
    Workers,        \* autotrader-worker replicas
    Recoverers,     \* pel-recovery-worker processes
    RecoveryStarts, \* whether the process of a recoverer gets to its loop
    Msgs,           \* entries that may be added to the stream (a bound)
    Signals,
    Signal,         \* Signal[m]: what the entry asks for, as signal_hash sees it
    CandleTime,     \* CandleTime[s]: candle_time of signal s
    Timeless,       \* scanner and replay signals: never stale
    BatchSize,      \* XREADGROUP count
    StaleAge,       \* 60 s
    KeyTTL,         \* 900 s
    IdleTime,       \* idle_ms of the recovery worker
    DiscardAge,     \* 300 s
    PoisonLimit,    \* 5 deliveries
    RetryLimit,     \* 5 failures
    MaxStall,       \* between the age check and SET NX
    MaxTime,        \* end of the clock (a bound)
    Quiet,          \* no crash and no exception from this time on (a bound)
    NoMsg

Consumers == Workers \cup Recoverers

ASSUME DeliveryAssumption ==
    /\ Workers \cap Recoverers = {}
    /\ Signal \in [Msgs -> Signals]
    /\ CandleTime \in [Signals -> Nat]
    /\ Timeless \subseteq Signals
    /\ NoMsg \notin Msgs
    /\ BatchSize \in Nat \ {0}
    /\ {StaleAge, KeyTTL, IdleTime, DiscardAge, PoisonLimit, RetryLimit, MaxStall,
        MaxTime, Quiet} \subseteq Nat
    /\ KeyTTL > StaleAge + MaxStall

VARIABLES
    now,
    lastId,     \* number of entries in the stream
    id,         \* id[m]: entry ID of m, 0 while it is not in the stream
    added,      \* added[m]: the time in the entry ID
    cursor,     \* last entry delivered to the group
    delivered,  \* delivered[m]: time of the last delivery
    deliveries, \* deliveries[m]: delivery count, 0 before the first
    acked,      \* entries acknowledged
    retries,    \* retry_count:{stream}:{msg_id}
    dlq,        \* entries copied to signals:dlq
    dropped,    \* entries a failure took out of the hands of a worker
    keyUntil,   \* keyUntil[s]: when the idempotency key of s expires, 0: never set
    trades,     \* trades[s]: how often s was executed
    decided,    \* signals that were executed or refused
    pc,         \* where each consumer is
    todo,       \* messages of the batch it has not come to
    work,       \* the message it handles
    checkedAt   \* when it checked the age of that message

streamVars == <<lastId, id, added, cursor>>
pel == <<delivered, deliveries, acked, retries, dlq, dropped>>
effects == <<keyUntil, trades, decided>>
consumerVars == <<pc, todo, work, checkedAt>>
deliveryVars == <<now, streamVars, pel, effects, consumerVars>>

DeliveryInit ==
    /\ now = 0
    /\ lastId = 0
    /\ id = [m \in Msgs |-> 0]
    /\ added = [m \in Msgs |-> 0]
    /\ cursor = 0
    /\ delivered = [m \in Msgs |-> 0]
    /\ deliveries = [m \in Msgs |-> 0]
    /\ acked = {}
    /\ retries = [m \in Msgs |-> 0]
    /\ dlq = {} /\ dropped = {}
    /\ keyUntil = [s \in Signals |-> 0]
    /\ trades = [s \in Signals |-> 0]
    /\ decided = {}
    /\ pc = [c \in Consumers |-> "idle"]
    /\ todo = [c \in Consumers |-> {}]
    /\ work = [c \in Consumers |-> NoMsg]
    /\ checkedAt = [c \in Consumers |-> 0]

Pending(m) == deliveries[m] > 0 /\ m \notin acked

Goto(c, label) == pc' = [pc EXCEPT ![c] = label]

\* The consumer turns to the next message of its batch, or reads again.
MoveOn(c) ==
    /\ Goto(c, "idle")
    /\ work' = [work EXCEPT ![c] = NoMsg]

-----------------------------------------------------------------------------
(* The world: upstream publishes, time passes.                             *)

\* XADD by the risk engine; a signal may be published again under a new ID.
Publish(m) ==
    /\ id[m] = 0
    /\ now >= CandleTime[Signal[m]]
    /\ now < Quiet
    /\ lastId' = lastId + 1
    /\ id' = [id EXCEPT ![m] = lastId + 1]
    /\ added' = [added EXCEPT ![m] = now]
    /\ UNCHANGED <<now, cursor, pel, effects, consumerVars>>

Tick ==
    /\ now < MaxTime
    /\ \A c \in Consumers : pc[c] = "fresh" => now < checkedAt[c] + MaxStall
    /\ now' = now + 1
    /\ UNCHANGED <<streamVars, pel, effects, consumerVars>>

-----------------------------------------------------------------------------
(* Reading: consume_stream and PelRecoveryWorker.run.                      *)

Batch == {m \in Msgs : id[m] > cursor /\ id[m] <= cursor + BatchSize}

Read(w) ==
    /\ pc[w] = "idle" /\ todo[w] = {}
    /\ Batch # {}
    /\ todo' = [todo EXCEPT ![w] = Batch]
    /\ cursor' = IF cursor + BatchSize < lastId THEN cursor + BatchSize ELSE lastId
    /\ delivered' = [m \in Msgs |-> IF m \in Batch THEN now ELSE delivered[m]]
    /\ deliveries' = [m \in Msgs |-> IF m \in Batch THEN 1 ELSE deliveries[m]]
    /\ UNCHANGED <<now, lastId, id, added, acked, retries, dlq, dropped, effects,
                   pc, work, checkedAt>>

\* The answer of XREADGROUP is lost: the entries are delivered to a worker
\* that never sees them, and it asks again for new ones.
LoseRead(w) ==
    /\ pc[w] = "idle" /\ todo[w] = {}
    /\ Batch # {} /\ now < Quiet
    /\ cursor' = IF cursor + BatchSize < lastId THEN cursor + BatchSize ELSE lastId
    /\ delivered' = [m \in Msgs |-> IF m \in Batch THEN now ELSE delivered[m]]
    /\ deliveries' = [m \in Msgs |-> IF m \in Batch THEN 1 ELSE deliveries[m]]
    /\ dropped' = dropped \cup Batch
    /\ UNCHANGED <<now, lastId, id, added, acked, retries, dlq, effects, consumerVars>>

Poisoned == {m \in Msgs : Pending(m) /\ deliveries[m] > PoisonLimit}
Idle == {m \in Msgs : Pending(m) /\ now >= delivered[m] + IdleTime} \ Poisoned

\* XPENDING, XACK of what was delivered too often, XCLAIM of what is idle.
Recover(r) ==
    /\ RecoveryStarts
    /\ pc[r] = "idle" /\ todo[r] = {}
    /\ Poisoned \cup Idle # {}
    /\ acked' = acked \cup Poisoned
    /\ todo' = [todo EXCEPT ![r] = Idle]
    /\ delivered' = [m \in Msgs |-> IF m \in Idle THEN now ELSE delivered[m]]
    /\ deliveries' = [m \in Msgs |-> IF m \in Idle THEN deliveries[m] + 1
                                     ELSE deliveries[m]]
    /\ UNCHANGED <<now, streamVars, retries, dlq, dropped, effects, pc, work, checkedAt>>

\* The next message of the batch; a recoverer discards one that is too old.
Take(c, m) ==
    /\ pc[c] = "idle"
    /\ m \in todo[c] /\ \A n \in todo[c] : id[m] <= id[n]
    /\ todo' = [todo EXCEPT ![c] = @ \ {m}]
    /\ work' = [work EXCEPT ![c] = m]
    /\ IF c \in Recoverers /\ now > added[m] + DiscardAge
         THEN Goto(c, "done") /\ decided' = decided \cup {Signal[m]}
         ELSE Goto(c, "received") /\ UNCHANGED decided
    /\ UNCHANGED <<now, streamVars, pel, keyUntil, trades, checkedAt>>

-----------------------------------------------------------------------------
(* AutoTraderWorker._handle_signal for the message in work[c].             *)

CheckAge(c) ==
    /\ pc[c] = "received"
    /\ LET s == Signal[work[c]]
       IN  IF s \notin Timeless /\ now > CandleTime[s] + StaleAge
             THEN /\ decided' = decided \cup {s}
                  /\ Goto(c, "done")
                  /\ UNCHANGED checkedAt
             ELSE /\ checkedAt' = [checkedAt EXCEPT ![c] = now]
                  /\ Goto(c, "fresh")
                  /\ UNCHANGED decided
    /\ UNCHANGED <<now, streamVars, pel, keyUntil, trades, todo, work>>

\* Mutant of Claim: the key expires when the signal may still be fresh.
ClaimBriefly(c) ==
    /\ pc[c] = "fresh"
    /\ LET s == Signal[work[c]]
       IN  IF keyUntil[s] > now
             THEN Goto(c, "done") /\ UNCHANGED keyUntil
             ELSE /\ keyUntil' = [keyUntil EXCEPT ![s] = now + StaleAge]
                  /\ Goto(c, "claimed")
    /\ UNCHANGED <<now, streamVars, pel, trades, decided, todo, work,
                   checkedAt>>

\* SET executed_signal:{hash} NX EX 900: the message is skipped if it fails.
Claim(c) ==
    /\ pc[c] = "fresh"
    /\ LET s == Signal[work[c]]
       IN  IF keyUntil[s] > now
             THEN Goto(c, "done") /\ UNCHANGED keyUntil
             ELSE /\ keyUntil' = [keyUntil EXCEPT ![s] = now + KeyTTL]
                  /\ Goto(c, "claimed")
    /\ UNCHANGED <<now, streamVars, pel, trades, decided, todo, work,
                   checkedAt>>

\* Kill switch, market hours, configuration, price or position limit.
Refuse(c) ==
    /\ pc[c] = "claimed"
    /\ decided' = decided \cup {Signal[work[c]]}
    /\ Goto(c, "done")
    /\ UNCHANGED <<now, streamVars, pel, keyUntil, trades, todo, work,
                   checkedAt>>

Execute(c) ==
    /\ pc[c] = "claimed"
    /\ trades' = [trades EXCEPT ![Signal[work[c]]] = @ + 1]
    /\ decided' = decided \cup {Signal[work[c]]}
    /\ Goto(c, "executed")
    /\ UNCHANGED <<now, streamVars, pel, keyUntil, todo, work, checkedAt>>

\* _execute_paper_trade or _execute_live_trade returns without a trade:
\* a duplicate, no balance, or a live order that failed.
ExecuteNothing(c) ==
    /\ pc[c] = "claimed"
    /\ decided' = decided \cup {Signal[work[c]]}
    /\ Goto(c, "executed")
    /\ UNCHANGED <<now, streamVars, pel, keyUntil, trades, todo, work,
                   checkedAt>>

\* publish_to_stream(signals:executed) swallows its errors; the reservation
\* of the risk engine is released.
Report(c) ==
    /\ pc[c] = "executed"
    /\ Goto(c, "done")
    /\ UNCHANGED <<now, streamVars, pel, effects, todo, work, checkedAt>>

Ack(c) ==
    /\ pc[c] = "done"
    /\ acked' = acked \cup {work[c]}
    /\ MoveOn(c)
    /\ UNCHANGED <<now, streamVars, delivered, deliveries, retries, dlq, dropped,
                   effects, todo, checkedAt>>

-----------------------------------------------------------------------------
(* Failures.                                                               *)

InHandler(c) == pc[c] \in {"received", "fresh", "claimed", "executed"}

\* Mutant of Raise: the failed message is acknowledged like any other.
RaiseAndAck(w) ==
    /\ InHandler(w) /\ now < Quiet
    /\ retries' = [retries EXCEPT ![work[w]] = @ + 1]
    /\ acked' = acked \cup {work[w]}
    /\ dropped' = dropped \cup {work[w]}
    /\ MoveOn(w)
    /\ UNCHANGED <<now, streamVars, delivered, deliveries, dlq, effects, todo, checkedAt>>

\* Mutant of Raise: the exception ends the loop over the batch.
RaiseOutOfBatch(w) ==
    /\ InHandler(w) /\ now < Quiet
    /\ retries' = [retries EXCEPT ![work[w]] = @ + 1]
    /\ dropped' = dropped \cup {work[w]}
    /\ MoveOn(w)
    /\ todo' = [todo EXCEPT ![w] = {}]
    /\ UNCHANGED <<now, streamVars, delivered, deliveries, acked, dlq, effects, checkedAt>>

\* consume_stream counts the failure, of the handler or of XACK, and goes on
\* with the batch.
Raise(w) ==
    /\ InHandler(w) \/ pc[w] = "done"
    /\ now < Quiet
    /\ LET m == work[w]
       IN  /\ retries' = [retries EXCEPT ![m] = @ + 1]
           /\ dropped' = dropped \cup {m}
           /\ IF retries[m] + 1 > RetryLimit
                THEN dlq' = dlq \cup {m} /\ acked' = acked \cup {m}
                ELSE UNCHANGED <<dlq, acked>>
    /\ MoveOn(w)
    /\ UNCHANGED <<now, streamVars, delivered, deliveries, effects, todo, checkedAt>>

\* The recovery loop drops the rest of what it claimed.
RaiseInRecovery(r) ==
    /\ InHandler(r) \/ pc[r] = "done"
    /\ now < Quiet
    /\ MoveOn(r)
    /\ todo' = [todo EXCEPT ![r] = {}]
    /\ UNCHANGED <<now, streamVars, pel, effects, checkedAt>>

\* The process dies and is restarted; its batch stays in the PEL.
Crash(c) ==
    /\ pc[c] # "idle" \/ todo[c] # {}
    /\ now < Quiet
    /\ MoveOn(c)
    /\ todo' = [todo EXCEPT ![c] = {}]
    /\ dropped' = IF c \in Workers
                    THEN dropped \cup todo[c] \cup ({work[c]} \ {NoMsg}) ELSE dropped
    /\ UNCHANGED <<now, streamVars, delivered, deliveries, acked, retries, dlq, effects,
                   checkedAt>>

-----------------------------------------------------------------------------
\* What a consumer does with the message it took.
Handle(c) ==
    \/ CheckAge(c) \/ Claim(c) \/ Refuse(c) \/ Execute(c) \/ ExecuteNothing(c)
    \/ Report(c) \/ Ack(c)

\* A consumer that works.
Step(c) == Handle(c) \/ \E m \in Msgs : Take(c, m)

DeliveryNext ==
    \/ \E m \in Msgs : Publish(m)
    \/ \E w \in Workers : Read(w) \/ LoseRead(w) \/ Raise(w)
    \/ \E r \in Recoverers : Recover(r) \/ RaiseInRecovery(r)
    \/ \E c \in Consumers : Step(c) \/ Crash(c)
    \/ Tick

DeliverySpec == DeliveryInit /\ [][DeliveryNext]_deliveryVars

(* Workers that run read and work.                                         *)
Fairness ==
    \A w \in Workers : WF_deliveryVars(Read(w)) /\ WF_deliveryVars(Step(w))

FairSpec == DeliverySpec /\ Fairness

-----------------------------------------------------------------------------
TypeOK ==
    /\ now \in Nat /\ lastId \in Nat /\ cursor \in Nat
    /\ id \in [Msgs -> Nat] /\ added \in [Msgs -> Nat]
    /\ delivered \in [Msgs -> Nat] /\ deliveries \in [Msgs -> Nat]
    /\ retries \in [Msgs -> Nat]
    /\ acked \subseteq Msgs /\ dlq \subseteq Msgs /\ dropped \subseteq Msgs
    /\ keyUntil \in [Signals -> Nat]
    /\ trades \in [Signals -> Nat]
    /\ decided \subseteq Signals
    /\ pc \in [Consumers -> {"idle", "received", "fresh", "claimed", "executed",
                             "done"}]
    /\ todo \in [Consumers -> SUBSET Msgs]
    /\ work \in [Consumers -> Msgs \cup {NoMsg}]
    /\ checkedAt \in [Consumers -> Nat]
    /\ \A c \in Consumers : work[c] = NoMsg <=> pc[c] = "idle"

(* A candle signal is executed at most once, however often it is published *)
(* and delivered, whoever crashes: the idempotency key outlives the age at *)
(* which the signal is refused (_handle_signal, "Idempotency check").      *)
AtMostOnce == \A s \in Signals \ Timeless : trades[s] <= 1

\* The inductive strengthening of AtMostOnce, in parts.
\* Nobody handles an entry that is not in the stream, or a signal unborn.
KnownEntries ==
    /\ \A m \in Msgs : deliveries[m] > 0 => id[m] > 0
    /\ \A c \in Consumers : \A m \in todo[c] : id[m] > 0
    /\ \A c \in Consumers : work[c] # NoMsg => id[work[c]] > 0
    /\ \A m \in Msgs : id[m] > 0 => CandleTime[Signal[m]] <= now

\* Between the age check and SET NX a signal ages by MaxStall at most.
FreshEnough ==
    \A c \in Consumers : pc[c] = "fresh" =>
        /\ now <= checkedAt[c] + MaxStall
        /\ Signal[work[c]] \notin Timeless =>
             checkedAt[c] <= CandleTime[Signal[work[c]]] + StaleAge

\* A key once set outlives the freshness of its signal.
KeysOutlive ==
    \A s \in Signals : keyUntil[s] # 0 => keyUntil[s] >= CandleTime[s] + KeyTTL

Executing(c, s) == pc[c] = "claimed" /\ Signal[work[c]] = s

\* Of one signal there is nothing, one execution under way, or one done.
ExecutedOnce ==
    \A s \in Signals \ Timeless :
        /\ trades[s] <= 1
        /\ keyUntil[s] = 0 =>
             trades[s] = 0 /\ \A c \in Consumers : ~Executing(c, s)
        /\ trades[s] = 1 => \A c \in Consumers : ~Executing(c, s)
        /\ \A c, d \in Consumers : Executing(c, s) /\ Executing(d, s) => c = d

DeliveryInv == TypeOK /\ KnownEntries /\ FreshEnough /\ KeysOutlive /\ ExecutedOnce

(* Every entry of the stream is acknowledged in the end, unless a failure  *)
(* took this very entry out of a worker's hands: its handler raised, its   *)
(* worker died with it, its delivery was lost.  A failure of one message   *)
(* costs none of the rest of its batch (consume_stream).                   *)
Settled == \A m \in Msgs : id[m] > 0 ~> m \in acked \cup dropped

GivenUp(m) == deliveries[m] > PoisonLimit \/ m \in dlq

(* An entry that was acknowledged although its signal was neither executed *)
(* nor refused was given up as poison, or a handler had claimed the signal *)
(* and failed: nobody else's signal is lost, whoever dies (consume_stream, *)
(* PelRecoveryWorker.run, "ensuring no execution is lost").                *)
LostOnlyByFailure ==
    \A m \in acked : Signal[m] \in decided \/ keyUntil[Signal[m]] # 0 \/ GivenUp(m)

\* Its strengthening: what was delivered lies behind the cursor, and a handler
\* that is past the age check has claimed or refused.
BehindCursor ==
    \A m \in Msgs : id[m] <= lastId /\ (deliveries[m] > 0 => id[m] <= cursor)
ClaimedFirst ==
    \A c \in Consumers :
        /\ pc[c] \in {"claimed", "executed"} => keyUntil[Signal[work[c]]] # 0
        /\ pc[c] = "done" => \/ keyUntil[Signal[work[c]]] # 0
                             \/ Signal[work[c]] \in decided

LossInv == BehindCursor /\ ClaimedFirst /\ LostOnlyByFailure
=============================================================================
