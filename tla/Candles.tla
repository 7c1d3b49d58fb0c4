------------------------------ MODULE Candles ------------------------------
(***************************************************************************)
(* CandleAggregator makes one-minute candles of ticks and puts them in the *)
(* stream market:candles; CandlePersister takes them from there into the   *)
(* table candles.  A candle is the sequence of its ticks.                  *)
(***************************************************************************)
EXTENDS Naturals, Sequences, FiniteSets

CONSTANTS
    NoCandle,   \* no candle in progress
    Symbols,
    MinuteLength,
    RecentMax   \* ticks remembered of a symbol

VARIABLES
    builders,   \* candle in progress, by symbol
    last,       \* time of the last tick taken, by symbol
    recent,     \* signatures of the latest ticks, by symbol
    stream,     \* market:candles
    reader,     \* the persister: next entry, entries at hand, batch, batch being written
    acked,      \* entries acknowledged in this process
    rows,       \* entries that have a row in candles
    zero,       \* the table symbols has a row 0
    outages     \* failures of Redis and of the database still to come (a bound)

aggregatorVars == <<builders, last, recent>>
persisterVars == <<reader, acked, rows, zero>>
candleVars == <<aggregatorVars, stream, persisterVars, outages>>

Never == 0
NoneYet == [builders |-> [y \in Symbols |-> NoCandle], last |-> [y \in Symbols |-> Never],
            recent |-> [y \in Symbols |-> <<>>]]

Idle(next) ==
    [next |-> next, got |-> <<>>, due |-> FALSE, batch |-> <<>>, flushing |-> <<>>]

CandlesInit ==
    /\ builders = NoneYet.builders /\ last = NoneYet.last /\ recent = NoneYet.recent
    /\ stream = <<>> /\ reader = Idle(1) /\ acked = {} /\ rows = {} /\ zero \in BOOLEAN

Fails == outages > 0 /\ outages' = outages - 1

-----------------------------------------------------------------------------
\* process_tick; a tick carries the session that sent it.

minute(t) == t.time \div MinuteLength

\* By time, price and volume.
Signature(t) == <<t.time, t.deal>>
Duplicate(t) == \E k \in DOMAIN recent[t.symbol] : recent[t.symbol][k] = Signature(t)
OutOfOrder(t) == t.time < last[t.symbol]

\* A deque with maxlen: the oldest makes room.
Remember(q, x) == LET r == Append(q, x) IN IF Len(r) > RecentMax THEN Tail(r) ELSE r
Remembers(t) == recent' = [recent EXCEPT ![t.symbol] = Remember(@, Signature(t))]

Started(t) == [minute |-> minute(t), ticks |-> <<t>>]
Added(b, t) == [b EXCEPT !.ticks = Append(@, t)]
Closes(t) == builders[t.symbol] # NoCandle /\ builders[t.symbol].minute # minute(t)

to_dict(t, session) ==
    [session |-> session, symbol |-> t.symbol, minute |-> builders[t.symbol].minute,
     ticks |-> builders[t.symbol].ticks]

\* Dropped; one out of order is remembered all the same.
Drop(t) ==
    /\ \/ Duplicate(t) /\ UNCHANGED recent
       \/ ~Duplicate(t) /\ OutOfOrder(t) /\ Remembers(t)
    /\ UNCHANGED <<builders, last>>

Take(t) ==
    /\ ~Duplicate(t) /\ ~OutOfOrder(t) /\ Remembers(t)
    /\ last' = [last EXCEPT ![t.symbol] = t.time]

AddTick(t) ==
    /\ ~Closes(t)
    /\ builders' = [builders EXCEPT ![t.symbol] =
                      IF @ = NoCandle THEN Started(t) ELSE Added(@, t)]

\* The candle is out, or lost; the tick that closed it opens the next.
NextMinute(t) ==
    /\ builders' = [builders EXCEPT ![t.symbol] = Started(t)]
    /\ UNCHANGED <<last, recent>>

reset_session ==
    /\ builders' = NoneYet.builders /\ last' = NoneYet.last /\ recent' = NoneYet.recent

-----------------------------------------------------------------------------
\* CandlePersister._run

Writing == reader.flushing # <<>>

ReadStream ==
    /\ reader.got = <<>> /\ ~reader.due /\ ~Writing /\ reader.next <= Len(stream)
    /\ reader' = [reader EXCEPT !.got = [i \in 1..(Len(stream) - reader.next + 1) |->
                                           reader.next + i - 1],
                                !.next = Len(stream) + 1, !.due = TRUE]
    /\ UNCHANGED <<acked, rows, zero, outages>>

\* The candle is in the batch before its entry is acknowledged.
Ack ==
    /\ reader.got # <<>>
    /\ reader' = [reader EXCEPT !.batch = Append(@, Head(reader.got)), !.got = Tail(@)]
    /\ acked' = acked \cup {Head(reader.got)}
    /\ UNCHANGED <<rows, zero, outages>>

\* The exception leaves the rest of the read pending; nobody reads them again.
AckFails ==
    /\ reader.got # <<>> /\ Fails
    /\ reader' = [reader EXCEPT !.batch = Append(@, Head(reader.got)), !.got = <<>>,
                                !.due = FALSE]
    /\ UNCHANGED <<acked, rows, zero>>

\* After a read, or after one that found nothing in time.
Flush ==
    /\ reader.got = <<>> /\ reader.batch # <<>> /\ ~Writing
    /\ reader' = [reader EXCEPT !.flushing = reader.batch, !.batch = <<>>, !.due = FALSE]
    /\ UNCHANGED <<acked, rows, zero, outages>>

HasRow(i) == \E j \in rows : stream[j].minute = stream[i].minute
FirstOfMinute(k) ==
    \A j \in 1..(k - 1) : stream[reader.flushing[j]].minute # stream[reader.flushing[k]].minute

\* Every row is for symbol 0; of the candles of a minute the first stays.
FlushDone ==
    /\ Writing /\ zero
    /\ rows' = rows \cup {reader.flushing[k] : k \in
                            {n \in DOMAIN reader.flushing :
                               ~HasRow(reader.flushing[n]) /\ FirstOfMinute(n)}}
    /\ reader' = [reader EXCEPT !.flushing = <<>>]
    /\ UNCHANGED <<acked, zero, outages>>

\* Mutant of Kept: the failed batch is dropped.
Dropped(r) == [r EXCEPT !.flushing = <<>>]

\* What _flush_batch leaves behind when it fails.
Kept(r) == [r EXCEPT !.batch = @ \o r.flushing, !.flushing = <<>>]

\* The database is away, or refuses symbol 0 by the foreign key.
FlushFails ==
    /\ Writing
    /\ IF zero THEN Fails ELSE UNCHANGED outages
    /\ reader' = Kept(reader)
    /\ UNCHANGED <<acked, rows, zero>>

PersisterNext ==
    /\ ReadStream \/ Ack \/ AckFails \/ Flush \/ FlushDone \/ FlushFails
    /\ UNCHANGED <<aggregatorVars, stream>>

CandlesRestart ==
    /\ reset_session
    /\ reader' = Idle(reader.next) /\ acked' = {}
    /\ UNCHANGED <<stream, rows, zero, outages>>
=============================================================================
