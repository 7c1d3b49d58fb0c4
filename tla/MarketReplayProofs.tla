------------------------- MODULE MarketReplayProofs -------------------------
(* Theorems about MarketReplay: the halt, the candles of a replay, and the entries the
   persister has acknowledged. *)
EXTENDS MarketReplay, FiniteSetTheorems, SequenceTheorems, WellFoundedInduction, TLAPS

\* What the handlers may want, whatever the lock allows.
Wants == {Both(e, m) : e \in BOOLEAN, m \in Modes} \cup {emergency_halt, resume_after_halt}
Calls == [want : Wants, read : Rows]

ControlTyped ==
    /\ row \in Rows /\ DOMAIN calls = Requests
    /\ \A q \in Requests : calls[q] # None => calls[q] \in Calls

LEMMA WishesAreWants == Wishes \subseteq Wants
<1>1. \A e \in BOOLEAN, m \in Modes : Both(e, m) \in Wants
  BY DEF Wants
<1>2. update_config \subseteq Wants
  BY <1>1 DEF update_config
<1>3. set_trading_mode \subseteq Wants
  <2>1. \A m \in Modes : (m # "disabled") \in BOOLEAN
    OBVIOUS
  <2> QED
    BY <1>1, <2>1 DEF set_trading_mode
<1> QED
  BY <1>2, <1>3 DEF Wishes, Wants

\* What a commit does to the switch and to the halt.
LEMMA WhatACommitWrites ==
    ASSUME row \in Rows, NEW c \in Calls
    PROVE  /\ After(c) \in Rows
           /\ ~row.enabled /\ After(c).enabled => ~c.read.enabled /\ c.want.enabled
           /\ row.is_halted /\ ~After(c).is_halted =>
                 c.read.is_halted /\ c.want = resume_after_halt
<1>1. DOMAIN row = {"enabled", "mode", "is_halted"} /\ row.enabled \in BOOLEAN
      /\ row.mode \in Modes /\ row.is_halted \in BOOLEAN
  BY DEF Rows
<1>2. /\ c.want \in Wants /\ c.read \in Rows
      /\ c.read.enabled \in BOOLEAN /\ c.read.is_halted \in BOOLEAN
  BY DEF Calls, Rows
<1>3. /\ c.want.enabled \in BOOLEAN /\ c.want.mode \in Modes
      /\ "is_halted" \in DOMAIN c.want =>
            c.want.is_halted \in BOOLEAN /\ (~c.want.is_halted => c.want = resume_after_halt)
  <2>1. ASSUME NEW e \in BOOLEAN, NEW m \in Modes, c.want = Both(e, m)
        PROVE  c.want.enabled \in BOOLEAN /\ c.want.mode \in Modes
               /\ "is_halted" \notin DOMAIN c.want
    BY <2>1 DEF Both
  <2>2. CASE c.want = emergency_halt
    BY <2>2 DEF emergency_halt, Modes
  <2>3. CASE c.want = resume_after_halt
    BY <2>3 DEF resume_after_halt, Modes
  <2> QED
    BY <1>2, <2>1, <2>2, <2>3 DEF Wants
<1>4. \A f \in DOMAIN row : After(c)[f] = IF f \in DOMAIN c.want /\ c.want[f] # c.read[f]
                                         THEN c.want[f] ELSE row[f]
  BY DEF After, Written
<1>5. After(c).enabled = IF "enabled" \in DOMAIN c.want /\ c.want.enabled # c.read.enabled
                         THEN c.want.enabled ELSE row.enabled
  BY <1>1, <1>4
<1>6. After(c).is_halted = IF "is_halted" \in DOMAIN c.want /\ c.want.is_halted # c.read.is_halted
                           THEN c.want.is_halted ELSE row.is_halted
  BY <1>1, <1>4
<1>7. After(c).mode \in Modes
  BY <1>1, <1>3, <1>4
<1>8. After(c) = [enabled |-> After(c).enabled, mode |-> After(c).mode,
                  is_halted |-> After(c).is_halted]
  BY <1>1 DEF After
<1>9. After(c) \in Rows
  <2>1. After(c).enabled \in BOOLEAN /\ After(c).is_halted \in BOOLEAN
    BY <1>1, <1>3, <1>5, <1>6
  <2> QED
    BY <1>7, <1>8, <2>1 DEF Rows
<1>10. ~row.enabled /\ After(c).enabled => ~c.read.enabled /\ c.want.enabled
  BY <1>2, <1>3, <1>5
<1>11. row.is_halted /\ ~After(c).is_halted => c.read.is_halted /\ c.want = resume_after_halt
  BY <1>2, <1>3, <1>6
<1> QED
  BY <1>9, <1>10, <1>11

LEMMA ControlTypedInit == Init => ControlTyped
<1> SUFFICES ASSUME Init PROVE ControlTyped
  OBVIOUS
<1>1. PICK b \in Bounds : row \in b.rows
  BY DEF Init
<1>2. row \in Rows
  BY <1>1, ReplayAssumption
<1> QED
  BY <1>2 DEF Init, ControlInit, ControlTyped

\* The steps of the requests, and what they mean for a halt.
ControlAllows ==
    /\ ~row.enabled /\ row'.enabled =>
          \E q \in Requests : Commit(q) /\ ~calls[q].read.enabled /\ calls[q].want.enabled
    /\ row.is_halted /\ ~row'.is_halted =>
          \/ NewDay
          \/ \E q \in Requests : /\ Commit(q) /\ calls[q].read.is_halted
                                  /\ calls[q].want = resume_after_halt

LEMMA ControlNextAllows ==
    ASSUME ControlTyped, ControlNext
    PROVE  ControlTyped' /\ ControlAllows
<1>1. ASSUME NEW q \in Requests, NEW want \in Wishes, Read(q, want)
      PROVE  ControlTyped' /\ ControlAllows
  <2>1. [want |-> want, read |-> row] \in Calls
    BY WishesAreWants DEF ControlTyped, Calls
  <2> QED
    BY <1>1, <2>1 DEF Read, ControlTyped, ControlAllows
<1>2. ASSUME NEW q \in Requests, Commit(q) PROVE ControlTyped' /\ ControlAllows
  <2>1. calls[q] \in Calls /\ row' = After(calls[q]) /\ row \in Rows
        /\ calls' = [calls EXCEPT ![q] = None]
    BY <1>2 DEF Commit, ControlTyped
  <2>2. /\ row' \in Rows
        /\ ~row.enabled /\ row'.enabled => ~calls[q].read.enabled /\ calls[q].want.enabled
        /\ row.is_halted /\ ~row'.is_halted =>
              calls[q].read.is_halted /\ calls[q].want = resume_after_halt
    BY <2>1, WhatACommitWrites
  <2>3. ControlTyped'
    BY <2>1, <2>2 DEF ControlTyped
  <2> QED
    BY <1>2, <2>2, <2>3 DEF ControlAllows
<1>3. CASE NewDay
  <2>1. row' \in Rows /\ row'.enabled = row.enabled /\ calls' = calls
    BY <1>3 DEF NewDay, ControlTyped, Rows
  <2> QED
    BY <1>3, <2>1 DEF ControlTyped, ControlAllows
<1> QED
  BY <1>1, <1>2, <1>3 DEF ControlNext

\* Every step of the process.
LEMMA NextAllows ==
    ASSUME ControlTyped, [Next]_vars
    PROVE  ControlTyped' /\ ControlAllows
<1>1. CASE Control
  BY <1>1, ControlNextAllows DEF Control
<1>2. CASE Restart
  BY <1>2 DEF Restart, ControlRestart, ControlTyped, ControlAllows
<1>3. CASE UNCHANGED controlVars
  BY <1>3 DEF controlVars, ControlTyped, ControlAllows
<1>4. ASSUME NEW c \in Clients, Replay(c) PROVE UNCHANGED controlVars
  BY <1>4 DEF Replay
<1> QED
  BY <1>1, <1>2, <1>3, <1>4 DEF Next, vars

(* However many requests overlap, whatever each read and in what order     *)
(* they commit: trading is not enabled by one that read it enabled before  *)
(* the halt, and the halt of the day is ended by nobody who has not seen   *)
(* it but the day itself (emergency_halt, resume_after_halt, get_db).      *)
THEOREM HaltIsKept == Spec => HaltHolds
<1>1. ControlTyped /\ [Next]_vars => ControlTyped'
  BY NextAllows
<1>2. ControlTyped /\ [Next]_vars =>
        [/\ ~row.enabled /\ row'.enabled =>
             \E q \in Requests : Commit(q) /\ ~calls[q].read.enabled /\ calls[q].want.enabled
         /\ row.is_halted /\ ~row'.is_halted =>
             \/ NewDay
             \/ \E q \in Requests : /\ Commit(q) /\ calls[q].read.is_halted
                                     /\ calls[q].want = resume_after_halt]_vars
  BY NextAllows DEF ControlAllows
<1> QED
  BY ControlTypedInit, <1>1, <1>2, PTL DEF Spec, HaltHolds

-----------------------------------------------------------------------------
\* Later rows have later times, or the same.
InOrder(l) == \A i, j \in DOMAIN l : i < j => l[i].time <= l[j].time

\* Rows come before one another as numbers do.
LEMMA BeforeIsAnOrder ==
    ASSUME NEW f \in Seq(FileRows), NEW i \in DOMAIN f, NEW j \in DOMAIN f, NEW k \in DOMAIN f
    PROVE  /\ ~Before(f, i, i)
           /\ Before(f, i, j) /\ Before(f, j, k) => Before(f, i, k)
           /\ i # j => Before(f, i, j) \/ Before(f, j, i)
<1>1. \A n \in DOMAIN f : n \in Nat /\ f[n] \in FileRows
  <2>1. DOMAIN f = 1..Len(f)
    OBVIOUS
  <2> QED
    BY <2>1
<1>2. \A n \in DOMAIN f : n \in Nat /\ f[n].time \in Nat
  BY <1>1 DEF FileRows
<1> QED
  BY <1>2 DEF Before

\* parse_csv keeps rows of the file, and puts them in order of time.
LEMMA ParsedInOrder ==
    ASSUME NEW f \in Seq(FileRows)
    PROVE  parse_csv(f) \in Seq(FileRows) /\ InOrder(parse_csv(f))
<1> DEFINE kept == {i \in DOMAIN f : InSession(f[i])}
           n == Cardinality(kept)
           lower(i) == {j \in kept : Before(f, j, i)}
           rank(i) == Cardinality(lower(i)) + 1
<1>1. IsFiniteSet(kept) /\ n \in Nat
  <2>1. kept \subseteq 1..Len(f) /\ Len(f) \in Nat
    OBVIOUS
  <2>2. IsFiniteSet(1..Len(f))
    BY <2>1, FS_Interval
  <2> QED
    BY <2>1, <2>2, FS_Subset, FS_CardinalityType
<1>2. ASSUME NEW i \in kept
      PROVE  IsFiniteSet(lower(i)) /\ Cardinality(lower(i)) \in Nat
  <2>1. lower(i) \subseteq kept
    OBVIOUS
  <2> QED
    BY <1>1, <2>1, FS_Subset, FS_CardinalityType
<1>3. ASSUME NEW i \in kept, NEW T \in SUBSET kept, lower(i) \subseteq T, i \in T
      PROVE  Cardinality(lower(i)) + 1 <= Cardinality(T)
  <2>1. i \notin lower(i)
    BY BeforeIsAnOrder
  <2>2. Cardinality(lower(i) \cup {i}) = Cardinality(lower(i)) + 1
    BY <1>2, <2>1, FS_AddElement
  <2>3. IsFiniteSet(T)
    BY <1>1, FS_Subset
  <2>4. lower(i) \cup {i} \in SUBSET T
    BY <1>3
  <2> QED
    BY <2>2, <2>3, <2>4, FS_Subset
<1>4. ASSUME NEW i \in kept, NEW j \in kept, Before(f, i, j)
      PROVE  rank(i) < rank(j)
  <2>1. lower(i) \subseteq lower(j) /\ i \in lower(j) /\ lower(j) \subseteq kept
    BY <1>4, BeforeIsAnOrder
  <2>2. Cardinality(lower(i)) + 1 <= Cardinality(lower(j))
    BY <1>3, <2>1
  <2>3. Cardinality(lower(i)) \in Nat /\ Cardinality(lower(j)) \in Nat
    BY <1>2
  <2> HIDE DEF lower
  <2> QED
    BY <2>2, <2>3
<1>5. ASSUME NEW i \in kept PROVE rank(i) \in 1..n
  <2>1. Cardinality(lower(i)) + 1 <= n
    BY <1>3
  <2>2. Cardinality(lower(i)) \in Nat
    BY <1>2
  <2> HIDE DEF lower, n
  <2> QED
    BY <1>1, <2>1, <2>2
<1>6. ASSUME NEW k \in 1..n PROVE \E i \in kept : rank(i) = k
  <2> DEFINE g == [i \in kept |-> rank(i)]
  <2>1. g \in Injection(kept, 1..n)
    <3>1. g \in [kept -> 1..n]
      BY <1>5
    <3>2. ASSUME NEW i \in kept, NEW j \in kept, g[i] = g[j] PROVE i = j
      <4>1. rank(i) = rank(j) /\ rank(i) \in Nat
        <5>1. Cardinality(lower(i)) \in Nat
          BY <1>2
        <5> HIDE DEF lower
        <5> QED
          BY <3>2, <5>1
      <4>2. ~Before(f, i, j) /\ ~Before(f, j, i)
        <5>1. ~(rank(i) < rank(j)) /\ ~(rank(j) < rank(i))
          <6> HIDE DEF rank
          <6> QED
            BY <4>1
        <5> HIDE DEF rank
        <5> QED
          BY <1>4, <5>1
      <4> QED
        BY <4>2, BeforeIsAnOrder
    <3> HIDE DEF g, n, kept
    <3> QED
      BY <3>1, <3>2 DEF Injection, IsInjective
  <2>2. IsFiniteSet(1..n) /\ Cardinality(1..n) = n
    BY <1>1, FS_Interval
  <2>3. g \in Surjection(kept, 1..n)
    <3> HIDE DEF g
    <3> QED
      BY <2>1, <2>2, FS_Injection
  <2> QED
    BY <2>3 DEF Surjection
<1> DEFINE at(k) == CHOOSE i \in kept : rank(i) = k
           l == parse_csv(f)
<1>7. l = [k \in 1..n |-> f[at(k)]]
  BY DEF parse_csv
<1>8. ASSUME NEW k \in 1..n PROVE at(k) \in kept /\ rank(at(k)) = k
  <2> HIDE DEF kept, rank, n
  <2> QED
    BY <1>6, <1>8
<1>9. \A k \in 1..n : f[at(k)] \in FileRows
  <2>1. \A k \in 1..n : at(k) \in DOMAIN f
    BY <1>8
  <2> HIDE DEF at
  <2> QED
    BY <2>1
<1>10. l \in Seq(FileRows) /\ DOMAIN l = 1..n
  <2> HIDE DEF at, n, l
  <2> QED
    BY <1>1, <1>7, <1>9
<1>11. InOrder(l)
  <2> SUFFICES ASSUME NEW k \in 1..n, NEW m \in 1..n, k < m PROVE l[k].time <= l[m].time
    BY <1>10 DEF InOrder
  <2>1. at(k) \in kept /\ at(m) \in kept /\ rank(at(k)) = k /\ rank(at(m)) = m
    BY <1>8
  <2>2. ~Before(f, at(m), at(k))
    <3> HIDE DEF at, rank, kept, n
    <3> QED
      BY <1>4, <2>1
  <2>3. f[at(k)].time \in Nat /\ f[at(m)].time \in Nat
    <3>1. f[at(k)] \in FileRows /\ f[at(m)] \in FileRows
      BY <1>9
    <3> HIDE DEF at
    <3> QED
      BY <3>1 DEF FileRows
  <2> HIDE DEF at, n, l
  <2>4. f[at(k)].time <= f[at(m)].time
    BY <2>2, <2>3 DEF Before
  <2> QED
    BY <1>7, <2>4
<1> QED
  BY <1>10, <1>11

-----------------------------------------------------------------------------
TaskPcs == Awaiting \cup {"next", "done"}
CandleSet == [session : Nat, symbol : Symbols, minute : Nat, ticks : Seq(Ticks)]
TaskSet == [ticks : Seq(FileRows), at : Nat \ {0}, pc : TaskPcs, cancelled : BOOLEAN,
            closing : CandleSet \cup {NoCandle}]
Signatures == Nat \X Deals
EngineSet == [is_running : BOOLEAN, is_paused : BOOLEAN, session : Nat, task : Nat]

CandlesTyped ==
    /\ builders \in [Symbols -> Building \cup {NoCandle}]
    /\ last \in [Symbols -> Nat] /\ recent \in [Symbols -> Seq(Signatures)]
    /\ stream \in Seq(CandleSet) /\ tasks \in Seq(TaskSet) /\ engine \in EngineSet

\* A task that is publishing, or has; one that has a tick at hand.
Closing == {"publishing", "published"}
AtTick == {"paused", "sleeping"} \cup Closing
Live(s) == tasks[s].pc # "done" /\ ~tasks[s].cancelled

\* One task goes on, that of the running session.
TaskKnown(s) ==
    /\ InOrder(tasks[s].ticks)
    /\ tasks[s].pc = "next" => ~tasks[s].cancelled
    /\ Live(s) => s = engine.task /\ s = engine.session /\ engine.is_running
    /\ tasks[s].pc \in AtTick => tasks[s].at <= Len(tasks[s].ticks)
TasksKnown == \A s \in DOMAIN tasks : TaskKnown(s)

Bare(t) == [time |-> t.time, symbol |-> t.symbol, deal |-> t.deal]

\* A candle as it should be published.
Whole(c) ==
    /\ \A k \in DOMAIN c.ticks : c.ticks[k].session = c.session
    /\ Held(c) = Sent(c) /\ Apart(c.ticks)

\* Published for a symbol of a session.
Of(s, y) == {j \in DOMAIN stream : stream[j].session = s /\ stream[j].symbol = y}

Once(i, j) ==
    <<stream[i].session, stream[i].symbol, stream[i].minute>>
      = <<stream[j].session, stream[j].symbol, stream[j].minute>> => stream[i] = stream[j]
StreamKnown ==
    /\ \A j \in DOMAIN stream : stream[j].session \in DOMAIN tasks /\ Whole(stream[j])
    /\ \A i, j \in DOMAIN stream : Once(i, j)

\* The rows of a symbol already injected, and those to come.
Past(s, y) == {i \in DOMAIN tasks[s].ticks : i < tasks[s].at /\ tasks[s].ticks[i].symbol = y}
Coming(s, y) == {i \in DOMAIN tasks[s].ticks : i >= tasks[s].at /\ tasks[s].ticks[i].symbol = y}
IsAtIt(s, y) == tasks[s].pc \in Closing /\ Row(s).symbol = y

\* The candle in progress is made of rows of its minute already injected, and not yet out.
MadeOf(s, y, t, m) ==
    /\ t.session = s /\ t.symbol = y /\ minute(t) = m
    /\ \E i \in Past(s, y) : tasks[s].ticks[i] = Bare(t)
Made(s, y) ==
    builders[y] # NoCandle =>
       /\ builders[y].ticks # <<>>
       /\ \A k \in DOMAIN builders[y].ticks : MadeOf(s, y, builders[y].ticks[k], builders[y].minute)
       /\ \A j \in Of(s, y) : stream[j].minute <= builders[y].minute
       /\ ~IsAtIt(s, y) => \A j \in Of(s, y) : stream[j].minute < builders[y].minute

\* What comes is no earlier than what was taken, and of later minutes than what is out.
Ahead(s, y) ==
    \A i \in Coming(s, y) :
        /\ last[y] <= tasks[s].ticks[i].time
        /\ \A j \in Of(s, y) : stream[j].minute < minute(tasks[s].ticks[i])

\* The candle in progress has every row of its minute injected so far.
InIt(s, y, i) ==
    /\ builders[y] # NoCandle /\ minute(tasks[s].ticks[i]) <= builders[y].minute
    /\ minute(tasks[s].ticks[i]) = builders[y].minute => tasks[s].ticks[i] \in Held(builders[y])
Seen(s, y, x) ==
    \E i \in DOMAIN tasks[s].ticks :
        /\ tasks[s].ticks[i].symbol = y /\ x = Signature(tasks[s].ticks[i])
        /\ i < tasks[s].at \/ (i = tasks[s].at /\ tasks[s].pc \in Closing)

\* The latest ticks of l are the latest remembered in r.
EndsAs(l, r) ==
    \A k \in DOMAIN l :
        Len(l) - k < RecentMax =>
            Len(r) - (Len(l) - k) \in DOMAIN r /\ r[Len(r) - (Len(l) - k)] = Signature(l[k])
Complete(s, y) ==
    /\ \A i \in Past(s, y) : InIt(s, y, i)
    /\ \A k \in DOMAIN recent[y] : Seen(s, y, recent[y][k])
    /\ builders[y] # NoCandle =>
         /\ Apart(builders[y].ticks)
         /\ ~IsAtIt(s, y) => EndsAs(builders[y].ticks, recent[y])

Progresses(s, y) ==
    Made(s, y) /\ Ahead(s, y) /\ Complete(s, y)
Progress == \A s \in DOMAIN tasks : Live(s) => \A y \in Symbols : Progresses(s, y)

\* The candle being published.
ClosingIs(s, c, y) ==
    /\ c \in CandleSet /\ c.session = s /\ c.symbol = y /\ Whole(c)
    /\ c.minute < minute(Row(s))
    /\ tasks[s].pc = "publishing" =>
         \A j \in Of(s, y) : stream[j].minute < c.minute \/ stream[j] = c
    /\ Live(s) => /\ builders[y] # NoCandle /\ builders[y].minute = c.minute
                  /\ Len(recent[y]) \in DOMAIN recent[y]
                  /\ recent[y][Len(recent[y])] = Signature(Row(s))
ClosingKnown ==
    \A s \in DOMAIN tasks :
        tasks[s].pc \in Closing => ClosingIs(s, tasks[s].closing, Row(s).symbol)

\* Inductive: whole candles come of what is past, at hand and to come in the file.
ReplayInv == CandlesTyped /\ TasksKnown /\ StreamKnown /\ Progress /\ ClosingKnown

-----------------------------------------------------------------------------
\* Minutes are numbers, and later times have no earlier minutes.
LEMMA MinuteOrder ==
    /\ \A x \in Nat : x \div MinuteLength \in Nat
    /\ \A x, y \in Nat : x <= y => x \div MinuteLength <= y \div MinuteLength
<1>1. MinuteLength \in Nat \ {0}
  BY ReplayAssumption
<1>2. \A x \in Nat : x \div MinuteLength \in Nat
  BY <1>1
<1>3. ASSUME NEW x \in Nat, NEW y \in Nat, x <= y
      PROVE  x \div MinuteLength <= y \div MinuteLength
  <2> DEFINE p == x \div MinuteLength
             q == y \div MinuteLength
  <2>1. p \in Nat /\ q \in Nat /\ p * MinuteLength <= x /\ y < (q + 1) * MinuteLength
    BY <1>1
  <2>2. CASE q < p
    <3>1. PICK d \in Nat : p = q + 1 + d
      <4>1. p - q - 1 \in Nat /\ p = q + 1 + (p - q - 1)
        BY <2>1, <2>2
      <4> QED
        BY <4>1
    <3>2. p * MinuteLength = (q + 1) * MinuteLength + d * MinuteLength
      BY <1>1, <2>1, <3>1
    <3>3. d * MinuteLength \in Nat
      BY <1>1
    <3> QED
      BY <1>1, <1>3, <2>1, <3>2, <3>3
  <2> QED
    BY <2>1, <2>2
<1> QED
  BY <1>2, <1>3

\* The rows of a task, and the row it is at.
LEMMA RowsOfATask ==
    ASSUME CandlesTyped, TasksKnown, NEW s \in DOMAIN tasks
    PROVE  /\ tasks[s] \in TaskSet /\ s \in Nat \ {0}
           /\ DOMAIN tasks[s].ticks = 1..Len(tasks[s].ticks)
           /\ \A i \in DOMAIN tasks[s].ticks :
                 tasks[s].ticks[i] \in FileRows /\ minute(tasks[s].ticks[i]) \in Nat
           /\ \A i, j \in DOMAIN tasks[s].ticks :
                 i <= j => /\ tasks[s].ticks[i].time <= tasks[s].ticks[j].time
                           /\ minute(tasks[s].ticks[i]) <= minute(tasks[s].ticks[j])
           /\ tasks[s].at <= Len(tasks[s].ticks) =>
                 /\ tasks[s].at \in DOMAIN tasks[s].ticks
                 /\ Row(s) \in FileRows /\ Tick(s) \in Ticks /\ Bare(Tick(s)) = Row(s)
                 /\ minute(Tick(s)) = minute(Row(s)) /\ minute(Row(s)) \in Nat
                 /\ Signature(Tick(s)) = Signature(Row(s)) /\ Tick(s).symbol = Row(s).symbol
                 /\ Signature(Row(s)) \in Signatures
<1> DEFINE l == tasks[s].ticks
<1>1. tasks[s] \in TaskSet /\ s \in Nat \ {0}
  <2>1. DOMAIN tasks = 1..Len(tasks)
    BY DEF CandlesTyped
  <2> QED
    BY <2>1 DEF CandlesTyped
<1>2. l \in Seq(FileRows)
  BY <1>1 DEF TaskSet
<1>3. DOMAIN l = 1..Len(l) /\ \A i \in DOMAIN l : l[i] \in FileRows
  <2>1. DOMAIN l = 1..Len(l)
    BY <1>2
  <2> HIDE DEF l
  <2> QED
    BY <1>2, <2>1
<1>4. \A i \in DOMAIN l : l[i].time \in Nat /\ minute(l[i]) \in Nat
  BY <1>3, MinuteOrder DEF FileRows, minute
<1>5. ASSUME NEW i \in DOMAIN l, NEW j \in DOMAIN l, i <= j
      PROVE  l[i].time <= l[j].time /\ minute(l[i]) <= minute(l[j])
  <2>1. l[i].time <= l[j].time
    <3>1. CASE i = j
      BY <1>4, <3>1
    <3>2. CASE i < j
      BY <3>2 DEF TasksKnown, TaskKnown, InOrder
    <3> QED
      BY <1>3, <1>5, <3>1, <3>2
  <2> QED
    BY <1>4, <2>1, MinuteOrder DEF minute
<1>6. ASSUME tasks[s].at <= Len(l)
      PROVE /\ tasks[s].at \in DOMAIN l
            /\ Row(s) \in FileRows /\ Tick(s) \in Ticks /\ Bare(Tick(s)) = Row(s)
            /\ minute(Tick(s)) = minute(Row(s)) /\ minute(Row(s)) \in Nat
            /\ Signature(Tick(s)) = Signature(Row(s)) /\ Tick(s).symbol = Row(s).symbol
            /\ Signature(Row(s)) \in Signatures
  <2>1. tasks[s].at \in DOMAIN l
    BY <1>1, <1>3, <1>6 DEF TaskSet
  <2>2. Row(s) \in FileRows /\ minute(Row(s)) \in Nat
    BY <1>3, <1>4, <2>1 DEF Row
  <2> QED
    BY <1>1, <2>1, <2>2 DEF Tick, Bare, FileRows, Ticks, minute, Signature, Signatures
<1> QED
  BY <1>1, <1>3, <1>4, <1>5, <1>6

\* Those of q that are the latest are still in r, one place further back.
Moved(q, r) ==
    \A d \in Nat : d + 1 < RecentMax /\ Len(q) - d \in DOMAIN q =>
        Len(r) - (d + 1) \in DOMAIN r /\ r[Len(r) - (d + 1)] = q[Len(q) - d]

\* What is remembered: the new one last, and the latest before it.
LEMMA Remembered ==
    ASSUME NEW S, NEW q \in Seq(S), NEW x \in S
    PROVE  LET r == Remember(q, x)
           IN  /\ r \in Seq(S) /\ Len(r) \in DOMAIN r /\ r[Len(r)] = x
               /\ \A k \in DOMAIN r : r[k] = x \/ \E i \in DOMAIN q : r[k] = q[i]
               /\ Moved(q, r)
<1> DEFINE a == Append(q, x)
           r == Remember(q, x)
<1>1. RecentMax \in Nat \ {0}
  BY ReplayAssumption
<1>2. DOMAIN q = 1..Len(q) /\ Len(q) \in Nat
  OBVIOUS
<1>3. /\ a \in Seq(S) /\ Len(a) = Len(q) + 1 /\ DOMAIN a = 1..(Len(q) + 1) /\ a[Len(q) + 1] = x
      /\ \A k \in 1..Len(q) : a[k] = q[k]
  OBVIOUS
<1>4. CASE ~(Len(a) > RecentMax)
  <2>1. r = a
    BY <1>4 DEF Remember
  <2> HIDE DEF a, r
  <2>2. \A k \in DOMAIN r : r[k] = x \/ \E i \in DOMAIN q : r[k] = q[i]
    BY <1>2, <1>3, <2>1
  <2>3. ASSUME NEW d \in Nat, d + 1 < RecentMax, Len(q) - d \in DOMAIN q
        PROVE  Len(r) - (d + 1) \in DOMAIN r /\ r[Len(r) - (d + 1)] = q[Len(q) - d]
    BY <1>2, <1>3, <2>1, <2>3
  <2>4. r \in Seq(S) /\ Len(r) \in DOMAIN r /\ r[Len(r)] = x
    BY <1>2, <1>3, <2>1
  <2> QED
    BY <2>2, <2>3, <2>4 DEF r, Moved
<1>5. CASE Len(a) > RecentMax
  <2>1. r = Tail(a)
    BY <1>5 DEF Remember
  <2> HIDE DEF a, r
  <2>2. /\ r \in Seq(S) /\ Len(r) = Len(q) /\ DOMAIN r = 1..Len(q) /\ Len(q) >= RecentMax
        /\ \A k \in 1..Len(q) : r[k] = a[k + 1]
    <3>1. a # <<>> /\ Len(q) >= RecentMax
      BY <1>1, <1>2, <1>3, <1>5
    <3> QED
      BY <1>2, <1>3, <2>1, <3>1, HeadTailProperties
  <2>3. \A k \in DOMAIN r : r[k] = x \/ \E i \in DOMAIN q : r[k] = q[i]
    <3> SUFFICES ASSUME NEW k \in 1..Len(q) PROVE r[k] = x \/ \E i \in DOMAIN q : r[k] = q[i]
      BY <2>2
    <3>n. PICK n : n = Len(q)
      OBVIOUS
    <3>1. k = Len(q) \/ k + 1 \in 1..Len(q)
      <4>1. n \in Nat /\ k \in 1..n
        BY <1>2, <3>n
      <4>2. k = n \/ k + 1 \in 1..n
        BY <4>1
      <4> QED
        BY <4>2, <3>n
    <3> QED
      BY <1>2, <1>3, <2>2, <3>1
  <2>4. ASSUME NEW d \in Nat, d + 1 < RecentMax, Len(q) - d \in DOMAIN q
        PROVE  Len(r) - (d + 1) \in DOMAIN r /\ r[Len(r) - (d + 1)] = q[Len(q) - d]
    <3>1. Len(q) - (d + 1) \in 1..Len(q) /\ Len(q) - (d + 1) + 1 = Len(q) - d
      BY <1>1, <1>2, <2>2, <2>4
    <3>2. r[Len(q) - (d + 1)] = a[Len(q) - d] /\ Len(q) - d \in 1..Len(q)
      BY <1>2, <2>2, <2>4, <3>1
    <3> QED
      BY <1>3, <2>2, <3>1, <3>2
  <2>5. Len(r) \in DOMAIN r /\ r[Len(r)] = x
    BY <1>1, <1>2, <1>3, <2>2
  <2> QED
    BY <2>2, <2>3, <2>4, <2>5 DEF r, Moved
<1> QED
  BY <1>4, <1>5

\* A candle and what is remembered, after one more tick.
LEMMA EndsAsAdded ==
    ASSUME NEW S, NEW l \in Seq(S), NEW t \in S, NEW q \in Seq(Signatures),
           EndsAs(l, q), Signature(t) \in Signatures, Apart(l),
           \A k \in DOMAIN q : q[k] # Signature(t)
    PROVE  /\ EndsAs(Append(l, t), Remember(q, Signature(t)))
           /\ Apart(Append(l, t))
<1>a. PICK r : r = Remember(q, Signature(t))
  OBVIOUS
<1>b. PICK m : m = Append(l, t)
  OBVIOUS
<1>1. RecentMax \in Nat \ {0} /\ Len(l) \in Nat /\ DOMAIN l = 1..Len(l)
  BY ReplayAssumption
<1>2. /\ Len(m) = Len(l) + 1 /\ DOMAIN m = 1..(Len(l) + 1) /\ m[Len(l) + 1] = t
      /\ \A k \in 1..Len(l) : m[k] = l[k]
  BY <1>b
<1>3. /\ Len(r) \in DOMAIN r /\ r[Len(r)] = Signature(t) /\ r \in Seq(Signatures)
      /\ Moved(q, r)
  <2>1. PICK g : g = Signature(t)
    OBVIOUS
  <2>2. g \in Signatures /\ r = Remember(q, g)
    BY <1>a, <2>1
  <2>3. Len(r) \in DOMAIN r /\ r[Len(r)] = g /\ r \in Seq(Signatures) /\ Moved(q, r)
    BY <2>2, Remembered
  <2> QED
    BY <2>1, <2>3
<1>4. Len(r) \in Nat
  BY <1>3
<1>5. EndsAs(m, r)
  <2> SUFFICES ASSUME NEW k \in 1..(Len(l) + 1), Len(l) + 1 - k < RecentMax
               PROVE  /\ Len(r) - (Len(l) + 1 - k) \in DOMAIN r
                      /\ r[Len(r) - (Len(l) + 1 - k)] = Signature(m[k])
    BY <1>2 DEF EndsAs
  <2>1. CASE k = Len(l) + 1
    <3>1. Len(r) - (Len(l) + 1 - k) = Len(r)
      BY <1>1, <1>4, <2>1
    <3> QED
      BY <1>2, <1>3, <2>1, <3>1
  <2>2. CASE k # Len(l) + 1
    <3>1. k \in 1..Len(l) /\ Len(l) - k \in Nat /\ Len(l) - k < RecentMax
          /\ Len(l) + 1 - k = (Len(l) - k) + 1
      BY <1>1, <2>2
    <3>2. Len(q) - (Len(l) - k) \in DOMAIN q /\ q[Len(q) - (Len(l) - k)] = Signature(l[k])
      BY <1>1, <3>1 DEF EndsAs
    <3> QED
      BY <1>2, <1>3, <3>1, <3>2 DEF Moved
  <2> QED
    BY <2>1, <2>2
<1>6. ASSUME NEW k \in 1..Len(l), Signature(l[k]) = Signature(t)
      PROVE  Len(l) + 1 - k > RecentMax
  <2>1. ~(Len(l) - k < RecentMax)
    BY <1>1, <1>6 DEF EndsAs
  <2> QED
    BY <1>1, <2>1
<1>7. Apart(m)
  <2> SUFFICES ASSUME NEW k \in 1..(Len(l) + 1), NEW i \in 1..(Len(l) + 1), k < i,
                      Signature(m[k]) = Signature(m[i])
               PROVE  i - k > RecentMax
    BY <1>2 DEF Apart
  <2>1. k \in 1..Len(l) /\ (i \in 1..Len(l) \/ i = Len(l) + 1)
    BY <1>1
  <2>2. CASE i \in 1..Len(l)
    BY <1>1, <1>2, <2>1, <2>2 DEF Apart
  <2>3. CASE i = Len(l) + 1
    BY <1>2, <1>6, <2>1, <2>3
  <2> QED
    BY <2>1, <2>2, <2>3
<1> QED
  BY <1>5, <1>7, <1>a, <1>b

\* A candle of one tick.
LEMMA EndsAsBegun ==
    ASSUME NEW t, NEW q, Len(q) \in DOMAIN q, q[Len(q)] = Signature(t), q \in Seq(Signatures)
    PROVE  EndsAs(<<t>>, q) /\ Apart(<<t>>)
<1>1. Len(<<t>>) = 1 /\ DOMAIN <<t>> = {1} /\ <<t>>[1] = t /\ Len(q) \in Nat
  OBVIOUS
<1>2. Len(q) - (1 - 1) = Len(q)
  BY <1>1
<1> QED
  BY <1>1, <1>2 DEF EndsAs, Apart

\* A candle stays whole: rows of a task do not change.
LEMMA WholeStays ==
    ASSUME NEW c, Whole(c), tasks'[c.session].ticks = tasks[c.session].ticks
    PROVE  Whole(c)'
<1>1. Sent(c)' = Sent(c)
  BY DEF Sent, minute
<1> QED
  BY <1>1 DEF Whole, Held

\* So does what was published, as long as nothing is.
LEMMA StreamStays ==
    ASSUME StreamKnown, UNCHANGED stream,
           \A s \in DOMAIN tasks : s \in DOMAIN tasks' /\ tasks'[s].ticks = tasks[s].ticks
    PROVE  StreamKnown'
<1>1. ASSUME NEW j \in DOMAIN stream
      PROVE  stream[j].session \in DOMAIN tasks' /\ Whole(stream[j])'
  <2>1. stream[j].session \in DOMAIN tasks /\ Whole(stream[j])
    BY DEF StreamKnown
  <2>2. Sent(stream[j])' = Sent(stream[j])
    BY <2>1 DEF Sent, minute
  <2> QED
    BY <2>1, <2>2 DEF Whole, Held
<1> QED
  BY <1>1 DEF StreamKnown, Once

\* Sequences of tasks with one changed.
LEMMA OneTaskChanged ==
    ASSUME CandlesTyped, NEW s \in DOMAIN tasks, NEW v \in TaskSet
    PROVE  LET l == [tasks EXCEPT ![s] = v]
           IN  /\ l \in Seq(TaskSet) /\ DOMAIN l = DOMAIN tasks
               /\ \A r \in DOMAIN tasks : l[r] = IF r = s THEN v ELSE tasks[r]
BY DEF CandlesTyped

\* What holds of a task that is left as it is, nothing else being done to its candles.
Same(s) ==
    /\ s \in DOMAIN tasks'
    /\ tasks'[s].ticks = tasks[s].ticks /\ tasks'[s].at = tasks[s].at
    /\ tasks'[s].closing = tasks[s].closing
    /\ tasks'[s].pc \in Closing => tasks[s].pc \in Closing
    /\ tasks'[s].pc = "publishing" => tasks[s].pc = "publishing"
    /\ Live(s)' => Live(s) /\ (tasks[s].pc \in Closing => tasks'[s].pc \in Closing)

\* Nothing new is published for a session.
NothingOut(s) ==
    \A y : Of(s, y)' = Of(s, y) /\ \A j \in Of(s, y) : stream'[j] = stream[j]

\* As when the stream is left alone.
LEMMA NothingOutAtAll == ASSUME UNCHANGED stream PROVE \A s : NothingOut(s)
BY DEF NothingOut, Of

\* The progress of a running session, when its task is left alone.
LEMMA ProgressStays ==
    ASSUME NEW s \in DOMAIN tasks, Same(s), Live(s)', Progress,
           UNCHANGED aggregatorVars, NothingOut(s)
    PROVE  \A y \in Symbols : Progresses(s, y)'
<1> SUFFICES ASSUME NEW y \in Symbols PROVE Progresses(s, y)'
  OBVIOUS
<1>1. Progresses(s, y) /\ (tasks'[s].pc \in Closing <=> tasks[s].pc \in Closing)
  BY DEF Same, Progress
<1>2. Past(s, y)' = Past(s, y) /\ Coming(s, y)' = Coming(s, y) /\ Of(s, y)' = Of(s, y)
      /\ \A j \in Of(s, y) : stream'[j] = stream[j]
  BY DEF Same, Past, Coming, NothingOut
<1>3. IsAtIt(s, y)' <=> IsAtIt(s, y)
  BY <1>1 DEF Same, IsAtIt, Row
<1>4. Made(s, y)'
  BY <1>1, <1>2, <1>3 DEF Same, Progresses, Made, MadeOf, minute, aggregatorVars
<1>5. Ahead(s, y)'
  BY <1>1, <1>2 DEF Same, Progresses, Ahead, minute, aggregatorVars
<1>6. Complete(s, y)'
  <2>1. Complete(s, y)
    BY <1>1 DEF Progresses
  <2>2. \A i : InIt(s, y, i) => InIt(s, y, i)'
    BY DEF Same, InIt, minute, Held, aggregatorVars
  <2>3. \A x : Seen(s, y, x) => Seen(s, y, x)'
    BY <1>1 DEF Same, Seen, Signature
  <2> QED
    BY <1>2, <1>3, <2>1, <2>2, <2>3 DEF Complete, Apart, EndsAs, Signature, aggregatorVars
<1> QED
  BY <1>4, <1>5, <1>6 DEF Progresses

\* The candle on its way, when its task is left alone.
LEMMA ClosingStays ==
    ASSUME ClosingKnown, NEW s \in DOMAIN tasks, Same(s), tasks'[s].pc \in Closing,
           NothingOut(s),
           Live(s)' => UNCHANGED aggregatorVars
    PROVE  ClosingIs(s, tasks[s].closing, Row(s).symbol)'
<1> DEFINE c == tasks[s].closing
           y == Row(s).symbol
<1>1. ClosingIs(s, c, y) /\ c' = c /\ Row(s)' = Row(s)
  BY DEF ClosingKnown, Same, Row
<1>2. Sent(c)' = Sent(c) /\ (Whole(c) => Whole(c)')
  <2>1. c.session = s
    BY <1>1 DEF ClosingIs
  <2>2. tasks'[c.session].ticks = tasks[c.session].ticks
    BY <2>1 DEF Same
  <2>3. Sent(c)' = Sent(c)
    BY <1>1, <2>2 DEF Sent, minute
  <2> QED
    BY <1>1, <2>3 DEF Whole, Held
<1>3. minute(Row(s))' = minute(Row(s)) /\ Signature(Row(s))' = Signature(Row(s))
  BY <1>1 DEF minute, Signature
<1>4. Of(s, y)' = Of(s, y) /\ \A j \in Of(s, y) : stream'[j] = stream[j]
  <2>1. y' = y
    BY <1>1
  <2>2. \A z : Of(s, z)' = Of(s, z)
    BY DEF NothingOut
  <2>3. Of(s, y)' = Of(s, y)
    BY <2>1, <2>2 DEF Of
  <2> QED
    BY <2>3 DEF NothingOut
<1>5. (Live(s)' => Live(s)) /\ (tasks'[s].pc = "publishing" => tasks[s].pc = "publishing")
  BY DEF Same
<1> HIDE DEF c, y
<1>6. ClosingIs(s, c, y)'
  <2>1. (c \in CandleSet /\ c.session = s /\ c.symbol = y /\ Whole(c))'
    BY <1>1, <1>2 DEF ClosingIs, y
  <2>2. (c.minute < minute(Row(s)))'
    BY <1>1, <1>3 DEF ClosingIs
  <2>3. (tasks[s].pc = "publishing" =>
            \A j \in Of(s, y) : stream[j].minute < c.minute \/ stream[j] = c)'
    BY <1>1, <1>4, <1>5 DEF ClosingIs
  <2>4. y' = y
    BY <1>1 DEF y
  <2>5. (Live(s) => /\ builders[y] # NoCandle /\ builders[y].minute = c.minute
                    /\ Len(recent[y]) \in DOMAIN recent[y]
                    /\ recent[y][Len(recent[y])] = Signature(Row(s)))'
    BY <1>1, <1>3, <1>5, <2>4 DEF ClosingIs, aggregatorVars
  <2> QED
    BY <2>1, <2>2, <2>3, <2>5 DEF ClosingIs
<1> QED
  BY <1>6 DEF c, y

\* The whole invariant, when every task is left alone in that sense.
LEMMA AllStay ==
    ASSUME ReplayInv, CandlesTyped', TasksKnown', DOMAIN tasks' = DOMAIN tasks,
           \A s \in DOMAIN tasks : Same(s), UNCHANGED stream,
           UNCHANGED aggregatorVars \/ \A s \in DOMAIN tasks : ~Live(s)'
    PROVE  ReplayInv'
<1>1. StreamKnown'
  BY StreamStays DEF ReplayInv, Same
<1>2. Progress'
  <2> SUFFICES ASSUME NEW s \in DOMAIN tasks, Live(s)'
               PROVE  \A y \in Symbols : Progresses(s, y)'
    BY DEF Progress
  <2>1. UNCHANGED aggregatorVars /\ NothingOut(s) /\ Same(s) /\ Progress
    BY NothingOutAtAll DEF ReplayInv
  <2> QED
    BY <2>1, ProgressStays
<1>3. ClosingKnown'
  <2> SUFFICES ASSUME NEW s \in DOMAIN tasks, tasks'[s].pc \in Closing
               PROVE  ClosingIs(s, tasks[s].closing, Row(s).symbol)'
    BY DEF ClosingKnown
  <2>1. (Live(s)' => UNCHANGED aggregatorVars) /\ NothingOut(s) /\ Same(s) /\ ClosingKnown
    BY NothingOutAtAll DEF ReplayInv
  <2> QED
    BY <2>1, ClosingStays
<1> QED
  BY <1>1, <1>2, <1>3 DEF ReplayInv

\* A task goes from waiting to waiting, or ends: Begins, Waits, Sleeps, Ends, Cancelled
\* and PublishFails.
LEMMA MovesKeep ==
    ASSUME ReplayInv, NEW s \in DOMAIN tasks, NEW pc \in TaskPcs, Goes(s, pc),
           pc \in Closing => tasks[s].pc \in Closing /\ pc # "publishing",
           pc # "done" => tasks[s].pc # "done" /\ (tasks[s].pc \notin Closing \/ pc \in Closing),
           pc = "next" => ~tasks[s].cancelled,
           pc \in AtTick => tasks[s].at <= Len(tasks[s].ticks),
           engine' \in EngineSet,
           engine' = engine \/ \A r \in DOMAIN tasks : ~Live(r)',
           UNCHANGED <<aggregatorVars, stream>>
    PROVE  ReplayInv'
<1>1. tasks[s] \in TaskSet
  BY RowsOfATask DEF ReplayInv
<1> DEFINE v == [tasks[s] EXCEPT !.pc = pc]
<1>2. v \in TaskSet /\ tasks' = [tasks EXCEPT ![s] = v]
  BY <1>1 DEF TaskSet, Goes, TaskPcs
<1>3. tasks' \in Seq(TaskSet) /\ DOMAIN tasks' = DOMAIN tasks
      /\ \A r \in DOMAIN tasks : tasks'[r] = IF r = s THEN v ELSE tasks[r]
  <2> HIDE DEF v
  <2> QED
    BY <1>2, OneTaskChanged DEF ReplayInv
<1>4. v.pc = pc /\ v.ticks = tasks[s].ticks /\ v.at = tasks[s].at /\ v.closing = tasks[s].closing
      /\ v.cancelled = tasks[s].cancelled
  BY <1>1 DEF TaskSet
<1> HIDE DEF v
<1>5. CandlesTyped'
  BY <1>3 DEF ReplayInv, CandlesTyped, aggregatorVars
<1>6. TaskKnown(s)
  BY DEF ReplayInv, TasksKnown
<1>7. ASSUME NEW r \in DOMAIN tasks PROVE Same(r)
  <2>1. CASE r = s
    <3>1. tasks'[s] = v
      BY <1>3
    <3>2. Live(s)' => Live(s) /\ (tasks[s].pc \in Closing => pc \in Closing)
      <4>1. tasks[s].pc # "done" => (Live(s)' => Live(s))
        BY <1>4, <3>1 DEF Live
      <4>2. pc # "done" => tasks[s].pc # "done"
        OBVIOUS
      <4> QED
        BY <1>4, <3>1, <4>1, <4>2 DEF Live
    <3> QED
      BY <1>3, <1>4, <2>1, <3>1, <3>2 DEF Same, Closing
  <2>2. CASE r # s
    BY <1>3, <2>2 DEF Same, Live
  <2> QED
    BY <2>1, <2>2
<1>8. TasksKnown'
  <2> SUFFICES ASSUME NEW r \in DOMAIN tasks PROVE TaskKnown(r)'
    BY <1>3 DEF TasksKnown
  <2>1. TaskKnown(r)
    BY DEF ReplayInv, TasksKnown
  <2>2. Live(r)' => Live(r) /\ engine' = engine
    BY <1>7 DEF Same
  <2>3. CASE r = s
    <3>1. tasks'[s] = v
      BY <1>3
    <3> QED
      BY <1>4, <2>1, <2>2, <2>3, <3>1 DEF TaskKnown
  <2>4. CASE r # s
    <3>1. tasks'[r] = tasks[r]
      BY <1>3, <2>4
    <3> QED
      BY <2>1, <2>2, <3>1 DEF TaskKnown
  <2> QED
    BY <2>3, <2>4
<1> QED
  BY <1>3, <1>5, <1>7, <1>8, AllStay

\* A step of the loop of one task that is not at the end of its rows.
Steps(s, v) ==
    /\ s \in DOMAIN tasks /\ tasks[s].at <= Len(tasks[s].ticks)
    /\ tasks' = [tasks EXCEPT ![s] = v] /\ v \in TaskSet
    /\ v.ticks = tasks[s].ticks /\ v.cancelled = tasks[s].cancelled
    /\ UNCHANGED engine

\* The other tasks are left alone.
LEMMA OthersStay ==
    ASSUME ReplayInv, NEW s, NEW v, Steps(s, v)
    PROVE  /\ tasks' \in Seq(TaskSet) /\ DOMAIN tasks' = DOMAIN tasks
           /\ tasks'[s] = v /\ \A r \in DOMAIN tasks : r # s => tasks'[r] = tasks[r]
           /\ \A r \in DOMAIN tasks : r # s => Same(r)
           /\ \A r \in DOMAIN tasks : tasks'[r].ticks = tasks[r].ticks
<1>1. /\ tasks' \in Seq(TaskSet) /\ DOMAIN tasks' = DOMAIN tasks
      /\ tasks'[s] = v /\ \A r \in DOMAIN tasks : r # s => tasks'[r] = tasks[r]
  BY OneTaskChanged DEF ReplayInv, Steps
<1> QED
  BY <1>1 DEF Steps, Same, Live

\* What is known of the tasks, after a step of the loop of one.
LEMMA TasksStayKnown ==
    ASSUME ReplayInv, NEW s, NEW v, Steps(s, v), tasks[s].pc # "done",
           v.pc = "next" => ~v.cancelled,
           v.pc \in AtTick => v.at = tasks[s].at
    PROVE  TasksKnown'
<1> SUFFICES ASSUME NEW r \in DOMAIN tasks PROVE TaskKnown(r)'
  BY OthersStay DEF TasksKnown
<1>1. TaskKnown(r)
  BY DEF ReplayInv, TasksKnown
<1>2. CASE r # s
  <2>1. tasks'[r] = tasks[r]
    BY <1>2, OthersStay
  <2> QED
    BY <1>1, <2>1 DEF TaskKnown, Live, Steps
<1>3. CASE r = s
  <2>1. tasks'[s] = v
    BY OthersStay
  <2>2. tasks[s].cancelled = v.cancelled /\ v.ticks = tasks[s].ticks /\ engine' = engine
        /\ tasks[s].at <= Len(tasks[s].ticks)
    BY DEF Steps
  <2>3. Live(s)' => Live(s)
    BY <2>1, <2>2 DEF Live
  <2> QED
    BY <1>1, <1>3, <2>1, <2>2, <2>3 DEF TaskKnown
<1> QED
  BY <1>2, <1>3

\* One live task, so what the others show about theirs is kept as it is.
LEMMA OthersKeep ==
    ASSUME ReplayInv, NEW s, NEW v, Steps(s, v), TasksKnown',
           UNCHANGED aggregatorVars \/ Live(s)
    PROVE  /\ \A r \in DOMAIN tasks : Live(r)' /\ r # s /\ NothingOut(r) =>
                 \A y \in Symbols : Progresses(r, y)'
           /\ \A r \in DOMAIN tasks : tasks'[r].pc \in Closing /\ r # s /\ NothingOut(r) =>
                 ClosingIs(r, tasks[r].closing, Row(r).symbol)'
<1>1. engine' = engine /\ s \in DOMAIN tasks
  BY DEF Steps
<1>2. ASSUME NEW r \in DOMAIN tasks, r # s, Live(r)'
      PROVE  UNCHANGED aggregatorVars /\ Same(r)
  <2>1. Same(r)
    BY <1>2, OthersStay
  <2>2. r = engine.task
    BY <1>2, <2>1 DEF Same, ReplayInv, TasksKnown, TaskKnown
  <2>3. Live(s) => s = engine.task
    BY <1>1 DEF ReplayInv, TasksKnown, TaskKnown
  <2> QED
    BY <1>2, <2>1, <2>2, <2>3
<1>3. ASSUME NEW r \in DOMAIN tasks, r # s, Live(r)', NothingOut(r)
      PROVE  \A y \in Symbols : Progresses(r, y)'
  <2>1. UNCHANGED aggregatorVars /\ Same(r) /\ Progress
    BY <1>1, <1>2, <1>3 DEF ReplayInv
  <2> QED
    BY <1>3, <2>1, ProgressStays
<1>4. ASSUME NEW r \in DOMAIN tasks, r # s, tasks'[r].pc \in Closing, NothingOut(r)
      PROVE  ClosingIs(r, tasks[r].closing, Row(r).symbol)'
  <2>1. Same(r) /\ ClosingKnown
    BY <1>1, <1>4, OthersStay DEF ReplayInv
  <2>2. Live(r)' => UNCHANGED aggregatorVars
    BY <1>2, <1>4
  <2> QED
    BY <1>4, <2>1, <2>2, ClosingStays
<1> QED
  BY <1>3, <1>4

\* What the loop knows when it has a tick at hand.
LEMMA AtATick ==
    ASSUME ReplayInv, NEW s \in DOMAIN tasks, tasks[s].at <= Len(tasks[s].ticks), Live(s)
    PROVE  /\ Row(s).symbol \in Symbols /\ tasks[s].at \in Coming(s, Row(s).symbol)
           /\ last[Row(s).symbol] <= Row(s).time /\ ~OutOfOrder(Tick(s))
           /\ \A j \in Of(s, Row(s).symbol) : stream[j].minute < minute(Row(s))
           /\ \A i \in Coming(s, Row(s).symbol) : Row(s).time <= tasks[s].ticks[i].time
           /\ s = engine.session
<1>1. /\ tasks[s].at \in DOMAIN tasks[s].ticks /\ Row(s) \in FileRows /\ tasks[s].at \in Nat
      /\ Tick(s).symbol = Row(s).symbol /\ Tick(s).time = Row(s).time
  BY RowsOfATask DEF ReplayInv, TaskSet, Tick
<1>2. Row(s).symbol \in Symbols /\ Row(s).time \in Nat
  BY <1>1 DEF FileRows
<1>3. tasks[s].at \in Coming(s, Row(s).symbol)
  BY <1>1 DEF Coming, Row
<1>4. Ahead(s, Row(s).symbol)
  BY <1>2 DEF ReplayInv, Progress, Progresses
<1>5. last[Row(s).symbol] <= Row(s).time
      /\ \A j \in Of(s, Row(s).symbol) : stream[j].minute < minute(Row(s))
  BY <1>3, <1>4 DEF Ahead, Row
<1>6. last[Row(s).symbol] \in Nat
  BY <1>2 DEF ReplayInv, CandlesTyped
<1>7. \A i \in Coming(s, Row(s).symbol) : Row(s).time <= tasks[s].ticks[i].time
  BY <1>1, RowsOfATask DEF ReplayInv, Coming, Row
<1>8. ~OutOfOrder(Tick(s))
  BY <1>1, <1>2, <1>5, <1>6 DEF OutOfOrder
<1>9. s = engine.session
  BY DEF ReplayInv, TasksKnown, TaskKnown
<1> QED
  BY <1>2, <1>3, <1>5, <1>7, <1>8, <1>9

\* The candle in progress holds every row of its minute, when a tick of another arrives.
LEMMA ClosedIsWhole ==
    ASSUME ReplayInv, NEW s \in DOMAIN tasks, tasks[s].at <= Len(tasks[s].ticks), Live(s),
           tasks[s].pc \notin Closing, Closes(Tick(s))
    PROVE  LET c == to_dict(Tick(s), engine.session)
           IN  /\ c \in CandleSet /\ c.session = s /\ c.symbol = Row(s).symbol
               /\ Whole(c) /\ c.minute < minute(Row(s)) /\ c.minute = builders[Row(s).symbol].minute
               /\ \A j \in Of(s, Row(s).symbol) : stream[j].minute < c.minute
<1> DEFINE y == Row(s).symbol
           b == builders[y]
           c == to_dict(Tick(s), engine.session)
           l == tasks[s].ticks
           at == tasks[s].at
<1>1. y \in Symbols /\ s = engine.session /\ Tick(s).symbol = y /\ minute(Tick(s)) = minute(Row(s))
      /\ Row(s) = l[at] /\ at \in DOMAIN l /\ at \in Nat
  BY AtATick, RowsOfATask DEF ReplayInv, TaskSet, Row
<1>2. b # NoCandle /\ b.minute # minute(Row(s)) /\ b \in Building
  BY <1>1 DEF Closes, ReplayInv, CandlesTyped
<1>3. c = [session |-> s, symbol |-> y, minute |-> b.minute, ticks |-> b.ticks]
  BY <1>1 DEF to_dict
<1>4. b.minute \in Nat /\ b.ticks \in Seq(Ticks)
  BY <1>2 DEF Building
<1>5. s \in Nat
  BY RowsOfATask DEF ReplayInv
<1> HIDE DEF c
<1>6. c \in CandleSet /\ c.session = s /\ c.symbol = y /\ c.minute = b.minute /\ c.ticks = b.ticks
  BY <1>1, <1>3, <1>4, <1>5 DEF CandleSet
<1>7. Made(s, y) /\ Complete(s, y)
      /\ \A j \in Of(s, y) : stream[j].minute < b.minute
  BY <1>1, <1>2 DEF ReplayInv, Progress, Progresses, IsAtIt, Made
<1>8. \A k \in DOMAIN b.ticks : MadeOf(s, y, b.ticks[k], b.minute)
  BY <1>2, <1>7 DEF Made
<1>9. b.minute < minute(Row(s))
  <2>1. 1 \in DOMAIN b.ticks
    BY <1>2, <1>4, <1>7 DEF Made
  <2>2. PICK i \in Past(s, y) : l[i] = Bare(b.ticks[1])
    BY <1>8, <2>1 DEF MadeOf
  <2>3. minute(l[i]) = b.minute
    BY <1>8, <2>1, <2>2 DEF MadeOf, minute, Bare
  <2>4. i \in DOMAIN l /\ i <= at
    BY <1>1, <2>2, RowsOfATask DEF ReplayInv, Past, TaskSet
  <2>5. minute(l[i]) <= minute(l[at]) /\ minute(l[at]) \in Nat
    BY <1>1, <2>4, RowsOfATask DEF ReplayInv
  <2> QED
    BY <1>1, <1>2, <1>4, <2>3, <2>5
<1>10. \A k \in DOMAIN c.ticks : c.ticks[k].session = c.session
  BY <1>6, <1>8 DEF MadeOf
<1>11. Held(c) = Sent(c) /\ Apart(c.ticks)
  <2>1. Complete(s, y)
    BY <1>7
  <2>2. Sent(c) = {t \in {l[i] : i \in DOMAIN l} : t.symbol = y /\ minute(t) = b.minute}
    BY <1>6 DEF Sent
  <2>3. Held(c) = {Bare(b.ticks[k]) : k \in DOMAIN b.ticks} /\ Held(b) = Held(c)
    BY <1>6 DEF Held, Bare
  <2>4. Held(c) \subseteq Sent(c)
    <3> SUFFICES ASSUME NEW k \in DOMAIN b.ticks PROVE Bare(b.ticks[k]) \in Sent(c)
      BY <2>3
    <3>1. PICK i \in Past(s, y) : l[i] = Bare(b.ticks[k])
      BY <1>8 DEF MadeOf
    <3>2. Bare(b.ticks[k]).symbol = y /\ minute(Bare(b.ticks[k])) = b.minute
      BY <1>8 DEF MadeOf, Bare, minute
    <3> QED
      BY <2>2, <3>1, <3>2 DEF Past
  <2>5. Sent(c) \subseteq Held(c)
    <3> SUFFICES ASSUME NEW i \in DOMAIN l, l[i].symbol = y, minute(l[i]) = b.minute
                 PROVE  l[i] \in Held(b)
      BY <2>2, <2>3
    <3>1. i < at
      <4>1. ~(at <= i)
        BY <1>1, <1>4, <1>9, RowsOfATask DEF ReplayInv
      <4> QED
        BY <1>1, <4>1, RowsOfATask DEF ReplayInv
    <3>2. InIt(s, y, i)
      BY <2>1, <3>1 DEF Complete, Past
    <3> QED
      BY <3>2 DEF InIt
  <2>6. Apart(c.ticks)
    BY <1>2, <1>6, <2>1 DEF Complete
  <2>7. Held(c) = Sent(c)
    BY <2>4, <2>5
  <2> QED
    BY <2>6, <2>7
<1> QED
  <2>1. Whole(c)
    BY <1>6, <1>10, <1>11 DEF Whole
  <2>2. /\ c \in CandleSet /\ c.session = s /\ c.symbol = y
        /\ Whole(c) /\ c.minute < minute(Row(s)) /\ c.minute = b.minute
        /\ \A j \in Of(s, y) : stream[j].minute < c.minute
    BY <1>6, <1>7, <1>9, <2>1
  <2> QED
    BY <2>2 DEF c

\* The tick that finds a candle of an earlier minute: the candle is on its way.
LEMMA ClosesKeeps ==
    ASSUME ReplayInv, NEW s \in DOMAIN tasks, tasks[s].at <= Len(tasks[s].ticks), Live(s),
           tasks[s].pc \notin Closing, Take(Tick(s)), Closes(Tick(s)),
           tasks' = [tasks EXCEPT ![s].pc = "publishing",
                                  ![s].closing = to_dict(Tick(s), engine.session)],
           UNCHANGED <<builders, engine, stream>>
    PROVE  ReplayInv'
<1>a. PICK y : y = Row(s).symbol
  OBVIOUS
<1>b. PICK c : c = to_dict(Tick(s), engine.session)
  OBVIOUS
<1>d. PICK g : g = Signature(Row(s))
  OBVIOUS
<1>c. PICK v : v = [tasks[s] EXCEPT !.pc = "publishing", !.closing = c]
  OBVIOUS
<1>1. /\ c \in CandleSet /\ c.session = s /\ c.symbol = y /\ Whole(c)
      /\ c.minute < minute(Row(s)) /\ c.minute = builders[y].minute
      /\ \A j \in Of(s, y) : stream[j].minute < c.minute
  BY <1>a, <1>b, ClosedIsWhole
<1>2. tasks[s] \in TaskSet /\ Row(s) \in FileRows /\ minute(Row(s)) \in Nat
  BY RowsOfATask DEF ReplayInv
<1>3. v \in TaskSet /\ v.pc = "publishing" /\ v.closing = c /\ v.ticks = tasks[s].ticks
      /\ v.at = tasks[s].at /\ v.cancelled = tasks[s].cancelled
  BY <1>1, <1>2, <1>c DEF TaskSet, TaskPcs, Awaiting
<1>4. tasks' = [tasks EXCEPT ![s] = v]
  BY <1>2, <1>b, <1>c DEF TaskSet
<1>5. Steps(s, v)
  BY <1>3, <1>4 DEF Steps
<1>6. /\ tasks' \in Seq(TaskSet) /\ DOMAIN tasks' = DOMAIN tasks /\ tasks'[s] = v
      /\ \A r \in DOMAIN tasks : tasks'[r].ticks = tasks[r].ticks
      /\ \A r \in DOMAIN tasks : r # s => tasks'[r] = tasks[r]
  BY <1>5, OthersStay
<1>7. TasksKnown'
  <2>1. tasks[s].pc # "done"
    BY DEF Live
  <2> QED
    BY <1>3, <1>5, <2>1, TasksStayKnown
<1>8. y \in Symbols /\ Tick(s).symbol = y /\ Tick(s).time = Row(s).time /\ Row(s).time \in Nat
      /\ Signature(Tick(s)) = Signature(Row(s))
  BY <1>2, <1>a, RowsOfATask DEF ReplayInv, FileRows, Tick
<1>9. /\ last' = [last EXCEPT ![y] = Row(s).time]
      /\ recent' = [recent EXCEPT ![y] = Remember(recent[y], g)]
  BY <1>8, <1>d DEF Take, Remembers, ReplayInv, CandlesTyped
<1>e. PICK q : q = Remember(recent[y], g)
  OBVIOUS
<1>n. /\ q \in Seq(Signatures) /\ Len(q) \in DOMAIN q /\ q[Len(q)] = g
      /\ \A k \in DOMAIN q : q[k] = g \/ \E i \in DOMAIN recent[y] : q[k] = recent[y][i]
  <2>1. recent[y] \in Seq(Signatures) /\ g \in Signatures
    BY <1>8, <1>d, RowsOfATask DEF ReplayInv, CandlesTyped
  <2> QED
    BY <2>1, <1>e, Remembered
<1>10. CandlesTyped' /\ recent'[y] = q /\ \A z \in Symbols : z # y => recent'[z] = recent[z]
  BY <1>6, <1>8, <1>9, <1>e, <1>n DEF ReplayInv, CandlesTyped
<1>11. Row(s)' = Row(s) /\ minute(Row(s))' = minute(Row(s)) /\ IsAtIt(s, y)'
      /\ Signature(Row(s))' = Signature(Row(s))
  BY <1>3, <1>6, <1>a DEF Signature, Row, IsAtIt, minute, Closing
<1>12. StreamKnown'
  BY <1>6, StreamStays DEF ReplayInv
<1>13. \A z : Of(s, z)' = Of(s, z) /\ Past(s, z)' = Past(s, z) /\ Coming(s, z)' = Coming(s, z)
  BY <1>3, <1>6 DEF Of, Past, Coming
<1>14. ASSUME NEW z \in Symbols PROVE Progresses(s, z)'
  <2>1. Progresses(s, z)
    BY DEF ReplayInv, Progress
  <2>2. Made(s, z)'
    <3>2. ~IsAtIt(s, z)
      BY DEF IsAtIt
    <3> QED
      BY <1>6, <1>3, <1>13, <2>1, <3>2 DEF Progresses, Made, MadeOf, minute
  <2>3. Ahead(s, z)'
    <3>1. \A i \in Coming(s, z) : last'[z] <= tasks[s].ticks[i].time
      <4>1. CASE z = y
        <5>1. last'[y] = Row(s).time
          BY <1>8, <1>9 DEF ReplayInv, CandlesTyped
        <5> QED
          BY <4>1, <5>1, <1>a, AtATick
      <4>2. CASE z # y
        BY <1>9, <4>2, <2>1 DEF Progresses, Ahead, ReplayInv, CandlesTyped
      <4> QED
        BY <4>1, <4>2
    <3> QED
      BY <1>3, <1>6, <1>13, <2>1, <3>1 DEF Progresses, Ahead, minute
  <2>4. Complete(s, z)'
    <3>1. Complete(s, z)
      BY <2>1 DEF Progresses
    <3>2. \A i : InIt(s, z, i) => InIt(s, z, i)'
      BY <1>3, <1>6 DEF InIt, minute, Held
    <3>3. \A k \in DOMAIN recent'[z] : \A x : x = recent'[z][k] => Seen(s, z, x)'
      <4>1. \A x : Seen(s, z, x) => Seen(s, z, x)'
        BY <1>3, <1>6 DEF Seen, Signature
      <4>2. z = y => Seen(s, z, g)'
        <5>1. tasks[s].at \in DOMAIN tasks[s].ticks
          BY RowsOfATask DEF ReplayInv
        <5>2. v.pc \in Closing
          BY <1>3 DEF Closing
        <5> QED
          BY <1>3, <1>6, <1>a, <1>d, <5>1, <5>2 DEF Seen, Row, Signature
      <4>3. CASE z = y
        <5>1. \A k \in DOMAIN q : \A x : x = q[k] => Seen(s, y, x)'
          BY <1>n, <3>1, <4>1, <4>2, <4>3 DEF Complete
        <5>2. recent'[z] = q
          BY <1>10, <4>3
        <5> QED
          BY <4>3, <5>1, <5>2
      <4>4. CASE z # y
        <5>1. recent'[z] = recent[z]
          BY <1>10, <4>4
        <5>2. \A k \in DOMAIN recent[z] : \A x : x = recent[z][k] => Seen(s, z, x)'
          BY <3>1, <4>1 DEF Complete
        <5> QED
          BY <5>1, <5>2
      <4> QED
        BY <4>3, <4>4
    <3>4. ASSUME builders'[z] # NoCandle, ~IsAtIt(s, z)' PROVE EndsAs(builders[z].ticks, recent[z])'
      <4>1. z # y /\ ~IsAtIt(s, z)
        BY <1>11, <3>4 DEF IsAtIt
      <4>2. recent'[z] = recent[z]
        BY <1>10, <4>1
      <4> QED
        BY <3>1, <3>4, <4>1, <4>2 DEF Complete, EndsAs, Signature
    <3>5. builders'[z] # NoCandle => Apart(builders[z].ticks)'
      BY <3>1 DEF Complete, Apart, Signature
    <3>6. \A i \in Past(s, z)' : InIt(s, z, i)'
      BY <1>13, <3>1, <3>2 DEF Complete
    <3>7. (\A k \in DOMAIN recent[z] : Seen(s, z, recent[z][k]))'
      BY <3>3 DEF Seen, Signature
    <3> QED
      BY <3>4, <3>5, <3>6, <3>7 DEF Complete
  <2> QED
    BY <2>2, <2>3, <2>4 DEF Progresses
<1>15. Progress'
  <2> SUFFICES ASSUME NEW r \in DOMAIN tasks, Live(r)' PROVE \A z \in Symbols : Progresses(r, z)'
    BY <1>6 DEF Progress
  <2> QED
    BY <1>5, <1>7, <1>14, OthersKeep, NothingOutAtAll
<1>16. ClosingIs(s, c, y)'
  <2>1. Whole(c)'
    <3>1. tasks'[c.session].ticks = tasks[c.session].ticks
      BY <1>1, <1>5, <1>6 DEF Steps
    <3> QED
      BY <1>1, <3>1, WholeStays
  <2>2. Len(recent[y])' \in DOMAIN recent'[y] /\ recent'[y][Len(recent[y])'] = Signature(Row(s))
    BY <1>10, <1>n, <1>d
  <2>3. builders'[y] # NoCandle
    BY <1>8, <1>a DEF Closes
  <2> QED
    BY <1>1, <1>11, <1>13, <2>1, <2>2, <2>3 DEF ClosingIs
<1>17. ClosingKnown'
  <2> SUFFICES ASSUME NEW r \in DOMAIN tasks, tasks'[r].pc \in Closing
               PROVE  ClosingIs(r, tasks[r].closing, Row(r).symbol)'
    BY <1>6 DEF ClosingKnown
  <2>1. CASE r = s
    <3>1. tasks'[s].closing = c /\ Row(s)'.symbol = y
      BY <1>3, <1>6, <1>11, <1>a
    <3> QED
      BY <1>16, <2>1, <3>1 DEF ClosingIs
  <2>2. CASE r # s
    <3>1. ClosingIs(r, tasks[r].closing, Row(r).symbol)'
      BY <1>5, <1>7, <2>2, OthersKeep, NothingOutAtAll
    <3> QED
      BY <3>1
  <2> QED
    BY <2>1, <2>2
<1> QED
  BY <1>7, <1>10, <1>12, <1>15, <1>17 DEF ReplayInv

\* The loop goes on to the next row.
Onward(s) ==
    /\ s \in DOMAIN tasks /\ tasks[s].at <= Len(tasks[s].ticks) /\ Live(s) /\ Advances(s)
    /\ UNCHANGED <<engine, stream>>

\* What is past, and what is to come, when the loop goes on.
LEMMA RowsOnward ==
    ASSUME ReplayInv, NEW s, Onward(s)
    PROVE  LET v == [tasks[s] EXCEPT !.at = @ + 1, !.pc = "next"]
           IN  /\ Steps(s, v) /\ tasks' = [tasks EXCEPT ![s] = v] /\ tasks'[s] = v
               /\ DOMAIN tasks' = DOMAIN tasks
               /\ v.pc = "next" /\ v.at = tasks[s].at + 1 /\ v.ticks = tasks[s].ticks
               /\ v.cancelled = tasks[s].cancelled
               /\ TasksKnown'
               /\ \A y : /\ Of(s, y)' = Of(s, y) /\ ~IsAtIt(s, y)'
                         /\ Past(s, y)' = Past(s, y) \cup {i \in {tasks[s].at} : Row(s).symbol = y}
                         /\ Coming(s, y)' = Coming(s, y) \ {tasks[s].at}
<1>1. tasks[s] \in TaskSet /\ tasks[s].at \in DOMAIN tasks[s].ticks
      /\ \A i \in DOMAIN tasks[s].ticks : i \in Nat
  BY RowsOfATask DEF ReplayInv, Onward
<1>2. PICK v : v = [tasks[s] EXCEPT !.at = @ + 1, !.pc = "next"]
  OBVIOUS
<1>3. /\ v \in TaskSet /\ v.pc = "next" /\ v.at = tasks[s].at + 1 /\ v.ticks = tasks[s].ticks
      /\ v.cancelled = tasks[s].cancelled /\ tasks[s].at \in Nat
  <2>1. tasks[s].at \in Nat /\ tasks[s].at + 1 \in Nat \ {0} /\ "next" \in TaskPcs
    BY <1>1 DEF TaskSet, TaskPcs
  <2> QED
    BY <1>1, <1>2, <2>1 DEF TaskSet
<1>4. tasks' = [tasks EXCEPT ![s] = v]
  BY <1>1, <1>2 DEF TaskSet, Onward, Advances
<1>5. Steps(s, v)
  BY <1>3, <1>4 DEF Steps, Onward
<1>6. tasks'[s] = v /\ DOMAIN tasks' = DOMAIN tasks
  BY <1>5, OthersStay
<1>7. TasksKnown'
  <2>1. tasks[s].pc # "done" /\ ~v.cancelled /\ v.pc \notin AtTick
    BY <1>3 DEF Onward, Live, AtTick, Closing
  <2> QED
    BY <1>5, <2>1, TasksStayKnown
<1>8. ASSUME NEW y
      PROVE /\ Of(s, y)' = Of(s, y) /\ ~IsAtIt(s, y)'
            /\ Past(s, y)' = Past(s, y) \cup {i \in {tasks[s].at} : Row(s).symbol = y}
            /\ Coming(s, y)' = Coming(s, y) \ {tasks[s].at}
  <2>1. Of(s, y)' = Of(s, y)
    BY DEF Of, Onward
  <2>2. ~IsAtIt(s, y)'
    BY <1>3, <1>6 DEF IsAtIt, Closing
  <2>3. Past(s, y)' = Past(s, y) \cup {i \in {tasks[s].at} : Row(s).symbol = y}
    <3>1. \A i \in DOMAIN tasks[s].ticks :
             i < tasks[s].at + 1 <=> (i < tasks[s].at \/ i = tasks[s].at)
      BY <1>1, <1>3
    <3> QED
      BY <1>1, <1>3, <1>6, <3>1 DEF Past, Row
  <2>4. Coming(s, y)' = Coming(s, y) \ {tasks[s].at}
    <3>1. \A i \in DOMAIN tasks[s].ticks :
             i >= tasks[s].at + 1 <=> (i >= tasks[s].at /\ i # tasks[s].at)
      BY <1>1, <1>3
    <3> QED
      BY <1>3, <1>6, <3>1 DEF Coming
  <2> QED
    BY <2>1, <2>2, <2>3, <2>4
<1>9. /\ Steps(s, v) /\ tasks' = [tasks EXCEPT ![s] = v] /\ tasks'[s] = v
      /\ DOMAIN tasks' = DOMAIN tasks
      /\ v.pc = "next" /\ v.at = tasks[s].at + 1 /\ v.ticks = tasks[s].ticks
      /\ v.cancelled = tasks[s].cancelled
      /\ TasksKnown'
  BY <1>3, <1>4, <1>5, <1>6, <1>7
<1> QED
  BY <1>2, <1>8, <1>9

\* What is known of the other symbols is kept, and so is the rest.
LEMMA OnwardKeeps ==
    ASSUME ReplayInv, NEW s, Onward(s), CandlesTyped',
           NEW y, y = Row(s).symbol, Progresses(s, y)',
           \A z \in Symbols : z # y =>
               builders'[z] = builders[z] /\ last'[z] = last[z] /\ recent'[z] = recent[z]
    PROVE  ReplayInv'
<1>1. PICK v : v = [tasks[s] EXCEPT !.at = @ + 1, !.pc = "next"]
  OBVIOUS
<1>2. /\ Steps(s, v) /\ tasks'[s] = v /\ DOMAIN tasks' = DOMAIN tasks
      /\ v.pc = "next" /\ v.at = tasks[s].at + 1 /\ v.ticks = tasks[s].ticks
      /\ TasksKnown' /\ Live(s)
      /\ \A z : /\ Of(s, z)' = Of(s, z) /\ ~IsAtIt(s, z)'
                /\ Past(s, z)' = Past(s, z) \cup {i \in {tasks[s].at} : Row(s).symbol = z}
                /\ Coming(s, z)' = Coming(s, z) \ {tasks[s].at}
  BY <1>1, RowsOnward DEF Onward
<1>3. tasks[s].at \in Nat /\ \A i \in DOMAIN tasks[s].ticks : i \in Nat
  BY <1>2, RowsOfATask DEF ReplayInv, TaskSet, Steps
<1>4. \A r \in DOMAIN tasks : r \in DOMAIN tasks' /\ tasks'[r].ticks = tasks[r].ticks
  BY <1>2, OthersStay
<1>5. UNCHANGED stream
  BY DEF Onward
<1>6. StreamKnown'
  <2>1. StreamKnown
    BY DEF ReplayInv
  <2> QED
    BY <1>4, <1>5, <2>1, StreamStays
<1>7. ASSUME NEW z \in Symbols, z # y PROVE Progresses(s, z)'
  <2>1. Progresses(s, z) /\ ~IsAtIt(s, z)
    BY <1>2, <1>7 DEF ReplayInv, Progress, Steps, IsAtIt
  <2>2. Past(s, z)' = Past(s, z) /\ Of(s, z)' = Of(s, z) /\ Coming(s, z)' \subseteq Coming(s, z)
        /\ ~IsAtIt(s, z)'
    BY <1>2, <1>7
  <2>3. builders'[z] = builders[z] /\ last'[z] = last[z] /\ recent'[z] = recent[z]
    BY <1>7
  <2>4. Made(s, z)'
    BY <1>2, <1>5, <2>1, <2>2, <2>3 DEF Progresses, Made, MadeOf, minute
  <2>5. Ahead(s, z)'
    BY <1>2, <1>5, <2>1, <2>2, <2>3 DEF Progresses, Ahead, minute
  <2>6. Complete(s, z)'
    <3>1. Complete(s, z)
      BY <2>1 DEF Progresses
    <3>2. \A i : InIt(s, z, i) => InIt(s, z, i)'
      BY <1>2, <2>3 DEF InIt, minute, Held
    <3>3. \A x : Seen(s, z, x) => Seen(s, z, x)'
      BY <1>2, <1>3 DEF Seen, Signature
    <3> QED
      BY <2>1, <2>2, <2>3, <3>1, <3>2, <3>3 DEF Complete, Apart, EndsAs, Signature
  <2> QED
    BY <2>4, <2>5, <2>6 DEF Progresses
<1>8. Progress'
  <2> SUFFICES ASSUME NEW r \in DOMAIN tasks, Live(r)' PROVE \A z \in Symbols : Progresses(r, z)'
    BY <1>2 DEF Progress
  <2>1. CASE r = s
    BY <1>7, <2>1
  <2>2. CASE r # s
    BY <1>2, <1>5, <2>2, OthersKeep, NothingOutAtAll
  <2> QED
    BY <2>1, <2>2
<1>9. ClosingKnown'
  <2> SUFFICES ASSUME NEW r \in DOMAIN tasks, tasks'[r].pc \in Closing
               PROVE  ClosingIs(r, tasks[r].closing, Row(r).symbol)'
    BY <1>2 DEF ClosingKnown
  <2>1. r # s
    BY <1>2 DEF Closing
  <2> QED
    BY <1>2, <1>5, <2>1, OthersKeep, NothingOutAtAll
<1> QED
  BY <1>2, <1>6, <1>8, <1>9 DEF ReplayInv

\* The typed part of a step of the loop that goes on.
LEMMA OnwardTyped ==
    ASSUME ReplayInv, NEW s, Onward(s), builders' \in [Symbols -> Building \cup {NoCandle}],
           last' \in [Symbols -> Nat], recent' \in [Symbols -> Seq(Signatures)]
    PROVE  CandlesTyped'
<1>1. PICK v : Steps(s, v)
  BY RowsOnward
<1>2. tasks' \in Seq(TaskSet)
  BY <1>1, OthersStay
<1> QED
  BY <1>2 DEF ReplayInv, CandlesTyped, Onward

\* What was published is candles, and their minutes are numbers.
LEMMA PublishedTyped ==
    ASSUME ReplayInv
    PROVE  \A j \in DOMAIN stream : stream[j] \in CandleSet /\ stream[j].minute \in Nat
<1>1. DOMAIN stream = 1..Len(stream)
  BY DEF ReplayInv, CandlesTyped
<1>2. \A j \in DOMAIN stream : stream[j] \in CandleSet
  BY <1>1 DEF ReplayInv, CandlesTyped
<1> QED
  BY <1>2 DEF CandleSet

\* A tick that was seen already changes nothing the rest can tell.
LEMMA DropKeeps ==
    ASSUME ReplayInv, NEW s, Onward(s), Drop(Tick(s)), tasks[s].pc \notin Closing
    PROVE  ReplayInv'
<1>a. PICK y : y = Row(s).symbol
  OBVIOUS
<1>b. PICK g : g = Signature(Row(s))
  OBVIOUS
<1>c. PICK v : v = [tasks[s] EXCEPT !.at = @ + 1, !.pc = "next"]
  OBVIOUS
<1>1. s \in DOMAIN tasks /\ tasks[s].at <= Len(tasks[s].ticks) /\ Live(s)
      /\ UNCHANGED stream
  BY DEF Onward
<1>2. y \in Symbols /\ ~OutOfOrder(Tick(s))
  BY <1>1, <1>a, AtATick
<1>3. Tick(s).symbol = y /\ Signature(Tick(s)) = g /\ Row(s) \in FileRows
      /\ Row(s) = tasks[s].ticks[tasks[s].at] /\ tasks[s].at \in DOMAIN tasks[s].ticks
  BY <1>1, <1>a, <1>b, RowsOfATask DEF ReplayInv, Row
<1>4. (\E k \in DOMAIN recent[y] : recent[y][k] = g) /\ UNCHANGED <<builders, last, recent>>
  BY <1>2, <1>3 DEF Drop, Duplicate
<1>5. CandlesTyped'
  BY <1>4, OnwardTyped DEF ReplayInv, CandlesTyped
<1>6. /\ tasks'[s] = v /\ v.pc = "next" /\ v.at = tasks[s].at + 1 /\ v.ticks = tasks[s].ticks
      /\ \A z : /\ Of(s, z)' = Of(s, z) /\ ~IsAtIt(s, z)'
                /\ Past(s, z)' = Past(s, z) \cup {i \in {tasks[s].at} : Row(s).symbol = z}
                /\ Coming(s, z)' = Coming(s, z) \ {tasks[s].at}
  BY <1>c, RowsOnward
<1>7. Progresses(s, y) /\ ~IsAtIt(s, y)
  BY <1>1, <1>2 DEF ReplayInv, Progress, IsAtIt
<1>8. Made(s, y)'
  BY <1>1, <1>2, <1>4, <1>6, <1>7 DEF Progresses, Made, MadeOf, minute
<1>9. Ahead(s, y)'
  BY <1>1, <1>4, <1>6, <1>7 DEF Progresses, Ahead, minute
<1>10. Complete(s, y)'
  <2>1. Complete(s, y)
    BY <1>7 DEF Progresses
  <2>2. \A i : InIt(s, y, i) => InIt(s, y, i)'
    BY <1>4, <1>6 DEF InIt, minute, Held
  <2>3. InIt(s, y, tasks[s].at)
    <3>1. PICK i \in DOMAIN tasks[s].ticks :
             tasks[s].ticks[i].symbol = y /\ g = Signature(tasks[s].ticks[i]) /\ i < tasks[s].at
      BY <1>4, <2>1 DEF Complete, Seen
    <3>2. tasks[s].ticks[i] \in FileRows
      BY <1>1, RowsOfATask DEF ReplayInv
    <3>3. tasks[s].ticks[i].time = Row(s).time /\ tasks[s].ticks[i].deal = Row(s).deal
      BY <1>b, <3>1 DEF Signature
    <3>4. tasks[s].ticks[i] = Row(s)
      BY <1>a, <1>3, <3>1, <3>2, <3>3 DEF FileRows
    <3>5. InIt(s, y, i)
      BY <2>1, <3>1 DEF Complete, Past
    <3> QED
      BY <1>3, <3>4, <3>5 DEF InIt
  <2>4. \A i \in Past(s, y)' : InIt(s, y, i)
    BY <1>6, <2>1, <2>3 DEF Complete
  <2>5. \A x : Seen(s, y, x) => Seen(s, y, x)'
    <3>1. tasks[s].at \in Nat /\ \A i \in DOMAIN tasks[s].ticks : i \in Nat
      BY <1>1, RowsOfATask DEF ReplayInv, TaskSet
    <3> QED
      BY <1>6, <3>1 DEF Seen, Signature
  <2> QED
    BY <1>4, <1>7, <2>1, <2>2, <2>4, <2>5 DEF Complete, Apart, EndsAs, Signature
<1>11. Progresses(s, y)'
  BY <1>8, <1>9, <1>10 DEF Progresses
<1> QED
  BY <1>a, <1>4, <1>5, <1>11, OnwardKeeps

\* A tick is added to the candle in progress, or begins the first.
LEMMA AddKeeps ==
    ASSUME ReplayInv, NEW s, Onward(s), Take(Tick(s)), AddTick(Tick(s)),
           tasks[s].pc \notin Closing
    PROVE  ReplayInv'
<1>a. PICK y : y = Row(s).symbol
  OBVIOUS
<1>b. PICK g : g = Signature(Row(s))
  OBVIOUS
<1>c. PICK v : v = [tasks[s] EXCEPT !.at = @ + 1, !.pc = "next"]
  OBVIOUS
<1>d. PICK t : t = Tick(s)
  OBVIOUS
<1>h. PICK a : a = tasks[s].at
  OBVIOUS
<1>e. PICK b : b = builders[y]
  OBVIOUS
<1>f. PICK n : n = (IF b = NoCandle THEN Started(t) ELSE Added(b, t))
  OBVIOUS
<1>1. s \in DOMAIN tasks /\ tasks[s].at <= Len(tasks[s].ticks) /\ Live(s)
      /\ UNCHANGED stream /\ s \in Nat
  BY RowsOfATask DEF Onward, ReplayInv
<1>2. /\ y \in Symbols /\ a \in Coming(s, y)
      /\ \A j \in Of(s, y) : stream[j].minute < minute(Row(s))
      /\ \A i \in Coming(s, y) : Row(s).time <= tasks[s].ticks[i].time
  BY <1>1, <1>a, <1>h, AtATick
<1>3. t.symbol = y /\ t.time = Row(s).time /\ Signature(t) = g /\ Row(s) \in FileRows
      /\ minute(t) = minute(Row(s)) /\ minute(t) \in Nat /\ t \in Ticks /\ Bare(t) = Row(s)
      /\ t.session = s
      /\ Row(s) = tasks[s].ticks[a] /\ a \in DOMAIN tasks[s].ticks /\ a \in Nat
  BY <1>1, <1>a, <1>b, <1>d, <1>h, RowsOfATask DEF ReplayInv, Row, Tick
<1>4. Row(s).time \in Nat
  BY <1>3 DEF FileRows
<1>q. PICK q : q = Remember(recent[y], g)
  OBVIOUS
<1>5. /\ last' = [last EXCEPT ![y] = Row(s).time]
      /\ recent' = [recent EXCEPT ![y] = q]
      /\ \A k \in DOMAIN recent[y] : recent[y][k] # g
  BY <1>3, <1>d, <1>q DEF Take, Duplicate, Remembers
<1>6. builders' = [builders EXCEPT ![y] = n] /\ (b # NoCandle => b.minute = minute(t))
  BY <1>3, <1>d, <1>e, <1>f DEF AddTick, Closes
<1>7. /\ b # NoCandle => b \in Building
      /\ builders \in [Symbols -> Building \cup {NoCandle}]
      /\ recent \in [Symbols -> Seq(Signatures)] /\ last \in [Symbols -> Nat]
  BY <1>2, <1>e DEF ReplayInv, CandlesTyped
<1>r. /\ q \in Seq(Signatures) /\ recent[y] \in Seq(Signatures) /\ g \in Signatures
      /\ Len(q) \in DOMAIN q /\ q[Len(q)] = g
      /\ \A k \in DOMAIN q : q[k] = g \/ \E i \in DOMAIN recent[y] : q[k] = recent[y][i]
  <2>1. recent[y] \in Seq(Signatures) /\ g \in Signatures
    BY <1>1, <1>2, <1>7, <1>b, RowsOfATask DEF ReplayInv
  <2> QED
    BY <2>1, <1>q, Remembered
<1>g. PICK o : o = (IF b = NoCandle THEN 0 ELSE Len(b.ticks))
  OBVIOUS
<1>8. /\ n \in Building /\ n.minute = minute(t) /\ o \in Nat
      /\ DOMAIN n.ticks = 1..(o + 1) /\ n.ticks[o + 1] = t
      /\ b # NoCandle => DOMAIN b.ticks = 1..o
      /\ \A k \in 1..o : b # NoCandle /\ n.ticks[k] = b.ticks[k]
  <2>1. CASE b = NoCandle
    <3>1. n = [minute |-> minute(t), ticks |-> <<t>>] /\ o = 0
      BY <1>f, <1>g, <2>1 DEF Started
    <3> QED
      BY <1>3, <2>1, <3>1 DEF Building
  <2>2. CASE b # NoCandle
    <3>1. b \in Building /\ n = [b EXCEPT !.ticks = Append(b.ticks, t)] /\ o = Len(b.ticks)
      BY <1>7, <1>f, <1>g, <2>2 DEF Added
    <3>2. b.ticks \in Seq(Ticks)
      BY <3>1 DEF Building
    <3>3. n.ticks = Append(b.ticks, t) /\ n.minute = b.minute /\ n \in Building
      <4>1. Append(b.ticks, t) \in Seq(Ticks)
        BY <1>3, <3>2
      <4> QED
        BY <3>1, <4>1 DEF Building
    <3> QED
      BY <1>3, <1>6, <2>2, <3>1, <3>2, <3>3
  <2> QED
    BY <2>1, <2>2
<1>9. n # NoCandle /\ n.ticks # <<>>
  BY <1>8, ReplayAssumption
<1>10. builders'[y] = n /\ last'[y] = Row(s).time /\ recent'[y] = q
       /\ \A z \in Symbols : z # y =>
             builders'[z] = builders[z] /\ last'[z] = last[z] /\ recent'[z] = recent[z]
  BY <1>2, <1>5, <1>6, <1>7
<1>11. CandlesTyped'
  <2>1. builders' \in [Symbols -> Building \cup {NoCandle}]
    BY <1>6, <1>7, <1>8
  <2>2. last' \in [Symbols -> Nat] /\ recent' \in [Symbols -> Seq(Signatures)]
    BY <1>4, <1>5, <1>7, <1>r
  <2> QED
    BY <2>1, <2>2, OnwardTyped
<1>12. /\ tasks'[s] = v /\ v.pc = "next" /\ v.at = a + 1 /\ v.ticks = tasks[s].ticks
       /\ Of(s, y)' = Of(s, y)
       /\ Past(s, y)' = Past(s, y) \cup {a}
       /\ Coming(s, y)' \subseteq Coming(s, y)
  <2>1. /\ tasks'[s] = v /\ v.pc = "next" /\ v.at = tasks[s].at + 1 /\ v.ticks = tasks[s].ticks
        /\ \A z : /\ Of(s, z)' = Of(s, z) /\ ~IsAtIt(s, z)'
                  /\ Past(s, z)' = Past(s, z) \cup {i \in {tasks[s].at} : Row(s).symbol = z}
                  /\ Coming(s, z)' = Coming(s, z) \ {tasks[s].at}
    BY <1>c, RowsOnward
  <2> QED
    BY <1>a, <1>h, <2>1
<1>13. Progresses(s, y)
  BY <1>1, <1>2 DEF ReplayInv, Progress
<1>14. Made(s, y)'
  <2>1. ASSUME NEW k \in 1..(o + 1) PROVE MadeOf(s, y, n.ticks[k], minute(t))'
    <3>1. CASE k = o + 1
      <4>1. \E i \in Past(s, y)' : tasks[s].ticks[i] = Bare(t)
        BY <1>3, <1>12
      <4> QED
        BY <1>3, <1>8, <1>12, <3>1, <4>1 DEF MadeOf, minute, Bare
    <3>2. CASE k # o + 1
      <4>1. k \in 1..o
        BY <1>8, <3>2
      <4>2. b # NoCandle /\ n.ticks[k] = b.ticks[k] /\ k \in DOMAIN b.ticks /\ b.minute = minute(t)
        BY <1>6, <1>8, <4>1
      <4>3. MadeOf(s, y, n.ticks[k], minute(t))
        BY <1>13, <1>e, <4>2 DEF Progresses, Made
      <4> QED
        BY <1>12, <4>3 DEF MadeOf, minute, Bare
    <3> QED
      BY <3>1, <3>2
  <2>2. \A j \in Of(s, y) : stream[j].minute < minute(t)
    BY <1>2, <1>3
  <2>3. \A j \in Of(s, y) : stream[j].minute <= minute(t)
    <3>1. ASSUME NEW j \in Of(s, y) PROVE stream[j].minute \in Nat
      BY PublishedTyped DEF Of
    <3> QED
      BY <1>3, <2>2, <3>1
  <2> QED
    BY <1>1, <1>8, <1>9, <1>10, <1>12, <2>1, <2>2, <2>3 DEF Made, minute
<1>15. Ahead(s, y)'
  BY <1>1, <1>2, <1>10, <1>12, <1>13 DEF Progresses, Ahead, minute
<1>16. Complete(s, y)'
  <2>1. Complete(s, y)
    BY <1>13 DEF Progresses
  <2>2. /\ t \in {n.ticks[k] : k \in DOMAIN n.ticks}
        /\ b # NoCandle => Held(b) \subseteq Held(n)
    <3>1. o + 1 \in 1..(o + 1) /\ 1..o \subseteq 1..(o + 1)
      BY <1>8
    <3> QED
      BY <1>8, <3>1 DEF Held
  <2>3. Row(s) \in Held(n)
    BY <1>3, <2>2 DEF Held, Bare
  <2>4. InIt(s, y, a)'
    BY <1>3, <1>8, <1>9, <1>10, <1>12, <2>3 DEF InIt, minute, Held
  <2>5. ASSUME NEW i \in Past(s, y) PROVE InIt(s, y, i)'
    <3>1. InIt(s, y, i)
      BY <2>1 DEF Complete
    <3> QED
      BY <1>6, <1>8, <1>9, <1>10, <1>12, <1>e, <2>2, <3>1 DEF InIt, minute
  <2>6. \A x : Seen(s, y, x) => Seen(s, y, x)'
    <3>1. tasks[s].at \in Nat /\ \A i \in DOMAIN tasks[s].ticks : i \in Nat
      BY <1>1, RowsOfATask DEF ReplayInv, TaskSet
    <3> QED
      BY <1>12, <1>h, <3>1 DEF Seen, Signature
  <2>7. Seen(s, y, g)'
    <3>1. a < v.at /\ tasks[s].ticks[a].symbol = y /\ g = Signature(tasks[s].ticks[a])
      BY <1>3, <1>12, <1>a, <1>b
    <3> QED
      BY <1>3, <1>12, <3>1 DEF Seen, Signature
  <2>8. \A k \in DOMAIN q : Seen(s, y, q[k])'
    BY <1>r, <2>1, <2>6, <2>7 DEF Complete
  <2>9. Apart(n.ticks) /\ EndsAs(n.ticks, q)
    <3>1. CASE b = NoCandle
      <4>1. n.ticks = <<t>>
        BY <1>f, <3>1 DEF Started
      <4> QED
        BY <1>3, <1>r, <4>1, EndsAsBegun
    <3>2. CASE b # NoCandle
      <4>1. n.ticks = Append(b.ticks, t) /\ b.ticks \in Seq(Ticks)
        BY <1>7, <1>f, <3>2 DEF Added, Building
      <4>2. Apart(b.ticks) /\ EndsAs(b.ticks, recent[y])
        BY <1>e, <2>1, <3>2 DEF Complete, IsAtIt
      <4> QED
        BY <1>3, <1>5, <1>q, <1>r, <4>1, <4>2, EndsAsAdded
    <3> QED
      BY <3>1, <3>2
  <2>10. \A k \in DOMAIN recent'[y] : Seen(s, y, recent[y][k])'
    BY <1>10, <2>8 DEF Seen, Signature
  <2>11. Apart(builders[y].ticks)' /\ EndsAs(builders[y].ticks, recent[y])'
    BY <1>10, <2>9 DEF Apart, EndsAs, Signature
  <2>12. \A i \in Past(s, y)' : InIt(s, y, i)'
    BY <1>12, <2>4, <2>5
  <2> QED
    BY <2>10, <2>11, <2>12 DEF Complete
<1>17. Progresses(s, y)'
  BY <1>14, <1>15, <1>16 DEF Progresses
<1> QED
  BY <1>a, <1>10, <1>11, <1>17, OnwardKeeps

\* The candle of the minute before is out, or lost; the tick that closed it begins the next.
LEMMA ContinuesKeeps ==
    ASSUME ReplayInv, NEW s, Onward(s), tasks[s].pc = "published", NextMinute(Tick(s))
    PROVE  ReplayInv'
<1>a. PICK y : y = Row(s).symbol
  OBVIOUS
<1>c. PICK v : v = [tasks[s] EXCEPT !.at = @ + 1, !.pc = "next"]
  OBVIOUS
<1>d. PICK t : t = Tick(s)
  OBVIOUS
<1>h. PICK a : a = tasks[s].at
  OBVIOUS
<1>f. PICK n : n = Started(t)
  OBVIOUS
<1>1. s \in DOMAIN tasks /\ tasks[s].at <= Len(tasks[s].ticks) /\ Live(s)
      /\ UNCHANGED stream /\ tasks[s].at \in Nat /\ \A i \in DOMAIN tasks[s].ticks : i \in Nat
  BY RowsOfATask DEF Onward, ReplayInv, TaskSet
<1>2. /\ y \in Symbols
      /\ \A j \in Of(s, y) : stream[j].minute < minute(Row(s))
  BY <1>1, <1>a, <1>h, AtATick
<1>3. t.symbol = y /\ Signature(t) = Signature(Row(s))
      /\ minute(t) = minute(Row(s)) /\ minute(t) \in Nat /\ t \in Ticks /\ Bare(t) = Row(s)
      /\ t.session = s
      /\ Row(s) = tasks[s].ticks[a] /\ a \in DOMAIN tasks[s].ticks /\ a \in Nat
  BY <1>1, <1>a, <1>d, <1>h, RowsOfATask DEF ReplayInv, Row, Tick
<1>4. n = [minute |-> minute(t), ticks |-> <<t>>]
  BY <1>f DEF Started
<1>5. n \in Building /\ n.minute = minute(t) /\ n.ticks = <<t>> /\ n.ticks # <<>>
      /\ DOMAIN n.ticks = {1} /\ n.ticks[1] = t
  BY <1>3, <1>4 DEF Building
<1>6. n # NoCandle
  BY <1>5, ReplayAssumption
<1>7. builders' = [builders EXCEPT ![y] = n] /\ last' = last /\ recent' = recent
  BY <1>3, <1>d, <1>f DEF NextMinute
<1>8. /\ builders \in [Symbols -> Building \cup {NoCandle}]
      /\ recent \in [Symbols -> Seq(Signatures)] /\ last \in [Symbols -> Nat]
  BY DEF ReplayInv, CandlesTyped
<1>9. builders'[y] = n /\ \A z \in Symbols : z # y => builders'[z] = builders[z]
  BY <1>2, <1>7, <1>8
<1>10. CandlesTyped'
  BY <1>5, <1>7, <1>8, OnwardTyped
<1>11. /\ tasks'[s] = v /\ v.pc = "next" /\ v.at = a + 1 /\ v.ticks = tasks[s].ticks
       /\ Of(s, y)' = Of(s, y)
       /\ Past(s, y)' = Past(s, y) \cup {a}
       /\ Coming(s, y)' \subseteq Coming(s, y)
  <2>1. /\ tasks'[s] = v /\ v.pc = "next" /\ v.at = tasks[s].at + 1 /\ v.ticks = tasks[s].ticks
        /\ \A z : /\ Of(s, z)' = Of(s, z) /\ ~IsAtIt(s, z)'
                  /\ Past(s, z)' = Past(s, z) \cup {i \in {tasks[s].at} : Row(s).symbol = z}
                  /\ Coming(s, z)' = Coming(s, z) \ {tasks[s].at}
    BY <1>c, RowsOnward
  <2> QED
    BY <1>a, <1>h, <2>1
<1>12. Progresses(s, y)
  BY <1>1, <1>2 DEF ReplayInv, Progress
<1>13. Made(s, y)'
  <2>1. MadeOf(s, y, t, minute(t))'
    BY <1>3, <1>11 DEF MadeOf, minute, Bare
  <2>2. \A j \in Of(s, y) : stream[j].minute < minute(t) /\ stream[j].minute <= minute(t)
    <3>1. ASSUME NEW j \in Of(s, y) PROVE stream[j].minute \in Nat
      BY PublishedTyped DEF Of
    <3> QED
      BY <1>2, <1>3, <3>1
  <2> QED
    BY <1>1, <1>5, <1>6, <1>9, <1>11, <2>1, <2>2 DEF Made, minute
<1>14. Ahead(s, y)'
  BY <1>1, <1>7, <1>11, <1>12 DEF Progresses, Ahead, minute
<1>15. Complete(s, y)'
  <2>1. Complete(s, y) /\ ClosingIs(s, tasks[s].closing, y)
    BY <1>1, <1>12, <1>a DEF Progresses, ReplayInv, ClosingKnown, Closing
  <2>2. builders[y] # NoCandle /\ builders[y].minute < minute(t) /\ builders[y].minute \in Nat
        /\ Len(recent[y]) \in DOMAIN recent[y] /\ recent[y][Len(recent[y])] = Signature(t)
    BY <1>1, <1>2, <1>3, <1>8, <2>1 DEF ClosingIs, Building
  <2>3. InIt(s, y, a)'
    BY <1>3, <1>5, <1>6, <1>9, <1>11 DEF InIt, minute, Held, Bare
  <2>4. ASSUME NEW i \in Past(s, y) PROVE InIt(s, y, i)'
    <3>1. InIt(s, y, i) /\ i \in DOMAIN tasks[s].ticks
      BY <2>1 DEF Complete, Past
    <3>2. minute(tasks[s].ticks[i]) \in Nat
      BY <1>1, <3>1, RowsOfATask DEF ReplayInv
    <3>3. minute(tasks[s].ticks[i]) < minute(t)
      BY <1>3, <2>2, <3>1, <3>2 DEF InIt
    <3> QED
      BY <1>3, <1>5, <1>6, <1>9, <1>11, <3>2, <3>3 DEF InIt, minute
  <2>5. \A x : Seen(s, y, x) => Seen(s, y, x)'
    BY <1>1, <1>11, <1>h DEF Seen, Signature
  <2> QED
    <3>1. Apart(n.ticks) /\ EndsAs(n.ticks, recent[y])
      BY <1>2, <1>5, <1>8, <2>2, EndsAsBegun
    <3>2. Apart(builders[y].ticks)' /\ EndsAs(builders[y].ticks, recent[y])'
      BY <1>7, <1>9, <3>1 DEF Apart, EndsAs, Signature
    <3>3. \A k \in DOMAIN recent'[y] : Seen(s, y, recent[y][k])'
      BY <1>7, <2>1, <2>5 DEF Complete
    <3>4. \A i \in Past(s, y)' : InIt(s, y, i)'
      BY <1>11, <2>3, <2>4
    <3> QED
      BY <3>2, <3>3, <3>4 DEF Complete
<1>16. Progresses(s, y)'
  BY <1>13, <1>14, <1>15 DEF Progresses
<1> QED
  BY <1>a, <1>7, <1>9, <1>10, <1>16, OnwardKeeps

\* The candle is out, or will be sent again all the same.
LEMMA PublishKeeps ==
    ASSUME ReplayInv, NEW s \in DOMAIN tasks, tasks[s].pc = "publishing", NEW pc \in Closing,
           stream' = Append(stream, tasks[s].closing), Goes(s, pc),
           UNCHANGED <<engine, aggregatorVars>>
    PROVE  ReplayInv'
<1>a. PICK y : y = Row(s).symbol
  OBVIOUS
<1>b. PICK c : c = tasks[s].closing
  OBVIOUS
<1>c. PICK n : n = Len(stream) + 1
  OBVIOUS
<1>d. PICK v : v = [tasks[s] EXCEPT !.pc = pc]
  OBVIOUS
<1>1. /\ tasks[s] \in TaskSet /\ tasks[s].at <= Len(tasks[s].ticks) /\ s \in Nat
      /\ tasks[s].at \in Nat /\ \A i \in DOMAIN tasks[s].ticks : i \in Nat
  BY RowsOfATask DEF ReplayInv, TasksKnown, TaskKnown, AtTick, Closing, TaskSet
<1>2. ClosingIs(s, c, y)
  BY <1>a, <1>b DEF ReplayInv, ClosingKnown, Closing
<1>3. c \in CandleSet /\ c.session = s /\ c.symbol = y /\ Whole(c) /\ c.minute < minute(Row(s))
      /\ \A j \in Of(s, y) : stream[j].minute < c.minute \/ stream[j] = c
  BY <1>2, <1>a DEF ClosingIs
<1>4. c.minute \in Nat /\ y \in Symbols
  BY <1>3 DEF CandleSet
<1>5. /\ v \in TaskSet /\ v.pc = pc /\ v.at = tasks[s].at /\ v.ticks = tasks[s].ticks
      /\ v.cancelled = tasks[s].cancelled /\ v.closing = c
  BY <1>1, <1>b, <1>d DEF TaskSet, TaskPcs, Awaiting, Closing
<1>6. tasks' = [tasks EXCEPT ![s] = v]
  BY <1>1, <1>d DEF Goes
<1>7. Steps(s, v)
  BY <1>1, <1>5, <1>6 DEF Steps
<1>8. /\ tasks' \in Seq(TaskSet) /\ DOMAIN tasks' = DOMAIN tasks
      /\ tasks'[s] = v /\ \A r \in DOMAIN tasks : r # s => tasks'[r] = tasks[r]
      /\ \A r \in DOMAIN tasks : tasks'[r].ticks = tasks[r].ticks
      /\ \A r \in DOMAIN tasks : r # s => Same(r)
  BY <1>7, OthersStay
<1>9. TasksKnown'
  <2>1. v.pc # "next" /\ tasks[s].pc # "done"
    BY <1>5 DEF Closing
  <2> QED
    BY <1>5, <1>7, <2>1, TasksStayKnown
<1>10. /\ stream' \in Seq(CandleSet) /\ n \in Nat /\ stream'[n] = c
       /\ DOMAIN stream' = DOMAIN stream \cup {n} /\ n \notin DOMAIN stream
       /\ \A j \in DOMAIN stream : stream'[j] = stream[j]
  <2>1. stream \in Seq(CandleSet) /\ stream' = Append(stream, c)
    BY <1>b DEF ReplayInv, CandlesTyped
  <2> QED
    BY <1>3, <1>c, <2>1
<1>11. CandlesTyped'
  BY <1>8, <1>10 DEF ReplayInv, CandlesTyped, aggregatorVars
<1>12. \A r, z : Of(r, z)' = Of(r, z) \cup {j \in {n} : r = s /\ z = y}
  BY <1>3, <1>10 DEF Of
<1>13. StreamKnown'
  <2>1. ASSUME NEW d, d.session \in DOMAIN tasks, Whole(d) PROVE Whole(d)'
    <3>1. tasks'[d.session].ticks = tasks[d.session].ticks
      BY <1>8, <2>1
    <3> QED
      BY <2>1, <3>1, WholeStays
  <2>2. \A d : stream'[n] = d /\ Whole(d)' => Whole(stream[n])'
    BY DEF Whole, Sent, Held
  <2>3. ASSUME NEW j \in DOMAIN stream', NEW d, stream'[j] = d, d.session \in DOMAIN tasks, Whole(d)
        PROVE  stream'[j].session \in DOMAIN tasks' /\ Whole(stream[j])'
    <3>1. Whole(d)'
      BY <2>1, <2>3
    <3> QED
      BY <1>8, <2>3, <3>1 DEF Whole, Sent, Held
  <2>4. ASSUME NEW j \in DOMAIN stream'
        PROVE  stream'[j].session \in DOMAIN tasks' /\ Whole(stream[j])'
    <3>1. CASE j = n
      BY <1>3, <1>10, <2>3, <3>1
    <3>2. CASE j # n
      BY <1>10, <2>3, <3>2 DEF ReplayInv, StreamKnown
    <3> QED
      BY <3>1, <3>2
  <2>5. ASSUME NEW i \in DOMAIN stream', NEW j \in DOMAIN stream' PROVE Once(i, j)'
    <3>1. CASE i # n /\ j # n
      BY <1>10, <3>1 DEF ReplayInv, StreamKnown, Once
    <3>2. \A k \in DOMAIN stream :
             stream[k].session = s /\ stream[k].symbol = y /\ stream[k].minute = c.minute
               => stream[k] = c
      <4> SUFFICES ASSUME NEW k \in DOMAIN stream, stream[k].session = s, stream[k].symbol = y,
                          stream[k].minute = c.minute
                   PROVE  stream[k] = c
        OBVIOUS
      <4>1. stream[k].minute < c.minute \/ stream[k] = c
        BY <1>3 DEF Of
      <4> QED
        BY <1>4, <4>1, PublishedTyped
    <3>3. CASE i = n /\ j # n
      BY <1>3, <1>10, <3>2, <3>3 DEF Once
    <3>4. CASE i # n /\ j = n
      BY <1>3, <1>10, <3>2, <3>4 DEF Once
    <3>5. CASE i = n /\ j = n
      BY <3>5 DEF Once
    <3> QED
      BY <3>1, <3>3, <3>4, <3>5
  <2> QED
    BY <2>4, <2>5 DEF StreamKnown
<1>14. ASSUME Live(s), NEW z \in Symbols PROVE Progresses(s, z)'
  <2>1. Progresses(s, z)
    BY <1>14 DEF ReplayInv, Progress
  <2>2. Past(s, z)' = Past(s, z) /\ Coming(s, z)' = Coming(s, z)
    BY <1>5, <1>8 DEF Past, Coming
  <2>3. IsAtIt(s, z) <=> z = y
    BY <1>a DEF IsAtIt, Closing
  <2>4. IsAtIt(s, z)' <=> z = y
    BY <1>5, <1>8, <1>a DEF IsAtIt, Row
  <2>5. builders' = builders /\ last' = last /\ recent' = recent
    BY DEF aggregatorVars
  <2>6. Made(s, z)'
    <3>1. ASSUME builders[z] # NoCandle, NEW j \in Of(s, z)'
          PROVE  /\ stream'[j].minute <= builders[z].minute
                 /\ z # y => stream'[j].minute < builders[z].minute
      <4>1. CASE j \in Of(s, z)
        BY <1>10, <2>1, <2>3, <3>1, <4>1 DEF Progresses, Made, Of
      <4>2. CASE j \notin Of(s, z)
        <5>1. j = n /\ z = y
          BY <1>12, <3>1, <4>2
        <5>2. builders[y].minute = c.minute
          BY <1>2, <1>14, <3>1, <5>1 DEF ClosingIs
        <5> QED
          BY <1>4, <1>10, <5>1, <5>2
      <4> QED
        BY <4>1, <4>2
    <3>2. \A t, m : MadeOf(s, z, t, m) => MadeOf(s, z, t, m)'
      BY <1>8, <2>2 DEF MadeOf, minute, Bare
    <3> QED
      BY <2>1, <2>4, <2>5, <3>1, <3>2 DEF Progresses, Made
  <2>7. Ahead(s, z)'
    <3> SUFFICES ASSUME NEW i \in Coming(s, z)
                 PROVE  /\ last[z] <= tasks[s].ticks[i].time
                        /\ \A j \in Of(s, z)' : stream'[j].minute < minute(tasks[s].ticks[i])
      BY <1>8, <2>2, <2>5 DEF Ahead, minute
    <3>1. last[z] <= tasks[s].ticks[i].time
          /\ \A j \in Of(s, z) : stream[j].minute < minute(tasks[s].ticks[i])
      BY <2>1 DEF Progresses, Ahead
    <3>2. ASSUME NEW j \in Of(s, z)' PROVE stream'[j].minute < minute(tasks[s].ticks[i])
      <4>1. CASE j \in Of(s, z)
        BY <1>10, <3>1, <4>1 DEF Of
      <4>2. CASE j \notin Of(s, z)
        <5>1. j = n /\ z = y
          BY <1>12, <3>2, <4>2
        <5>2. i \in DOMAIN tasks[s].ticks /\ tasks[s].at <= i /\ tasks[s].at \in DOMAIN tasks[s].ticks
          BY <1>1, RowsOfATask DEF ReplayInv, Coming
        <5>3. minute(Row(s)) <= minute(tasks[s].ticks[i]) /\ minute(Row(s)) \in Nat
              /\ minute(tasks[s].ticks[i]) \in Nat
          BY <5>2, RowsOfATask DEF ReplayInv, Row
        <5> QED
          BY <1>3, <1>4, <1>10, <5>1, <5>3
      <4> QED
        BY <4>1, <4>2
    <3> QED
      BY <3>1, <3>2
  <2>8. Complete(s, z)'
    <3>1. Complete(s, z)
      BY <2>1 DEF Progresses
    <3>2. \A i : InIt(s, z, i) => InIt(s, z, i)'
      BY <1>8, <2>5 DEF InIt, minute
    <3>3. \A x : Seen(s, z, x) => Seen(s, z, x)'
      BY <1>5, <1>8 DEF Seen, Signature, Closing
    <3> QED
      BY <2>2, <2>3, <2>4, <2>5, <3>1, <3>2, <3>3 DEF Complete, Apart, EndsAs, Signature
  <2> QED
    BY <2>6, <2>7, <2>8 DEF Progresses
<1>15. \A r \in DOMAIN tasks : r # s => NothingOut(r)
  <2>1. ASSUME NEW r \in DOMAIN tasks, r # s, NEW z
        PROVE  Of(r, z)' = Of(r, z) /\ \A j \in Of(r, z) : stream'[j] = stream[j]
    <3>1. Of(r, z)' = Of(r, z)
      BY <1>12, <2>1
    <3>2. Of(r, z) \subseteq DOMAIN stream
      BY DEF Of
    <3> QED
      BY <1>10, <3>1, <3>2
  <2> QED
    BY <2>1 DEF NothingOut
<1>16. Progress'
  <2> SUFFICES ASSUME NEW r \in DOMAIN tasks, Live(r)' PROVE \A z \in Symbols : Progresses(r, z)'
    BY <1>8 DEF Progress
  <2>1. CASE r = s
    <3>1. Live(s)
      BY <1>5, <1>8, <2>1 DEF Live
    <3> QED
      BY <1>14, <2>1, <3>1
  <2>2. CASE r # s
    BY <1>7, <1>9, <1>15, <2>2, OthersKeep
  <2> QED
    BY <2>1, <2>2
<1>17. ClosingIs(s, c, y)'
  <2>1. Whole(c)'
    <3>1. tasks'[c.session].ticks = tasks[c.session].ticks
      BY <1>3, <1>8
    <3> QED
      BY <1>3, <3>1, WholeStays
  <2>2. Row(s)' = Row(s) /\ minute(Row(s))' = minute(Row(s)) /\ Signature(Row(s))' = Signature(Row(s))
    BY <1>5, <1>8 DEF Row, minute, Signature
  <2>3. Live(s)' => Live(s)
    BY <1>5, <1>8 DEF Live
  <2>5. \A j \in Of(s, y)' : stream'[j].minute < c.minute \/ stream'[j] = c
    BY <1>3, <1>10, <1>12 DEF Of
  <2>4. builders' = builders /\ recent' = recent
    BY DEF aggregatorVars
  <2> QED
    BY <1>2, <1>3, <2>1, <2>2, <2>3, <2>4, <2>5 DEF ClosingIs
<1>18. ClosingKnown'
  <2> SUFFICES ASSUME NEW r \in DOMAIN tasks, tasks'[r].pc \in Closing
               PROVE  ClosingIs(r, tasks[r].closing, Row(r).symbol)'
    BY <1>8 DEF ClosingKnown
  <2>1. CASE r = s
    <3>1. tasks'[s].closing = c /\ Row(s)'.symbol = y
      BY <1>5, <1>8, <1>a DEF Row
    <3> QED
      BY <1>17, <2>1, <3>1 DEF ClosingIs
  <2>2. CASE r # s
    <3>1. ClosingIs(r, tasks[r].closing, Row(r).symbol)'
      BY <1>7, <1>9, <1>15, <2>2, OthersKeep
    <3> QED
      BY <3>1
  <2> QED
    BY <2>1, <2>2
<1> QED
  BY <1>9, <1>11, <1>13, <1>16, <1>18 DEF ReplayInv

\* No replay goes on: a start without the columns, or with them.
LEMMA StartKeeps ==
    ASSUME ReplayInv, NEW c \in Clients, start_replay(c), UNCHANGED stream,
           asks[c].file \in Files
    PROVE  ReplayInv'
<1>a. PICK f : f = asks[c].file
  OBVIOUS
<1>b. PICK k : k = Len(tasks) + 1
  OBVIOUS
<1>c. PICK v : v = IF HasColumns(f) THEN Task(parse_csv(f), "started") ELSE Task(<<>>, "done")
  OBVIOUS
<1>1. f \in Seq(FileRows) /\ ~engine.is_running
  BY <1>a, ReplayAssumption DEF start_replay
<1>2. /\ v \in TaskSet /\ InOrder(v.ticks) /\ v.at = 1
      /\ v.pc = (IF HasColumns(f) THEN "started" ELSE "done") /\ ~v.cancelled
  <2>1. parse_csv(f) \in Seq(FileRows) /\ InOrder(parse_csv(f))
    BY <1>1, ParsedInOrder
  <2>2. <<>> \in Seq(FileRows) /\ InOrder(<<>>)
    BY DEF InOrder
  <2>3. CASE HasColumns(f)
    <3>1. v = [ticks |-> parse_csv(f), at |-> 1, pc |-> "started", cancelled |-> FALSE,
               closing |-> NoCandle]
      BY <1>c, <2>3 DEF Task
    <3> QED
      BY <2>1, <2>3, <3>1 DEF TaskSet, TaskPcs, Awaiting
  <2>4. CASE ~HasColumns(f)
    <3>1. v = [ticks |-> <<>>, at |-> 1, pc |-> "done", cancelled |-> FALSE,
               closing |-> NoCandle]
      BY <1>c, <2>4 DEF Task
    <3> QED
      BY <2>2, <2>4, <3>1 DEF TaskSet, TaskPcs, Awaiting
  <2> QED
    BY <2>3, <2>4
<1>3. tasks \in Seq(TaskSet) /\ tasks' = Append(tasks, v)
  BY <1>a, <1>c DEF start_replay, ReplayInv, CandlesTyped
<1>4. /\ tasks' \in Seq(TaskSet) /\ k \in Nat \ {0} /\ tasks'[k] = v
      /\ DOMAIN tasks' = DOMAIN tasks \cup {k} /\ k \notin DOMAIN tasks
      /\ \A r \in DOMAIN tasks : tasks'[r] = tasks[r]
  BY <1>2, <1>3, <1>b
<1>5. /\ engine' \in EngineSet /\ engine'.session = k /\ engine'.is_running
      /\ HasColumns(f) => engine'.task = k
  BY <1>4, <1>a, <1>b DEF start_replay, NextId, ReplayInv, CandlesTyped, EngineSet
<1>6. IF HasColumns(f) THEN reset_session ELSE UNCHANGED aggregatorVars
  BY <1>a DEF start_replay
<1>7. /\ builders' \in [Symbols -> Building \cup {NoCandle}] /\ last' \in [Symbols -> Nat]
      /\ recent' \in [Symbols -> Seq(Signatures)]
  <2>1. CASE HasColumns(f)
    <3>1. <<>> \in Seq(Signatures)
      OBVIOUS
    <3>2. /\ builders' = [z \in Symbols |-> NoCandle] /\ last' = [z \in Symbols |-> 0]
          /\ recent' = [z \in Symbols |-> <<>>]
      BY <1>6, <2>1 DEF reset_session, NoneYet, Never
    <3> QED
      BY <3>1, <3>2
  <2>2. CASE ~HasColumns(f)
    BY <1>6, <2>2 DEF aggregatorVars, ReplayInv, CandlesTyped
  <2> QED
    BY <2>1, <2>2
<1>8. CandlesTyped'
  BY <1>4, <1>5, <1>7 DEF ReplayInv, CandlesTyped
<1>9. \A r \in DOMAIN tasks : ~Live(r) /\ ~Live(r)' /\ Same(r)
  <2>1. \A r \in DOMAIN tasks : ~Live(r)
    BY <1>1 DEF ReplayInv, TasksKnown, TaskKnown
  <2> QED
    BY <1>4, <2>1 DEF Same, Live
<1>10. TasksKnown'
  <2> SUFFICES ASSUME NEW r \in DOMAIN tasks' PROVE TaskKnown(r)'
    BY DEF TasksKnown
  <2>1. CASE r = k
    <3>1. tasks'[k] = v
      BY <1>4
    <3>2. v.pc \notin AtTick /\ v.pc # "next"
      BY <1>2 DEF AtTick, Closing
    <3>3. Live(k)' => HasColumns(f)
      BY <1>2, <3>1 DEF Live
    <3> QED
      BY <1>2, <1>5, <2>1, <3>1, <3>2, <3>3 DEF TaskKnown
  <2>2. CASE r # k
    <3>1. r \in DOMAIN tasks
      BY <1>4, <2>2
    <3>2. TaskKnown(r) /\ ~Live(r)' /\ tasks'[r] = tasks[r]
      BY <1>4, <1>9, <3>1 DEF ReplayInv, TasksKnown
    <3> QED
      BY <3>2 DEF TaskKnown
  <2> QED
    BY <2>1, <2>2
<1>11. StreamKnown'
  BY <1>1, <1>4, StreamStays DEF ReplayInv
<1>12. \A y : Of(k, y)' = {}
  BY <1>4 DEF Of, ReplayInv, StreamKnown
<1>13. Progress'
  <2> SUFFICES ASSUME NEW r \in DOMAIN tasks', Live(r)', NEW y \in Symbols PROVE Progresses(r, y)'
    BY DEF Progress
  <2>1. r = k
    BY <1>4, <1>9
  <2>2. HasColumns(f)
    BY <1>2, <1>4, <2>1 DEF Live
  <2>3. builders'[y] = NoCandle /\ last'[y] = 0 /\ recent'[y] = <<>>
    BY <1>6, <2>2 DEF reset_session, NoneYet, Never
  <2>4. Past(k, y)' = {}
    <3>1. v.ticks \in Seq(FileRows)
      BY <1>2 DEF TaskSet
    <3>2. \A i \in DOMAIN v.ticks : i \in Nat /\ ~(i < 1)
      BY <3>1
    <3> QED
      BY <1>2, <1>4, <3>2 DEF Past
  <2>5. Made(k, y)'
    BY <2>3 DEF Made
  <2>6. Ahead(k, y)'
    <3>1. ASSUME NEW i \in DOMAIN v.ticks PROVE v.ticks[i].time \in Nat
      <4>1. v.ticks \in Seq(FileRows)
        BY <1>2 DEF TaskSet
      <4>2. v.ticks[i] \in FileRows
        BY <4>1
      <4> QED
        BY <4>2 DEF FileRows
    <3> QED
      BY <1>4, <1>12, <2>3, <3>1 DEF Ahead, Coming
  <2>7. Complete(k, y)'
    <3>1. DOMAIN recent'[y] = {}
      BY <2>3
    <3> QED
      BY <2>3, <2>4, <3>1 DEF Complete
  <2> QED
    BY <2>1, <2>5, <2>6, <2>7 DEF Progresses
<1>14. ClosingKnown'
  <2> SUFFICES ASSUME NEW r \in DOMAIN tasks', tasks'[r].pc \in Closing
               PROVE  ClosingIs(r, tasks[r].closing, Row(r).symbol)'
    BY DEF ClosingKnown
  <2>1. r # k
    BY <1>2, <1>4 DEF Closing
  <2>2. r \in DOMAIN tasks /\ Same(r) /\ ~Live(r)' /\ NothingOut(r) /\ ClosingKnown
    BY <1>4, <1>9, <2>1, NothingOutAtAll DEF ReplayInv
  <2> QED
    BY <1>1, <2>2, ClosingStays
<1> QED
  BY <1>8, <1>10, <1>11, <1>13, <1>14 DEF ReplayInv

\* A stop cancels the task that goes on, wherever it waits.
LEMMA StopKeeps ==
    ASSUME ReplayInv, Quiet, stop_replay, UNCHANGED <<aggregatorVars, stream>>
    PROVE  ReplayInv'
<1>1. tasks \in Seq(TaskSet) /\ tasks' = Stopped(engine, tasks) /\ engine \in EngineSet
      /\ engine' = [engine EXCEPT !.is_running = FALSE]
  BY DEF stop_replay, ReplayInv, CandlesTyped
<1>2. ASSUME NEW r \in DOMAIN tasks
      PROVE  /\ tasks'[r] \in TaskSet /\ tasks'[r].ticks = tasks[r].ticks
             /\ tasks'[r].at = tasks[r].at /\ tasks'[r].pc = tasks[r].pc
             /\ tasks'[r].closing = tasks[r].closing /\ tasks[r].pc # "next"
             /\ tasks'[r].cancelled = (tasks[r].cancelled \/ (r = engine.task /\ tasks[r].pc # "done"))
  <2>1. tasks[r] \in TaskSet
    BY RowsOfATask DEF ReplayInv
  <2>2. tasks'[r] = IF r = engine.task /\ tasks[r].pc # "done"
                    THEN [tasks[r] EXCEPT !.cancelled = TRUE] ELSE tasks[r]
    BY <1>1 DEF Stopped
  <2>3. tasks[r].pc # "next"
    BY DEF Quiet, Turns
  <2> QED
    BY <2>1, <2>2, <2>3 DEF TaskSet
<1>3. DOMAIN tasks' = DOMAIN tasks /\ tasks' \in Seq(TaskSet)
  <2>1. DOMAIN tasks' = DOMAIN tasks /\ DOMAIN tasks = 1..Len(tasks) /\ Len(tasks) \in Nat
        /\ tasks' = [r \in DOMAIN tasks |-> tasks'[r]]
    BY <1>1 DEF Stopped
  <2> QED
    BY <1>2, <2>1
<1>4. CandlesTyped'
  BY <1>1, <1>3 DEF ReplayInv, CandlesTyped, aggregatorVars, EngineSet
<1>5. \A r \in DOMAIN tasks : ~Live(r)' /\ Same(r)
  <2>1. \A r \in DOMAIN tasks : Live(r) => r = engine.task
    BY DEF ReplayInv, TasksKnown, TaskKnown
  <2>2. \A r \in DOMAIN tasks : ~Live(r)'
    BY <1>2, <2>1 DEF Live
  <2> QED
    BY <1>2, <1>3, <2>2 DEF Same
<1>6. TasksKnown'
  BY <1>2, <1>3, <1>5 DEF ReplayInv, TasksKnown, TaskKnown
<1> QED
  BY <1>1, <1>3, <1>4, <1>5, <1>6, AllStay

\* After a restart no task goes on.
LEMMA RestartLeavesNothing == ASSUME ReplayInv, Restart PROVE ReplayInv'
<1>1. UNCHANGED stream /\ engine' = NotRunning
      /\ tasks' = [s \in DOMAIN tasks |-> [tasks[s] EXCEPT !.pc = "done"]]
  BY DEF Restart, CandlesRestart
<1>2. builders' = [y \in Symbols |-> NoCandle] /\ last' = [y \in Symbols |-> 0]
      /\ recent' = [y \in Symbols |-> <<>>]
  BY DEF Restart, CandlesRestart, reset_session, NoneYet, Never
<1>3. ASSUME NEW r \in DOMAIN tasks
      PROVE  /\ tasks'[r] \in TaskSet /\ tasks'[r].ticks = tasks[r].ticks
             /\ tasks'[r].pc = "done"
             /\ tasks'[r].at = tasks[r].at /\ tasks'[r].closing = tasks[r].closing
  <2>1. tasks[r] \in TaskSet
    BY RowsOfATask DEF ReplayInv
  <2> QED
    BY <1>1, <2>1 DEF TaskSet, TaskPcs
<1>4. DOMAIN tasks' = DOMAIN tasks /\ tasks' \in Seq(TaskSet)
  <2>1. DOMAIN tasks' = DOMAIN tasks /\ DOMAIN tasks = 1..Len(tasks) /\ Len(tasks) \in Nat
        /\ tasks' = [r \in DOMAIN tasks |-> tasks'[r]]
    BY <1>1 DEF ReplayInv, CandlesTyped
  <2> QED
    BY <1>3, <2>1
<1>5. CandlesTyped'
  BY <1>1, <1>2, <1>4 DEF ReplayInv, CandlesTyped, NotRunning, EngineSet
<1>6. \A r \in DOMAIN tasks : ~Live(r)' /\ Same(r)
  BY <1>3, <1>4 DEF Live, Same, Closing
<1>7. TasksKnown'
  BY <1>3, <1>4, <1>6 DEF ReplayInv, TasksKnown, TaskKnown, AtTick, Closing
<1> QED
  BY <1>1, <1>4, <1>5, <1>6, <1>7, AllStay

\* A task that waits goes on with a tick at hand, and has not been cancelled.
LEMMA ReadyHasTick ==
    ASSUME ReplayInv, NEW s \in DOMAIN tasks, Ready(s) \/ Runs(s, "sleeping")
    PROVE  /\ tasks[s].at <= Len(tasks[s].ticks) /\ Live(s)
           /\ tasks[s].pc \notin Closing /\ tasks[s].pc # "done"
<1>1. TaskKnown(s)
  BY DEF ReplayInv, TasksKnown
<1>2. CASE HasTick(s)
  BY <1>1, <1>2 DEF HasTick, TaskKnown, Live, Closing
<1>3. CASE Runs(s, "paused") \/ Runs(s, "sleeping")
  BY <1>1, <1>3 DEF Runs, TaskKnown, Live, AtTick, Closing
<1> QED
  BY <1>2, <1>3 DEF Ready

\* A tick is dropped, added, or closes the candle before it.
LEMMA InjectsKeeps ==
    ASSUME ReplayInv, NEW s \in DOMAIN tasks, Injects(s), UNCHANGED stream
    PROVE  ReplayInv'
<1>1. /\ tasks[s].at <= Len(tasks[s].ticks) /\ Live(s)
      /\ tasks[s].pc \notin Closing /\ tasks[s].pc # "done" /\ engine' = engine
  BY ReadyHasTick DEF Injects
<1>2. CASE Drop(Tick(s)) /\ Advances(s)
  <2>1. Onward(s)
    BY <1>1, <1>2 DEF Onward
  <2> QED
    BY <1>1, <1>2, <2>1, DropKeeps
<1>3. CASE Take(Tick(s)) /\ AddTick(Tick(s)) /\ Advances(s)
  <2>1. Onward(s)
    BY <1>1, <1>3 DEF Onward
  <2> QED
    BY <1>1, <1>3, <2>1, AddKeeps
<1>4. CASE /\ Take(Tick(s)) /\ Closes(Tick(s)) /\ UNCHANGED builders
           /\ tasks' = [tasks EXCEPT ![s].pc = "publishing",
                                     ![s].closing = to_dict(Tick(s), engine.session)]
  BY <1>1, <1>4, ClosesKeeps
<1> QED
  BY <1>2, <1>3, <1>4 DEF Injects

\* Every step of the loop.
LEMMA LoopKeeps ==
    ASSUME ReplayInv, NEW s \in DOMAIN tasks, Loop(s)
    PROVE  ReplayInv'
<1>1. TaskKnown(s) /\ engine \in EngineSet
  BY DEF ReplayInv, TasksKnown, Loop, CandlesTyped
<1>2. \A r \in DOMAIN tasks : Live(r) => r = engine.task
  BY DEF ReplayInv, TasksKnown, TaskKnown
<1>3. CASE Begins(s) /\ UNCHANGED stream
  <2>1. Goes(s, "next") /\ tasks[s].pc = "started" /\ ~tasks[s].cancelled /\ "next" \in TaskPcs
        /\ UNCHANGED <<engine, aggregatorVars>> /\ "next" \notin AtTick /\ "started" \notin Closing
    BY <1>3 DEF Begins, Runs, TaskPcs, AtTick, Closing
  <2> QED
    BY <1>1, <1>3, <2>1, MovesKeep DEF AtTick
<1>4. CASE Ends(s) /\ UNCHANGED stream
  <2>1. Goes(s, "done") /\ tasks[s].pc = "next" /\ "done" \in TaskPcs /\ "done" \notin AtTick
        /\ UNCHANGED aggregatorVars /\ engine' = [engine EXCEPT !.is_running = FALSE]
    BY <1>4 DEF Ends, TaskPcs, AtTick, Closing
  <2>2. engine' \in EngineSet
    BY <1>1, <2>1 DEF EngineSet
  <2>3. \A r \in DOMAIN tasks : ~Live(r)'
    <3>1. tasks[s] \in TaskSet
      BY RowsOfATask DEF ReplayInv
    <3>2. s = engine.task
      BY <1>1, <1>2, <2>1 DEF TaskKnown, Live
    <3>3. \A r \in DOMAIN tasks : r # s => ~Live(r) /\ tasks'[r] = tasks[r]
      BY <1>2, <2>1, <3>2 DEF Goes, ReplayInv, CandlesTyped
    <3>4. tasks'[s].pc = "done"
      BY <2>1, <3>1 DEF Goes, ReplayInv, CandlesTyped, TaskSet
    <3> QED
      BY <3>3, <3>4 DEF Live
  <2> QED
    BY <1>1, <1>4, <2>1, <2>2, <2>3, MovesKeep DEF AtTick
<1>5. CASE Waits(s) /\ UNCHANGED stream
  <2>1. Goes(s, "paused") /\ tasks[s].pc = "next" /\ "paused" \in TaskPcs /\ "paused" \notin Closing
        /\ UNCHANGED <<engine, aggregatorVars>> /\ tasks[s].at <= Len(tasks[s].ticks)
        /\ "next" \notin Closing
    BY <1>5 DEF Waits, HasTick, TaskPcs, Awaiting, Closing
  <2> QED
    BY <1>1, <1>5, <2>1, MovesKeep
<1>6. CASE Sleeps(s) /\ UNCHANGED stream
  <2>1. Goes(s, "sleeping") /\ "sleeping" \in TaskPcs /\ "sleeping" \notin Closing
        /\ UNCHANGED <<engine, aggregatorVars>>
    BY <1>6 DEF Sleeps, TaskPcs, Awaiting, Closing
  <2>2. tasks[s].at <= Len(tasks[s].ticks) /\ tasks[s].pc \notin Closing /\ tasks[s].pc # "done"
    BY <1>6, ReadyHasTick DEF Sleeps
  <2> QED
    BY <1>1, <1>6, <2>1, <2>2, MovesKeep
<1>7. CASE Injects(s) /\ UNCHANGED stream
  BY <1>1, <1>7, InjectsKeeps
<1>8. CASE Continues(s) /\ UNCHANGED stream
  <2>1. Onward(s) /\ tasks[s].pc = "published" /\ NextMinute(Tick(s))
    BY <1>1, <1>8 DEF Continues, Runs, Onward, TaskKnown, AtTick, Closing, Live
  <2> QED
    BY <2>1, ContinuesKeeps
<1>9. CASE Cancelled(s) /\ UNCHANGED stream
  <2>1. Goes(s, "done") /\ "done" \in TaskPcs /\ "done" \notin AtTick
        /\ UNCHANGED <<engine, aggregatorVars>>
    BY <1>9 DEF Cancelled, TaskPcs, AtTick, Closing
  <2> QED
    BY <1>1, <1>9, <2>1, MovesKeep DEF AtTick
<1>10. CASE Publishes(s)
  BY <1>1, <1>10, PublishKeeps DEF Publishes, Closing
<1>12. CASE AnswerLost(s)
  <2>1. tasks[s].pc = "publishing" /\ Goes(s, "publishing")
    <3>1. tasks' = tasks /\ tasks[s].pc = "publishing" /\ tasks \in Seq(TaskSet)
      BY <1>12 DEF AnswerLost, Runs, ReplayInv, CandlesTyped
    <3>2. [tasks EXCEPT ![s].pc = "publishing"] = tasks
      <4>1. tasks[s] \in TaskSet
        BY RowsOfATask DEF ReplayInv
      <4>2. [tasks[s] EXCEPT !.pc = "publishing"] = tasks[s]
        BY <3>1, <4>1 DEF TaskSet
      <4> QED
        BY <3>1, <4>2
    <3> QED
      BY <3>1, <3>2 DEF Goes
  <2> QED
    BY <1>12, <2>1, PublishKeeps DEF AnswerLost, Closing
<1>11. CASE PublishFails(s)
  <2>1. Goes(s, "published") /\ tasks[s].pc = "publishing" /\ "published" \in TaskPcs
        /\ "published" \in Closing /\ "publishing" \in Closing
        /\ UNCHANGED <<engine, aggregatorVars, stream>>
    BY <1>11 DEF PublishFails, Runs, TaskPcs, Awaiting, Closing
  <2>2. tasks[s].at <= Len(tasks[s].ticks)
    BY <1>1, <2>1 DEF TaskKnown, AtTick
  <2> QED
    BY <1>1, <2>1, <2>2, MovesKeep
<1> QED
  BY <1>3, <1>4, <1>5, <1>6, <1>7, <1>8, <1>9, <1>10, <1>11, <1>12 DEF Loop, Turn

\* A handler that may start a replay has a file.
AsksTyped ==
    /\ DOMAIN asks = Clients
    /\ \A c \in Clients : asks[c] # None /\ asks[c].kind = "start" => asks[c].file \in Files

\* A handler keeps the file it was asked to replay.
LEMMA AsksNext == ASSUME AsksTyped, [Next]_vars PROVE AsksTyped'
<1>1. CASE asks' = asks
  BY <1>1 DEF AsksTyped
<1>2. ASSUME NEW c \in Clients, asks' = [asks EXCEPT ![c] = None] PROVE AsksTyped'
  BY <1>2 DEF AsksTyped
<1>3. ASSUME NEW c \in Clients, Replay(c) PROVE AsksTyped'
  <2>1. ASSUME NEW f \in Files, check_safety_rules(c, "start", f) PROVE AsksTyped'
    BY <2>1 DEF AsksTyped, check_safety_rules
  <2>2. CASE check_safety_rules(c, "resume", <<>>)
    BY <2>2 DEF AsksTyped, check_safety_rules
  <2>3. CASE start_replay(c) \/ resume_replay(c) \/ RuntimeError(c)
    BY <1>2, <2>3 DEF start_replay, resume_replay, RuntimeError
  <2> QED
    BY <1>3, <2>1, <2>2, <2>3 DEF Replay
<1>4. CASE Restart
  BY <1>4 DEF Restart, AsksTyped
<1>5. CASE pause_replay \/ stop_replay \/ UNCHANGED replayVars
  BY <1>1, <1>5 DEF pause_replay, stop_replay, replayVars
<1>6. ASSUME NEW s \in DOMAIN tasks, Loop(s) PROVE AsksTyped'
  BY <1>1, <1>6 DEF Loop
<1> QED
  BY <1>3, <1>4, <1>5, <1>6 DEF Next, Control, vars

\* Steps that leave the tasks and their candles alone.
LEMMA ReplayInvStays ==
    ASSUME ReplayInv, UNCHANGED <<tasks, aggregatorVars, stream>>, engine' \in EngineSet,
           /\ engine'.session = engine.session /\ engine'.task = engine.task
           /\ engine.is_running => engine'.is_running
    PROVE  ReplayInv'
<1>1. CandlesTyped'
  BY DEF ReplayInv, CandlesTyped, aggregatorVars
<1>2. TasksKnown'
  BY DEF ReplayInv, TasksKnown, TaskKnown, Live
<1>3. \A s \in DOMAIN tasks : Same(s)
  BY DEF Same, Live
<1> QED
  BY <1>1, <1>2, <1>3, AllStay

\* Every step of the process.
LEMMA ReplayInvNext == ASSUME ReplayInv, AsksTyped, [Next]_vars PROVE ReplayInv'
<1>1. engine \in EngineSet
  BY DEF ReplayInv, CandlesTyped
<1>2. ASSUME UNCHANGED <<tasks, aggregatorVars, stream, engine>> PROVE ReplayInv'
  BY <1>1, <1>2, ReplayInvStays
<1>3. ASSUME NEW c \in Clients, Replay(c) PROVE ReplayInv'
  <2>1. CASE start_replay(c)
    <3>1. asks[c].file \in Files /\ UNCHANGED stream
      BY <1>3, <2>1 DEF AsksTyped, start_replay, Replay
    <3> QED
      BY <2>1, <3>1, StartKeeps
  <2>2. CASE resume_replay(c) /\ UNCHANGED <<aggregatorVars, stream>>
    BY <1>1, <2>2, ReplayInvStays DEF resume_replay, EngineSet
  <2>3. CASE /\ UNCHANGED <<aggregatorVars, stream>>
             /\ \/ \E f \in Files : check_safety_rules(c, "start", f)
                \/ check_safety_rules(c, "resume", <<>>)
                \/ RuntimeError(c)
    BY <1>2, <2>3 DEF check_safety_rules, RuntimeError
  <2> QED
    BY <1>3, <2>1, <2>2, <2>3 DEF Replay
<1>4. CASE pause_replay /\ UNCHANGED candleVars
  <2>1. UNCHANGED <<tasks, aggregatorVars, stream>>
        /\ engine' = [engine EXCEPT !.is_paused = TRUE]
    BY <1>4 DEF pause_replay, candleVars
  <2> QED
    BY <1>1, <2>1, ReplayInvStays DEF EngineSet
<1>5. CASE stop_replay /\ Quiet /\ UNCHANGED candleVars
  BY <1>5, StopKeeps DEF candleVars
<1>6. CASE Control
  BY <1>2, <1>6 DEF Control, candleVars, replayVars
<1>8. CASE Restart
  BY <1>8, RestartLeavesNothing
<1>9. CASE PersisterNext /\ UNCHANGED replayVars
  BY <1>2, <1>9 DEF PersisterNext, replayVars
<1>10. ASSUME NEW s \in DOMAIN tasks, Loop(s) PROVE ReplayInv'
  BY <1>10, LoopKeeps
<1>11. CASE UNCHANGED vars
  BY <1>2, <1>11 DEF vars, candleVars, replayVars
<1> QED
  BY <1>3, <1>4, <1>5, <1>6, <1>8, <1>9, <1>10, <1>11 DEF Next

\* At the start nothing is replayed yet.
LEMMA ReplayInvInit == ASSUME Init PROVE ReplayInv /\ AsksTyped
<1>1. tasks = <<>> /\ stream = <<>> /\ engine = NotRunning
      /\ builders = [y \in Symbols |-> NoCandle] /\ last = [y \in Symbols |-> 0]
      /\ recent = [y \in Symbols |-> <<>>] /\ asks = [c \in Clients |-> None]
  BY DEF Init, CandlesInit, NoneYet, Never
<1>2. CandlesTyped
  BY <1>1 DEF CandlesTyped, NotRunning, EngineSet
<1>3. DOMAIN tasks = {} /\ DOMAIN stream = {}
  BY <1>1
<1>4. TasksKnown /\ Progress /\ ClosingKnown /\ StreamKnown
  BY <1>3 DEF TasksKnown, Progress, ClosingKnown, StreamKnown
<1> QED
  BY <1>1, <1>2, <1>4 DEF ReplayInv, AsksTyped

(* Whatever was stopped, paused, cancelled, started again or failed to be  *)
(* sent, and wherever each task waited then, a candle of a replay is made  *)
(* of the ticks of its own session and minute, none missing, a tick twice  *)
(* only if more than RecentMax of its symbol lie from one to the other,    *)
(* and entries of one candle are equal (process_tick, start_replay,        *)
(* stop_replay).                                                           *)
THEOREM CandlesAreWhole == Spec => []WholeCandles
<1>1. ReplayInv => WholeCandles
  BY DEF ReplayInv, StreamKnown, Whole, Once, WholeCandles
<1>2. ReplayInv /\ AsksTyped /\ [Next]_vars => (ReplayInv /\ AsksTyped)'
  BY ReplayInvNext, AsksNext
<1> QED
  BY ReplayInvInit, <1>1, <1>2, PTL DEF Spec

-----------------------------------------------------------------------------
\* A set of numbers that is not empty has a least one.
LEMMA LeastOf ==
    ASSUME NEW T \in SUBSET Nat, T # {}
    PROVE  \E n \in T : \A m \in T : n <= m
<1> DEFINE I == {0..n : n \in T}
           R == StrictSubsetOrdering(Nat)
<1>1. I \subseteq FiniteSubsetsOf(Nat) /\ I # {}
  <2>1. \A n \in T : IsFiniteSet(0..n)
    BY FS_Interval
  <2>2. \A n \in T : 0..n \in SUBSET Nat
    OBVIOUS
  <2> QED
    BY <2>1, <2>2 DEF FiniteSubsetsOf
<1>2. PICK x \in I : \A y \in I : <<y, x>> \notin R
  <2>1. IsWellFoundedOn(R, FiniteSubsetsOf(Nat))
    BY FS_StrictSubsetOrderingWellFounded
  <2> HIDE DEF I, R
  <2> QED
    BY <1>1, <2>1, WFMin
<1>3. PICK n \in T : x = 0..n
  OBVIOUS
<1>4. ASSUME NEW m \in T, m < n PROVE FALSE
  <2>1. <<0..m, 0..n>> \notin R
    BY <1>2, <1>3
  <2>2. 0..m \in SUBSET Nat /\ 0..n \in SUBSET Nat /\ 0..m \subseteq 0..n
    BY <1>4
  <2>3. n \in 0..n /\ n \notin 0..m
    BY <1>4
  <2> QED
    BY <2>1, <2>2, <2>3 DEF StrictSubsetOrdering
<1> QED
  BY <1>4

\* What the persister has at hand are entries of the stream.
Entries == Seq(DOMAIN stream)
PersisterTyped ==
    /\ reader \in [next : Nat \ {0}, got : Entries, due : BOOLEAN, batch : Entries,
                   flushing : Entries]
    /\ acked \subseteq DOMAIN stream /\ rows \subseteq DOMAIN stream

Within(l, i) == \E k \in DOMAIN l : l[k] = i
PersisterInv == PersisterTyped /\ AckedIsKept

\* An entry that is added or joined leaves the others where they are.
LEMMA WithinStays ==
    ASSUME NEW S, NEW l \in Seq(S), NEW m \in Seq(S), NEW x \in S
    PROVE  /\ Append(l, x) \in Seq(S) /\ l \o m \in Seq(S)
           /\ Within(Append(l, x), x)
           /\ \A i : Within(l, i) => Within(Append(l, x), i) /\ Within(l \o m, i)
           /\ \A i : Within(m, i) => Within(l \o m, i)
<1>1. DOMAIN l = 1..Len(l) /\ DOMAIN m = 1..Len(m) /\ Len(l) \in Nat /\ Len(m) \in Nat
  OBVIOUS
<1>2. /\ Append(l, x) \in Seq(S) /\ DOMAIN Append(l, x) = 1..(Len(l) + 1)
      /\ Append(l, x)[Len(l) + 1] = x /\ \A k \in 1..Len(l) : Append(l, x)[k] = l[k]
  OBVIOUS
<1>3. /\ l \o m \in Seq(S) /\ DOMAIN (l \o m) = 1..(Len(l) + Len(m))
      /\ \A k \in 1..Len(l) : (l \o m)[k] = l[k]
      /\ \A k \in 1..Len(m) : (l \o m)[Len(l) + k] = m[k]
  OBVIOUS
<1>4. ASSUME NEW i, Within(l, i) PROVE Within(Append(l, x), i) /\ Within(l \o m, i)
  <2>1. PICK k \in 1..Len(l) : l[k] = i
    BY <1>1, <1>4 DEF Within
  <2>2. k \in 1..(Len(l) + 1) /\ k \in 1..(Len(l) + Len(m))
    BY <1>1
  <2> QED
    BY <1>2, <1>3, <2>1, <2>2 DEF Within
<1>5. ASSUME NEW i, Within(m, i) PROVE Within(l \o m, i)
  <2>1. PICK k \in 1..Len(m) : m[k] = i
    BY <1>1, <1>5 DEF Within
  <2>2. Len(l) + k \in 1..(Len(l) + Len(m))
    BY <1>1
  <2> QED
    BY <1>3, <2>1, <2>2 DEF Within
<1>6. Within(Append(l, x), x)
  <2>1. Len(l) + 1 \in 1..(Len(l) + 1)
    BY <1>1
  <2> QED
    BY <1>2, <2>1 DEF Within
<1> QED
  BY <1>2, <1>3, <1>4, <1>5, <1>6

\* A step of the stream: entries stay as they are.
LEMMA StreamGrows ==
    ASSUME PersisterInv, UNCHANGED persisterVars, DOMAIN stream \subseteq DOMAIN stream',
           \A j \in DOMAIN stream : stream'[j] = stream[j]
    PROVE  PersisterInv'
<1>1. Entries \subseteq Entries'
  BY DEF Entries
<1>2. PersisterTyped'
  BY <1>1 DEF PersisterInv, PersisterTyped, persisterVars
<1>3. \A i \in DOMAIN stream : HasRow(i) => HasRow(i)'
  BY DEF HasRow, PersisterInv, PersisterTyped, persisterVars
<1> QED
  BY <1>2, <1>3 DEF PersisterInv, PersisterTyped, AckedIsKept, persisterVars

\* The steps of the persister: what it has acknowledged is in a batch or written.
LEMMA PersisterNextKeeps ==
    ASSUME PersisterInv, PersisterNext, NEW S, stream \in Seq(S)
    PROVE  PersisterInv'
<1> DEFINE D == DOMAIN stream
           Kept1(i) == Within(reader.batch, i) \/ Within(reader.flushing, i) \/ HasRow(i)
<1>0. stream' = stream /\ DOMAIN stream = 1..Len(stream) /\ Len(stream) \in Nat /\ Entries' = Entries
  BY DEF PersisterNext, Entries
<1>a. <<>> \in Seq(D)
  OBVIOUS
<1>1. /\ reader \in [next : Nat \ {0}, got : Seq(D), due : BOOLEAN, batch : Seq(D),
                     flushing : Seq(D)]
      /\ acked \subseteq D /\ rows \subseteq D
      /\ \A i \in acked : Kept1(i)
  BY DEF PersisterInv, PersisterTyped, AckedIsKept, Entries, Within
<1>2. ASSUME /\ reader' \in [next : Nat \ {0}, got : Seq(D), due : BOOLEAN, batch : Seq(D),
                             flushing : Seq(D)]
             /\ acked' \subseteq D /\ rows' \subseteq D
             /\ \A i \in acked' : Within(reader'.batch, i) \/ Within(reader'.flushing, i) \/ HasRow(i)'
      PROVE  PersisterInv'
  BY <1>0, <1>2 DEF PersisterInv, PersisterTyped, AckedIsKept, Entries, Within
<1>3. \A i : rows \subseteq rows' /\ HasRow(i) => HasRow(i)'
  BY <1>0 DEF HasRow
<1> HIDE DEF D
<1>4. CASE ReadStream
  <2> DEFINE g == [i \in 1..(Len(stream) - reader.next + 1) |-> reader.next + i - 1]
  <2>1. reader' = [reader EXCEPT !.got = g, !.next = Len(stream) + 1, !.due = TRUE]
        /\ acked' = acked /\ rows' = rows /\ reader.next <= Len(stream)
    BY <1>4 DEF ReadStream
  <2>2. g \in Seq(D)
    <3>1. reader.next \in Nat \ {0} /\ Len(stream) - reader.next + 1 \in Nat
      BY <1>0, <1>1, <2>1
    <3>2. \A i \in 1..(Len(stream) - reader.next + 1) : reader.next + i - 1 \in D
      BY <1>0, <3>1 DEF D
    <3> QED
      BY <3>1, <3>2
  <2>3. Len(stream) + 1 \in Nat \ {0}
    BY <1>0
  <2> HIDE DEF g
  <2>4. reader' \in [next : Nat \ {0}, got : Seq(D), due : BOOLEAN, batch : Seq(D), flushing : Seq(D)]
        /\ reader'.batch = reader.batch /\ reader'.flushing = reader.flushing
    BY <1>1, <2>1, <2>2, <2>3
  <2> QED
    BY <1>1, <1>2, <1>3, <2>1, <2>4
<1>5. ASSUME reader.got # <<>>
      PROVE  /\ Head(reader.got) \in D /\ Tail(reader.got) \in Seq(D)
             /\ Append(reader.batch, Head(reader.got)) \in Seq(D)
             /\ Within(Append(reader.batch, Head(reader.got)), Head(reader.got))
             /\ \A i : Within(reader.batch, i) => Within(Append(reader.batch, Head(reader.got)), i)
  <2>1. reader.got \in Seq(D) /\ reader.batch \in Seq(D)
    BY <1>1
  <2>2. Head(reader.got) \in D /\ Tail(reader.got) \in Seq(D)
    BY <1>5, <2>1
  <2> QED
    BY <2>1, <2>2, WithinStays
<1>6. CASE Ack
  <2>1. /\ reader.got # <<>> /\ rows' = rows /\ acked' = acked \cup {Head(reader.got)}
        /\ reader' = [reader EXCEPT !.batch = Append(reader.batch, Head(reader.got)),
                                    !.got = Tail(reader.got)]
    BY <1>6 DEF Ack
  <2>2. reader' \in [next : Nat \ {0}, got : Seq(D), due : BOOLEAN, batch : Seq(D), flushing : Seq(D)]
        /\ reader'.batch = Append(reader.batch, Head(reader.got))
        /\ reader'.flushing = reader.flushing
    BY <1>1, <1>5, <1>a, <2>1
  <2> QED
    BY <1>1, <1>2, <1>3, <1>5, <2>1, <2>2
<1>7. CASE AckFails
  <2>1. /\ reader.got # <<>> /\ rows' = rows /\ acked' = acked
        /\ reader' = [reader EXCEPT !.batch = Append(reader.batch, Head(reader.got)),
                                    !.got = <<>>, !.due = FALSE]
    BY <1>7 DEF AckFails
  <2>2. reader' \in [next : Nat \ {0}, got : Seq(D), due : BOOLEAN, batch : Seq(D), flushing : Seq(D)]
        /\ reader'.batch = Append(reader.batch, Head(reader.got))
        /\ reader'.flushing = reader.flushing
    BY <1>1, <1>5, <1>a, <2>1
  <2> QED
    BY <1>1, <1>2, <1>3, <1>5, <2>1, <2>2
<1>8. CASE Flush
  <2>1. /\ reader.flushing = <<>> /\ rows' = rows /\ acked' = acked
        /\ reader' = [reader EXCEPT !.flushing = reader.batch, !.batch = <<>>, !.due = FALSE]
    BY <1>8 DEF Flush, Writing
  <2>2. reader' \in [next : Nat \ {0}, got : Seq(D), due : BOOLEAN, batch : Seq(D), flushing : Seq(D)]
        /\ reader'.flushing = reader.batch
    BY <1>1, <1>a, <2>1
  <2>3. \A i : ~Within(reader.flushing, i)
    BY <2>1 DEF Within
  <2> QED
    BY <1>1, <1>2, <1>3, <2>1, <2>2, <2>3
<1>9. CASE FlushDone
  <2> DEFINE l == reader.flushing
  <2>1. /\ rows' = rows \cup {l[k] : k \in {n \in DOMAIN l : ~HasRow(l[n]) /\ FirstOfMinute(n)}}
        /\ reader' = [reader EXCEPT !.flushing = <<>>] /\ acked' = acked
    BY <1>9 DEF FlushDone
  <2>2. l \in Seq(D) /\ DOMAIN l = 1..Len(l) /\ \A k \in DOMAIN l : l[k] \in D
    <3>1. l \in Seq(D)
      BY <1>1
    <3> HIDE DEF l
    <3> QED
      BY <3>1
  <2>3. reader' \in [next : Nat \ {0}, got : Seq(D), due : BOOLEAN, batch : Seq(D), flushing : Seq(D)]
        /\ reader'.batch = reader.batch
    BY <1>1, <1>a, <2>1
  <2>4. rows \subseteq rows' /\ rows' \subseteq D
    BY <1>1, <2>1, <2>2
  <2>5. ASSUME NEW i, Within(l, i), ~HasRow(i) PROVE HasRow(i)'
    <3> DEFINE T == {n \in DOMAIN l : stream[l[n]].minute = stream[i].minute}
    <3>1. T \in SUBSET Nat /\ T # {}
      BY <2>2, <2>5 DEF Within
    <3>2. PICK n \in T : \A m \in T : n <= m
      <4> HIDE DEF T
      <4> QED
        BY <3>1, LeastOf
    <3>3. FirstOfMinute(n)
      <4> SUFFICES ASSUME NEW j \in 1..(n - 1), stream[l[j]].minute = stream[l[n]].minute PROVE FALSE
        BY DEF FirstOfMinute
      <4>1. j \in DOMAIN l /\ j < n
        BY <2>2, <3>2
      <4>2. j \in T
        BY <3>2, <4>1
      <4>3. n <= j
        BY <3>2, <4>2
      <4> QED
        BY <3>1, <4>1, <4>3
    <3>4. ~HasRow(l[n])
      BY <2>5, <3>2 DEF HasRow
    <3>5. l[n] \in rows' /\ stream[l[n]].minute = stream[i].minute
      BY <2>1, <3>2, <3>3, <3>4
    <3> QED
      BY <1>0, <3>5 DEF HasRow
  <2>6. \A i \in acked : Within(reader'.batch, i) \/ HasRow(i)'
    BY <1>1, <1>3, <2>3, <2>4, <2>5
  <2> QED
    BY <1>1, <1>2, <2>1, <2>3, <2>4, <2>6
<1>10. CASE FlushFails
  <2>1. /\ rows' = rows /\ acked' = acked
        /\ reader' = [reader EXCEPT !.batch = reader.batch \o reader.flushing, !.flushing = <<>>]
    BY <1>10 DEF FlushFails, Kept
  <2>2. reader.batch \in Seq(D) /\ reader.flushing \in Seq(D)
    BY <1>1
  <2>3. reader.batch \o reader.flushing \in Seq(D)
    BY <2>2
  <2>4. reader' \in [next : Nat \ {0}, got : Seq(D), due : BOOLEAN, batch : Seq(D), flushing : Seq(D)]
        /\ reader'.batch = reader.batch \o reader.flushing
    BY <1>1, <1>a, <2>1, <2>3
  <2>5. ASSUME NEW i \in acked, Within(reader.batch, i) \/ Within(reader.flushing, i)
        PROVE  Within(reader.batch \o reader.flushing, i)
    BY <1>1, <2>2, <2>5, WithinStays
  <2> QED
    BY <1>1, <1>2, <1>3, <2>1, <2>4, <2>5
<1> QED
  BY <1>4, <1>6, <1>7, <1>8, <1>9, <1>10 DEF PersisterNext

\* Every step of the process, for the persister.
LEMMA PersisterInvNext ==
    ASSUME PersisterInv, ReplayInv, [Next]_vars
    PROVE  PersisterInv'
<1>1. stream \in Seq(CandleSet) /\ DOMAIN stream = 1..Len(stream)
  BY DEF ReplayInv, CandlesTyped
<1>2. ASSUME UNCHANGED <<persisterVars, stream>> PROVE PersisterInv'
  BY <1>2, StreamGrows
<1>3. ASSUME NEW s \in DOMAIN tasks, Loop(s) PROVE PersisterInv'
  <2>1. UNCHANGED persisterVars
    BY <1>3 DEF Loop
  <2>2. CASE Publishes(s) \/ AnswerLost(s)
    <3>1. tasks[s].closing \in CandleSet /\ stream' = Append(stream, tasks[s].closing)
      BY <2>2 DEF Publishes, AnswerLost, Runs, ReplayInv, ClosingKnown, ClosingIs, Closing
    <3>2. DOMAIN stream \subseteq DOMAIN stream' /\ \A j \in DOMAIN stream : stream'[j] = stream[j]
      BY <1>1, <3>1
    <3> QED
      BY <2>1, <3>2, StreamGrows
  <2>3. CASE UNCHANGED stream
    BY <1>2, <2>1, <2>3
  <2> QED
    BY <1>3, <2>2, <2>3 DEF Loop, Turn, PublishFails
<1>4. CASE PersisterNext
  BY <1>1, <1>4, PersisterNextKeeps
<1>5. CASE Restart
  <2>1. reader' = Idle(reader.next) /\ acked' = {} /\ rows' = rows /\ stream' = stream
    BY <1>5 DEF Restart, CandlesRestart
  <2>2. <<>> \in Entries
    BY DEF Entries
  <2>3. reader' \in [next : Nat \ {0}, got : Entries, due : BOOLEAN, batch : Entries,
                     flushing : Entries]
    BY <2>1, <2>2 DEF Idle, PersisterInv, PersisterTyped
  <2>4. PersisterTyped'
    BY <2>1, <2>3 DEF PersisterInv, PersisterTyped, Entries
  <2> QED
    BY <2>1, <2>4 DEF PersisterInv, AckedIsKept
<1>7. ASSUME NEW c \in Clients, Replay(c) PROVE PersisterInv'
  BY <1>2, <1>7 DEF Replay
<1>8. CASE UNCHANGED candleVars
  BY <1>2, <1>8 DEF candleVars
<1> QED
  BY <1>3, <1>4, <1>5, <1>7, <1>8 DEF Next, Control, vars

\* At the start nothing is acknowledged.
LEMMA PersisterInvInit == ASSUME Init PROVE PersisterInv
<1>1. stream = <<>> /\ reader = Idle(1) /\ acked = {} /\ rows = {}
  BY DEF Init, CandlesInit
<1>2. <<>> \in Entries
  BY DEF Entries
<1> QED
  BY <1>1, <1>2 DEF PersisterInv, PersisterTyped, AckedIsKept, Idle

(* However many times the batch fails to be written, and whatever is read  *)
(* and acknowledged meanwhile, an acknowledged candle is in the batch or   *)
(* has a row of its minute until the process itself ends (_run,            *)
(* _flush_batch).                                                          *)
THEOREM AckedAreKept == Spec => []AckedIsKept
<1>1. PersisterInv => AckedIsKept
  BY DEF PersisterInv
<1>2. Init => PersisterInv /\ ReplayInv /\ AsksTyped
  BY ReplayInvInit, PersisterInvInit
<1>3. PersisterInv /\ ReplayInv /\ AsksTyped /\ [Next]_vars => (PersisterInv /\ ReplayInv /\ AsksTyped)'
  BY ReplayInvNext, AsksNext, PersisterInvNext
<1> QED
  BY <1>1, <1>2, <1>3, PTL DEF Spec
=============================================================================
