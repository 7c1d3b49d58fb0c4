----------------------- MODULE PortfolioBatchProofs -----------------------
(***************************************************************************)
(* Proofs about PortfolioBatch for every number of processes, batches and  *)
(* signals and every value of the limits.  The inductive invariant is      *)
(* BatchInv: while the Redis lock has expired under nobody, whoever is     *)
(* inside has its key (LockHeld), so between the count and the commit of   *)
(* one batch no other batch adds a position, and the room it counted is    *)
(* still there when it commits (Room).  Closes of other batches only make  *)
(* more room.  KeyInv does the same for the deduplication keys: the key of *)
(* a signal lives on for as long as its trade is young (KeyKept), since    *)
(* no time passes between the two writes (KeySet), so who finds no key     *)
(* finds no young trade of its signal until it commits (KeyMissing).       *)
(***************************************************************************)
EXTENDS PortfolioBatch, TLAPS, FiniteSetTheorems, FunctionTheorems

(* There are finitely many trades, so sets of them can be counted.         *)
LEMMA TradesFinite == IsFiniteSet(Trades)
<1> DEFINE Places == [b \in Batches |-> {b} \X (1 .. Len(Results[b]))]
           Parts == {{b} \X (1 .. Len(Results[b])) : b \in Batches}
<1>1. Places \in Surjection(Batches, Parts)
  BY DEF Surjection
<1>2. IsFiniteSet(Parts)
  BY <1>1, FS_Surjection, BatchAssumption
<1>3. ASSUME NEW b \in Batches PROVE IsFiniteSet({b} \X (1 .. Len(Results[b])))
  <2>1. Len(Results[b]) \in Nat
    BY BatchAssumption
  <2>2. IsFiniteSet({b})
    BY FS_Singleton, Zenon
  <2>3. IsFiniteSet(1 .. Len(Results[b]))
    BY <2>1, FS_Interval
  <2> QED
    BY <2>2, <2>3, FS_Product
<1>4. \A S \in Parts : IsFiniteSet(S)
  BY <1>3
<1> QED
  BY <1>2, <1>4, FS_UNION DEF Trades

LEMMA Sizes ==
  /\ \A S \in SUBSET Trades : IsFiniteSet(S) /\ Cardinality(S) \in Nat
  /\ \A S, T \in SUBSET Trades : S \subseteq T => Cardinality(S) <= Cardinality(T)
<1>1. \A S \in SUBSET Trades : IsFiniteSet(S)
  BY TradesFinite, FS_Subset
<1> QED
  BY <1>1, FS_Subset, FS_CardinalityType

LEMMA OneMore ==
  ASSUME NEW S \in SUBSET Trades, NEW t \in Trades
  PROVE  Cardinality(S \cup {t}) <= Cardinality(S) + 1
<1>1. IsFiniteSet(S) /\ Cardinality(S) \in Nat
  BY Sizes
<1>2. Cardinality(S \cup {t}) =
        IF t \in S THEN Cardinality(S) ELSE Cardinality(S) + 1
  BY <1>1, FS_AddElement, Zenon
<1> QED
  BY <1>1, <1>2

LEMMA OpenTrades == Open \in SUBSET Trades /\ Cardinality(Open) \in Nat
<1>1. Open \in SUBSET Trades
  BY DEF Open
<1> QED
  BY <1>1, Sizes

LEMMA TakeHead ==
  ASSUME NEW S, NEW q \in Seq(S), q # <<>>
  PROVE  /\ Head(q) \in S /\ Tail(q) \in Seq(S)
         /\ Len(Tail(q)) <= Len(q) /\ Len(q) \in Nat
  OBVIOUS

(* Leaving the lock keeps its type.                                        *)
LEMMA UnlockTyped ==
  ASSUME NEW p \in Procs, Unlock(p), lock \in Procs \cup {None}, lockLeft \in 0 .. LockTTL
  PROVE  lock' \in Procs \cup {None} /\ lockLeft' \in 0 .. LockTTL
<1>1. LockTTL \in Nat
  BY BatchAssumption
<1>2. CASE lock = p /\ lockLeft > 0
  BY <1>1, <1>2 DEF Unlock
<1>3. CASE ~(lock = p /\ lockLeft > 0)
  BY <1>3 DEF Unlock, redisLock
<1> QED
  BY <1>2, <1>3

(* A result that exists is a signal, and its place a trade.                *)
LEMMA ResultPlace ==
  ASSUME NEW p \in Procs, TypeOK, Placed, pc[p] \notin {"idle", "result"}
  PROVE  <<cur[p], idx[p]>> \in Trades /\ Result(p) \in Signals
<1>1. /\ cur[p] \in Batches /\ idx[p] \in Nat /\ idx[p] >= 1
      /\ idx[p] <= Len(Results[cur[p]])
  BY DEF TypeOK, Placed
<1>2. Results[cur[p]] \in Seq(Signals) /\ idx[p] \in 1 .. Len(Results[cur[p]])
  BY <1>1, BatchAssumption
<1>3. <<cur[p], idx[p]>> \in {cur[p]} \X (1 .. Len(Results[cur[p]]))
  BY <1>2
<1>4. <<cur[p], idx[p]>> \in Trades
  BY <1>1, <1>3 DEF Trades
<1> QED
  BY <1>2, <1>4 DEF Result

-----------------------------------------------------------------------------
(* The first state.                                                        *)

LEMMA InitBatch == Init => BatchInv
<1> SUFFICES ASSUME Init PROVE BatchInv
  OBVIOUS
<1> USE BatchAssumption
<1>1. TypeOK
  <2>1. PastTrades \subseteq Trades
    BY DEF PastTrades
  <2>2. <<>> \in Queues /\ "idle" \in Labels
    BY DEF Queues, Labels
  <2> QED
    BY <2>1, <2>2 DEF Init, TypeOK
<1>2. Open = PastTrades
  BY DEF Init, Open, PastTrades
<1>3. Placed /\ LockHeld /\ Inserted
  BY DEF Init, Placed, LockHeld, Inserted, InLock
<1>4. Room
  BY DEF Init, Room, Opens, Alone
<1>5. PositionCap /\ OnePerSymbol
  BY <1>2, PastAssumption DEF PositionCap, OnePerSymbol
<1> QED
  BY <1>1, <1>3, <1>4, <1>5 DEF BatchInv

-----------------------------------------------------------------------------
(* One lemma for each part of the invariant.                               *)

(* Where a worker goes inside its batch is a label, and not idle.          *)
LEMMA MoveTyped ==
  ASSUME NEW p \in Procs, pc \in [Procs -> Labels], NEW l \in Labels, l # "idle", Goto(p, l)
  PROVE  /\ pc' \in [Procs -> Labels]
         /\ \A q \in Procs : pc'[q] = "idle" => q # p /\ pc[q] = "idle"
  BY DEF Goto

LEMMA AdvanceTyped ==
  ASSUME NEW p \in Procs, pc \in [Procs -> Labels], idx \in [Procs -> Nat], NextResult(p)
  PROVE  /\ pc' \in [Procs -> Labels]
         /\ \A q \in Procs : pc'[q] = "idle" => q # p /\ pc[q] = "idle"
         /\ idx' \in [Procs -> Nat]
<1>1. "result" \in Labels /\ Goto(p, "result")
  BY DEF Labels, NextResult
<1>2. idx' \in [Procs -> Nat]
  BY DEF NextResult
<1> QED
  BY <1>1, <1>2, MoveTyped

(* The end of a batch and the save of a session keep the types.            *)
LEMMA EndTyped ==
  ASSUME NEW p \in Procs, TypeOK, EndBatch(p)
  PROVE  /\ pc' \in [Procs -> Labels]
         /\ \A q \in Procs : pc'[q] = "idle" => q = p \/ pc[q] = "idle"
         /\ cur' \in [Procs -> Batches \cup {None}]
         /\ idx' \in [Procs -> Nat] /\ slots' \in [Procs -> Int] /\ waited' \in [Procs -> Nat]
         /\ target' \in [Procs -> Trades \cup {None}]
<1>1. pc' \in [Procs -> Labels] /\ \A q \in Procs : pc'[q] = "idle" => q = p \/ pc[q] = "idle"
  BY DEF EndBatch, Goto, TypeOK, Labels
<1>2. cur' \in [Procs -> Batches \cup {None}]
  BY DEF EndBatch, TypeOK
<1>3. idx' \in [Procs -> Nat] /\ slots' \in [Procs -> Int] /\ waited' \in [Procs -> Nat]
  BY DEF EndBatch, TypeOK
<1>4. target' \in [Procs -> Trades \cup {None}]
  BY DEF EndBatch, TypeOK
<1> QED
  BY <1>1, <1>2, <1>3, <1>4

LEMMA SaveTyped ==
  ASSUME NEW p \in Procs, TypeOK, Save(p)
  PROVE  /\ status' \in [Trades -> {"none", "open", "closed"}]
         /\ age' \in [Trades -> 0 .. DedupTTL]
         /\ closing' \in [Procs -> SUBSET Trades] /\ opening' \in [Procs -> SUBSET Trades]
         /\ \A q \in Procs : closing'[q] \cup opening'[q] \subseteq closing[q] \cup opening[q]
         /\ closing'[p] \cup opening'[p] = {}
         /\ rows' \in [Trades \cup {Account} -> Procs \cup {None}]
<1>1. status' \in [Trades -> {"none", "open", "closed"}]
  BY DEF Save, TypeOK
<1>2. age' \in [Trades -> 0 .. DedupTTL]
  <2>1. 0 \in 0 .. DedupTTL
    BY BatchAssumption
  <2>2. \A t \in Trades : age[t] \in 0 .. DedupTTL
    BY DEF TypeOK
  <2>3. age' = [t \in Trades |-> IF t \in opening[p] THEN 0 ELSE age[t]]
    BY DEF Save
  <2> QED
    BY <2>1, <2>2, <2>3
<1>3. /\ closing' = [closing EXCEPT ![p] = {}] /\ opening' = [opening EXCEPT ![p] = {}]
      /\ closing \in [Procs -> SUBSET Trades] /\ opening \in [Procs -> SUBSET Trades]
  BY DEF Save, TypeOK
<1>4. /\ closing' \in [Procs -> SUBSET Trades] /\ opening' \in [Procs -> SUBSET Trades]
      /\ \A q \in Procs : closing'[q] \cup opening'[q] \subseteq closing[q] \cup opening[q]
      /\ closing'[p] \cup opening'[p] = {}
  BY <1>3
<1>5. rows' \in [Trades \cup {Account} -> Procs \cup {None}]
  BY DEF Save, FreeRows, TypeOK
<1> QED
  BY <1>1, <1>2, <1>4, <1>5

(* A rolled back session has nothing pending.                              *)
LEMMA RollbackTyped ==
  ASSUME NEW p \in Procs, TypeOK, Rollback(p)
  PROVE  /\ closing' \in [Procs -> SUBSET Trades] /\ opening' \in [Procs -> SUBSET Trades]
         /\ dirty' \in [Procs -> BOOLEAN]
         /\ \A q \in Procs : q = p \/ (closing[q] \cup opening[q] = {} /\ ~dirty[q])
                               => closing'[q] \cup opening'[q] = {} /\ ~dirty'[q]
         /\ rows' \in [Trades \cup {Account} -> Procs \cup {None}]
<1>1. /\ closing' = [closing EXCEPT ![p] = {}] /\ opening' = [opening EXCEPT ![p] = {}]
      /\ dirty' = [dirty EXCEPT ![p] = FALSE]
      /\ closing \in [Procs -> SUBSET Trades] /\ opening \in [Procs -> SUBSET Trades]
      /\ dirty \in [Procs -> BOOLEAN]
  BY DEF Rollback, TypeOK
<1>2. closing' \in [Procs -> SUBSET Trades] /\ opening' \in [Procs -> SUBSET Trades]
  BY <1>1
<1>3. dirty' \in [Procs -> BOOLEAN]
  BY <1>1
<1>4. ASSUME NEW q \in Procs, q = p \/ (closing[q] \cup opening[q] = {} /\ ~dirty[q])
      PROVE  closing'[q] \cup opening'[q] = {} /\ ~dirty'[q]
  BY <1>1, <1>4
<1>5. rows' \in [Trades \cup {Account} -> Procs \cup {None}]
  BY DEF Rollback, FreeRows, TypeOK
<1> QED
  BY <1>2, <1>3, <1>4, <1>5

LEMMA TypePreserved == BatchInv /\ [Next]_vars => TypeOK'
<1> SUFFICES ASSUME BatchInv, [Next]_vars PROVE TypeOK'
  OBVIOUS
<1> USE DEF BatchInv
<1>1. ASSUME NEW b \in Batches, Enqueue(b) PROVE TypeOK'
  <2>1. Home[b] \in Procs /\ queue[Home[b]] \in Seq(Batches) /\ Len(queue[Home[b]]) <= QueueMax
    BY BatchAssumption DEF TypeOK, Queues
  <2> DEFINE q == queue[Home[b]]
             r == IF Len(q) = QueueMax THEN Tail(q) ELSE q
  <2>2. QueueMax \in Nat /\ QueueMax > 0
    BY BatchAssumption
  <2>3. r \in Seq(Batches) /\ Len(r) < QueueMax
    BY <2>1, <2>2
  <2>4. queue' = [queue EXCEPT ![Home[b]] = Append(r, b)]
    BY <1>1 DEF Enqueue
  <2> HIDE DEF r
  <2>5. Append(r, b) \in Seq(Batches) /\ Len(Append(r, b)) = Len(r) + 1
    BY <2>3
  <2>6. Len(Append(r, b)) <= QueueMax
    BY <2>2, <2>3, <2>5
  <2>7. Append(r, b) \in Queues
    BY <2>5, <2>6 DEF Queues
  <2>8. queue' \in [Procs -> Queues]
    BY <2>4, <2>7 DEF TypeOK
  <2>9. sent' \subseteq Batches
    BY <1>1 DEF Enqueue, TypeOK
  <2> QED
    BY <1>1, <2>8, <2>9 DEF Enqueue, session, redisLock, clocks, TypeOK
<1>2. ASSUME NEW p \in Procs, Start(p) PROVE TypeOK'
  <2>1. queue[p] \in Seq(Batches) /\ queue[p] # <<>> /\ Len(queue[p]) <= QueueMax
    BY <1>2 DEF Start, Queues, TypeOK
  <2>2. Head(queue[p]) \in Batches /\ Tail(queue[p]) \in Queues
    <3>1. QueueMax \in Nat
      BY BatchAssumption
    <3>2. /\ Head(queue[p]) \in Batches /\ Tail(queue[p]) \in Seq(Batches)
          /\ Len(Tail(queue[p])) <= Len(queue[p])
      BY <2>1, TakeHead
    <3>3. Len(Tail(queue[p])) \in Nat /\ Len(queue[p]) \in Nat
      BY <2>1, <3>2
    <3> QED
      BY <2>1, <3>1, <3>2, <3>3 DEF Queues
  <2>3. queue' \in [Procs -> Queues]
    BY <1>2, <2>2 DEF Start, TypeOK
  <2>4. MaxOpen - Cardinality(Open) \in Int
    BY OpenTrades, BatchAssumption
  <2>5. UNCHANGED <<sent, waited, target, closing, opening, dirty, rows, status, lock,
                    lockLeft, age, keyLeft, outlived>>
    BY <1>2 DEF Start, session, redisLock, clocks
  <2>6. /\ cur' \in [Procs -> Batches \cup {None}] /\ idx' \in [Procs -> Nat]
        /\ slots' \in [Procs -> Int]
        /\ pc' \in [Procs -> Labels]
        /\ \A q \in Procs : pc'[q] = "idle" => pc[q] = "idle"
    <3>1. ASSUME cur' = [cur EXCEPT ![p] = Head(queue[p])],
                 idx' = [idx EXCEPT ![p] = 1],
                 slots' = [slots EXCEPT ![p] = MaxOpen - Cardinality(Open)],
                 Goto(p, "result")
          PROVE  /\ cur' \in [Procs -> Batches \cup {None}] /\ idx' \in [Procs -> Nat]
                 /\ slots' \in [Procs -> Int] /\ pc' \in [Procs -> Labels]
                 /\ \A q \in Procs : pc'[q] = "idle" => pc[q] = "idle"
      <4>1. /\ pc' \in [Procs -> Labels]
            /\ \A q \in Procs : pc'[q] = "idle" => pc[q] = "idle"
        BY <3>1, MoveTyped DEF TypeOK, Labels
      <4>2. cur' \in [Procs -> Batches \cup {None}]
        BY <2>2, <3>1 DEF TypeOK
      <4>3. slots' \in [Procs -> Int]
        BY <2>4, <3>1 DEF TypeOK
      <4>4. idx' \in [Procs -> Nat]
        BY <3>1 DEF TypeOK
      <4> QED
        BY <4>1, <4>2, <4>3, <4>4
    <3>2. CASE UNCHANGED <<cur, idx, slots, pc>>
      BY <3>2 DEF TypeOK
    <3> QED
      BY <1>2, <3>1, <3>2 DEF Start
  <2>7. \A q \in Procs : pc'[q] = "idle" => closing'[q] \cup opening'[q] = {} /\ ~dirty'[q]
    BY <2>5, <2>6 DEF TypeOK
  <2> QED
    BY <2>3, <2>5, <2>6, <2>7 DEF TypeOK
<1>3. ASSUME NEW p \in Procs, AutoFlush(p) PROVE TypeOK'
  <2>1. UNCHANGED <<sent, queue, cur, idx, pc, slots, waited, target, closing, opening,
                     status, age, lock, lockLeft, keyLeft, outlived>>
    BY <1>3 DEF AutoFlush, session, redisLock, clocks
  <2>2. rows' \in [Trades \cup {Account} -> Procs \cup {None}]
    BY <1>3 DEF AutoFlush, TypeOK
  <2>3. dirty' \in [Procs -> BOOLEAN] /\ \A q \in Procs : dirty'[q] => dirty[q]
    BY <1>3 DEF AutoFlush, TypeOK
  <2> QED
    BY <2>2, <2>3, <2>1 DEF TypeOK
<1>4. ASSUME NEW p \in Procs, NothingToClose(p) PROVE TypeOK'
  <2>1. UNCHANGED <<sent, queue, cur, slots, waited, target, closing, opening, dirty,
                     rows, status, age, lock, lockLeft, keyLeft, outlived>>
    BY <1>4 DEF NothingToClose, session, redisLock, clocks
  <2>2. /\ pc' \in [Procs -> Labels] /\ idx' \in [Procs -> Nat]
        /\ \A q \in Procs : pc'[q] = "idle" => q # p /\ pc[q] = "idle"
    <3>1. CASE slots[p] > 0
      <4>1. Goto(p, "locking") /\ idx' = idx /\ "locking" \in Labels
        BY <1>4, <3>1 DEF NothingToClose, WantSlot, Labels
      <4> QED
        BY <4>1, MoveTyped DEF TypeOK
    <3>2. CASE ~(slots[p] > 0)
      <4>1. NextResult(p)
        BY <1>4, <3>2 DEF NothingToClose, WantSlot
      <4> QED
        BY <4>1, AdvanceTyped DEF TypeOK
    <3> QED
      BY <3>1, <3>2
  <2>3. \A q \in Procs : pc'[q] = "idle" =>
           closing'[q] \cup opening'[q] = {} /\ ~dirty'[q]
    BY <1>4, <2>2, <2>1 DEF NothingToClose, TypeOK
  <2> QED
    BY <2>2, <2>3, <2>1 DEF TypeOK
<1>5. ASSUME NEW p \in Procs, FindReverse(p) PROVE TypeOK'
  <2>1. UNCHANGED <<sent, queue, cur, idx, slots, waited, closing, opening, dirty, rows,
                     status, age, lock, lockLeft, keyLeft, outlived>>
    BY <1>5 DEF FindReverse, session, redisLock, clocks
  <2>2. /\ pc' \in [Procs -> Labels]
        /\ \A q \in Procs : pc'[q] = "idle" => q # p /\ pc[q] = "idle"
    BY <1>5, MoveTyped DEF FindReverse, TypeOK, Labels
  <2>3. target' \in [Procs -> Trades \cup {None}]
    BY <1>5 DEF FindReverse, TypeOK
  <2>4. \A q \in Procs : pc'[q] = "idle" =>
           closing'[q] \cup opening'[q] = {} /\ ~dirty'[q]
    BY <1>5, <2>2, <2>1 DEF FindReverse, TypeOK
  <2> QED
    BY <2>2, <2>3, <2>4, <2>1 DEF TypeOK
<1>6. ASSUME NEW p \in Procs, CloseReverse(p) PROVE TypeOK'
  <2>1. UNCHANGED <<sent, queue, cur, waited, opening, status, age, lock, lockLeft, keyLeft, outlived>>
    BY <1>6 DEF CloseReverse, session, redisLock, clocks
  <2>2. /\ pc' \in [Procs -> Labels] /\ idx' \in [Procs -> Nat]
        /\ \A q \in Procs : pc'[q] = "idle" => q # p /\ pc[q] = "idle"
    <3>1. CASE slots[p] + 1 > 0
      <4>1. Goto(p, "locking") /\ idx' = idx /\ "locking" \in Labels
        BY <1>6, <3>1 DEF CloseReverse, WantSlot, Labels
      <4> QED
        BY <4>1, MoveTyped DEF TypeOK
    <3>2. CASE ~(slots[p] + 1 > 0)
      <4>1. NextResult(p)
        BY <1>6, <3>2 DEF CloseReverse, WantSlot
      <4> QED
        BY <4>1, AdvanceTyped DEF TypeOK
    <3> QED
      BY <3>1, <3>2
  <2>3. rows' = [rows EXCEPT ![target[p]] = p] /\ target[p] \in Trades
    BY <1>6 DEF CloseReverse, BatchInv, Placed
  <2>4. rows' \in [Trades \cup {Account} -> Procs \cup {None}]
    BY <2>3 DEF TypeOK
  <2>5. closing' = [closing EXCEPT ![p] = closing[p] \cup {target[p]}] /\ target[p] \in Trades
    BY <1>6 DEF CloseReverse, BatchInv, Placed
  <2>6. closing' \in [Procs -> SUBSET Trades]
    BY <2>5 DEF TypeOK
  <2>7. dirty' \in [Procs -> BOOLEAN]
    BY <1>6 DEF CloseReverse, TypeOK
  <2>8. slots' \in [Procs -> Int]
    BY <1>6 DEF CloseReverse, TypeOK
  <2>9. target' \in [Procs -> Trades \cup {None}]
    BY <1>6 DEF CloseReverse, TypeOK
  <2>10. \A q \in Procs : pc'[q] = "idle" =>
           closing'[q] \cup opening'[q] = {} /\ ~dirty'[q]
    BY <1>6, <2>2, <2>1 DEF CloseReverse, TypeOK, BatchInv, Placed
  <2> QED
    BY <2>2, <2>4, <2>6, <2>7, <2>8, <2>9, <2>10, <2>1 DEF TypeOK
<1>7. ASSUME NEW p \in Procs, Acquire(p) PROVE TypeOK'
  <2>1. UNCHANGED <<sent, queue, cur, idx, slots, target, closing, opening, dirty, rows,
                     status, age, keyLeft, outlived>>
    BY <1>7 DEF Acquire, session, redisLock, clocks
  <2>2. /\ pc' \in [Procs -> Labels]
        /\ \A q \in Procs : pc'[q] = "idle" => q # p /\ pc[q] = "idle"
    BY <1>7, MoveTyped DEF Acquire, TypeOK, Labels
  <2>3. lock' \in Procs \cup {None} /\ lockLeft' \in 0 .. LockTTL
    BY <1>7, BatchAssumption DEF Acquire
  <2>4. waited' \in [Procs -> Nat]
    BY <1>7 DEF Acquire, TypeOK
  <2>5. \A q \in Procs : pc'[q] = "idle" =>
           closing'[q] \cup opening'[q] = {} /\ ~dirty'[q]
    BY <1>7, <2>2, <2>1 DEF Acquire, TypeOK
  <2> QED
    BY <2>2, <2>3, <2>4, <2>5, <2>1 DEF TypeOK
<1>8. ASSUME NEW p \in Procs, GiveUp(p) PROVE TypeOK'
  <2>1. UNCHANGED <<sent, queue, cur, slots, target, closing, opening, dirty, rows,
                     status, age, lock, lockLeft, keyLeft, outlived>>
    BY <1>8 DEF GiveUp, session, redisLock, clocks
  <2>2. /\ pc' \in [Procs -> Labels] /\ idx' \in [Procs -> Nat]
        /\ \A q \in Procs : pc'[q] = "idle" => q # p /\ pc[q] = "idle"
    BY <1>8, AdvanceTyped DEF GiveUp, TypeOK
  <2>3. waited' \in [Procs -> Nat]
    BY <1>8 DEF GiveUp, TypeOK
  <2>4. \A q \in Procs : pc'[q] = "idle" =>
           closing'[q] \cup opening'[q] = {} /\ ~dirty'[q]
    BY <1>8, <2>2, <2>1 DEF GiveUp, TypeOK
  <2> QED
    BY <2>2, <2>3, <2>4, <2>1 DEF TypeOK
<1>9. ASSUME NEW p \in Procs, Recount(p) PROVE TypeOK'
  <2>1. UNCHANGED <<sent, queue, cur, slots, waited, target, closing, opening, dirty,
                     rows, status, age, keyLeft, outlived>>
    BY <1>9 DEF Recount, session, redisLock, clocks
  <2>2. /\ pc' \in [Procs -> Labels] /\ idx' \in [Procs -> Nat]
        /\ \A q \in Procs : pc'[q] = "idle" => q # p /\ pc[q] = "idle"
        /\ lock' \in Procs \cup {None} /\ lockLeft' \in 0 .. LockTTL
    <3>1. CASE Cardinality(Found(p)) < MaxOpen
      <4>1. /\ Goto(p, "counted") /\ "counted" \in Labels
            /\ UNCHANGED <<idx, lock, lockLeft>>
        BY <1>9, <3>1 DEF Recount, redisLock, Labels
      <4> QED
        BY <4>1, MoveTyped DEF TypeOK
    <3>2. CASE ~(Cardinality(Found(p)) < MaxOpen)
      <4>1. NextResult(p) /\ Unlock(p)
        BY <1>9, <3>2 DEF Recount
      <4> QED
        BY <4>1, AdvanceTyped, UnlockTyped DEF TypeOK
    <3> QED
      BY <3>1, <3>2
  <2>3. \A q \in Procs : pc'[q] = "idle" =>
           closing'[q] \cup opening'[q] = {} /\ ~dirty'[q]
    BY <1>9, <2>2, <2>1 DEF Recount, TypeOK
  <2> QED
    BY <2>2, <2>3, <2>1 DEF TypeOK
<1>10. ASSUME NEW p \in Procs, CheckKey(p) PROVE TypeOK'
  <2>1. UNCHANGED <<sent, queue, cur, slots, waited, target, closing, opening, dirty,
                     rows, status, age, keyLeft, outlived>>
    BY <1>10 DEF CheckKey, session, redisLock, clocks
  <2>2. /\ pc' \in [Procs -> Labels] /\ idx' \in [Procs -> Nat]
        /\ \A q \in Procs : pc'[q] = "idle" => q # p /\ pc[q] = "idle"
        /\ lock' \in Procs \cup {None} /\ lockLeft' \in 0 .. LockTTL
    <3>1. CASE keyLeft[Result(p)] = 0
      <4>1. /\ Goto(p, "checked") /\ "checked" \in Labels
            /\ UNCHANGED <<idx, lock, lockLeft>>
        BY <1>10, <3>1 DEF CheckKey, redisLock, Labels
      <4> QED
        BY <4>1, MoveTyped DEF TypeOK
    <3>2. CASE ~(keyLeft[Result(p)] = 0)
      <4>1. NextResult(p) /\ Unlock(p)
        BY <1>10, <3>2 DEF CheckKey
      <4> QED
        BY <4>1, AdvanceTyped, UnlockTyped DEF TypeOK
    <3> QED
      BY <3>1, <3>2
  <2>3. \A q \in Procs : pc'[q] = "idle" =>
           closing'[q] \cup opening'[q] = {} /\ ~dirty'[q]
    BY <1>10, <2>2, <2>1 DEF CheckKey, TypeOK
  <2> QED
    BY <2>2, <2>3, <2>1 DEF TypeOK
<1>11. ASSUME NEW p \in Procs, CheckPosition(p) PROVE TypeOK'
  <2>1. UNCHANGED <<sent, queue, cur, idx, slots, waited, target, closing, opening,
                     dirty, rows, status, age, lock, lockLeft, keyLeft, outlived>>
    BY <1>11 DEF CheckPosition, session, redisLock, clocks
  <2>2. Goto(p, "inserting") \/ Goto(p, "committing")
    BY <1>11 DEF CheckPosition
  <2>3. /\ pc' \in [Procs -> Labels]
        /\ \A q \in Procs : pc'[q] = "idle" => q # p /\ pc[q] = "idle"
    BY <2>2, MoveTyped DEF TypeOK, Labels
  <2>4. \A q \in Procs : pc'[q] = "idle" =>
           closing'[q] \cup opening'[q] = {} /\ ~dirty'[q]
    BY <1>11, <2>3, <2>1 DEF CheckPosition, TypeOK
  <2> QED
    BY <2>3, <2>4, <2>1 DEF TypeOK
<1>12. ASSUME NEW p \in Procs, Insert(p) PROVE TypeOK'
  <2>1. UNCHANGED <<sent, queue, cur, idx, slots, waited, target, closing, dirty,
                     status, age, lock, lockLeft, keyLeft, outlived>>
    BY <1>12 DEF Insert, session, redisLock, clocks
  <2>2. /\ pc' \in [Procs -> Labels]
        /\ \A q \in Procs : pc'[q] = "idle" => q # p /\ pc[q] = "idle"
    BY <1>12, MoveTyped DEF Insert, TypeOK, Labels
  <2>3. rows' \in [Trades \cup {Account} -> Procs \cup {None}]
    BY <1>12 DEF Insert, TypeOK
  <2>4. <<cur[p], idx[p]>> \in Trades
    BY <1>12, ResultPlace DEF Insert, BatchInv
  <2>5. opening' \in [Procs -> SUBSET Trades]
    BY <1>12, <2>4 DEF Insert, TypeOK
  <2>6. \A q \in Procs : pc'[q] = "idle" =>
           closing'[q] \cup opening'[q] = {} /\ ~dirty'[q]
    BY <1>12, <2>2, <2>1 DEF Insert, TypeOK
  <2> QED
    BY <2>2, <2>3, <2>5, <2>6, <2>1 DEF TypeOK
<1>13. ASSUME NEW p \in Procs, SetKey(p) PROVE TypeOK'
  <2>1. UNCHANGED <<sent, queue, cur, idx, waited, target, closing, opening, dirty,
                     rows, status, age, lock, lockLeft, outlived>>
    BY <1>13 DEF SetKey, session, redisLock, clocks
  <2>2. /\ pc' \in [Procs -> Labels]
        /\ \A q \in Procs : pc'[q] = "idle" => q # p /\ pc[q] = "idle"
    BY <1>13, MoveTyped DEF SetKey, TypeOK, Labels
  <2>3. DedupTTL \in 0 .. DedupTTL
    BY BatchAssumption
  <2>4. keyLeft' \in [Signals -> 0 .. DedupTTL]
    BY <1>13, <2>3 DEF SetKey, TypeOK
  <2>5. slots' \in [Procs -> Int]
    BY <1>13 DEF SetKey, TypeOK
  <2>6. \A q \in Procs : pc'[q] = "idle" =>
           closing'[q] \cup opening'[q] = {} /\ ~dirty'[q]
    BY <1>13, <2>2, <2>1 DEF SetKey, TypeOK
  <2> QED
    BY <2>2, <2>4, <2>5, <2>6, <2>1 DEF TypeOK
<1>14. ASSUME NEW p \in Procs, Commit(p) PROVE TypeOK'
  <2>1. UNCHANGED <<sent, queue, cur, idx, slots, waited, target, dirty, lock, lockLeft,
                     keyLeft, outlived>>
    BY <1>14 DEF Commit, session, redisLock, clocks
  <2>2. /\ pc' \in [Procs -> Labels]
        /\ \A q \in Procs : pc'[q] = "idle" => q # p /\ pc[q] = "idle"
    BY <1>14, MoveTyped DEF Commit, TypeOK, Labels
  <2>3. Save(p)
    BY <1>14 DEF Commit
  <2>4. /\ status' \in [Trades -> {"none", "open", "closed"}] /\ age' \in [Trades -> 0 .. DedupTTL]
        /\ closing' \in [Procs -> SUBSET Trades] /\ opening' \in [Procs -> SUBSET Trades]
        /\ rows' \in [Trades \cup {Account} -> Procs \cup {None}]
        /\ \A q \in Procs : closing'[q] \cup opening'[q] \subseteq closing[q] \cup opening[q]
    BY <2>3, SaveTyped
  <2>5. \A q \in Procs : pc'[q] = "idle" =>
           closing'[q] \cup opening'[q] = {} /\ ~dirty'[q]
    BY <2>2, <2>4, <2>1 DEF TypeOK
  <2> QED
    BY <2>2, <2>4, <2>5, <2>1 DEF TypeOK
<1>15. ASSUME NEW p \in Procs, LeaveLock(p) PROVE TypeOK'
  <2>1. UNCHANGED <<sent, queue, cur, slots, waited, target, closing, opening, dirty,
                     rows, status, age, keyLeft, outlived>>
    BY <1>15 DEF LeaveLock, session, redisLock, clocks
  <2>2. /\ pc' \in [Procs -> Labels] /\ idx' \in [Procs -> Nat]
        /\ \A q \in Procs : pc'[q] = "idle" => q # p /\ pc[q] = "idle"
    BY <1>15, AdvanceTyped DEF LeaveLock, TypeOK
  <2>3. lock' \in Procs \cup {None} /\ lockLeft' \in 0 .. LockTTL
    BY <1>15, UnlockTyped DEF LeaveLock, TypeOK
  <2>4. \A q \in Procs : pc'[q] = "idle" =>
           closing'[q] \cup opening'[q] = {} /\ ~dirty'[q]
    BY <1>15, <2>2, <2>1 DEF LeaveLock, TypeOK
  <2> QED
    BY <2>2, <2>3, <2>4, <2>1 DEF TypeOK
<1>16. ASSUME NEW p \in Procs, Finish(p) PROVE TypeOK'
  <2>1. UNCHANGED <<sent, queue, dirty, lock, lockLeft, keyLeft, outlived>>
    BY <1>16 DEF Finish, session, redisLock, clocks
  <2>2. Save(p) /\ EndBatch(p) /\ ~dirty[p]
    BY <1>16 DEF Finish
  <2>3. /\ pc' \in [Procs -> Labels] /\ cur' \in [Procs -> Batches \cup {None}]
        /\ idx' \in [Procs -> Nat] /\ slots' \in [Procs -> Int] /\ waited' \in [Procs -> Nat]
        /\ target' \in [Procs -> Trades \cup {None}]
        /\ \A q \in Procs : pc'[q] = "idle" => q = p \/ pc[q] = "idle"
    BY <2>2, EndTyped
  <2>4. /\ status' \in [Trades -> {"none", "open", "closed"}] /\ age' \in [Trades -> 0 .. DedupTTL]
        /\ closing' \in [Procs -> SUBSET Trades] /\ opening' \in [Procs -> SUBSET Trades]
        /\ rows' \in [Trades \cup {Account} -> Procs \cup {None}]
        /\ \A q \in Procs : closing'[q] \cup opening'[q] \subseteq closing[q] \cup opening[q]
        /\ closing'[p] \cup opening'[p] = {}
    BY <2>2, SaveTyped
  <2>5. \A q \in Procs : pc'[q] = "idle" =>
           closing'[q] \cup opening'[q] = {} /\ ~dirty'[q]
    BY <2>2, <2>3, <2>4, <2>1 DEF TypeOK
  <2> QED
    BY <2>3, <2>4, <2>5, <2>1 DEF TypeOK
<1>17. ASSUME NEW p \in Procs, Abort(p) PROVE TypeOK'
  <2>1. UNCHANGED <<sent, queue, status, age, keyLeft, outlived>>
    BY <1>17 DEF Abort, session, redisLock, clocks
  <2>2. Rollback(p) /\ EndBatch(p)
    BY <1>17 DEF Abort, Rollback
  <2>3. /\ pc' \in [Procs -> Labels] /\ cur' \in [Procs -> Batches \cup {None}]
        /\ idx' \in [Procs -> Nat] /\ slots' \in [Procs -> Int] /\ waited' \in [Procs -> Nat]
        /\ target' \in [Procs -> Trades \cup {None}]
        /\ \A q \in Procs : pc'[q] = "idle" => q = p \/ pc[q] = "idle"
    BY <2>2, EndTyped
  <2>4. /\ closing' \in [Procs -> SUBSET Trades] /\ opening' \in [Procs -> SUBSET Trades]
        /\ dirty' \in [Procs -> BOOLEAN] /\ rows' \in [Trades \cup {Account} -> Procs \cup {None}]
        /\ \A q \in Procs : q = p \/ (closing[q] \cup opening[q] = {} /\ ~dirty[q])
                              => closing'[q] \cup opening'[q] = {} /\ ~dirty'[q]
    BY <2>2, RollbackTyped
  <2>5. lock' \in Procs \cup {None} /\ lockLeft' \in 0 .. LockTTL
    <3>1. CASE InLock(p)
      BY <1>17, <3>1, UnlockTyped DEF Abort, TypeOK
    <3>2. CASE ~InLock(p)
      BY <1>17, <3>2 DEF Abort, redisLock, TypeOK
    <3> QED
      BY <3>1, <3>2
  <2>6. \A q \in Procs : pc'[q] = "idle" =>
           closing'[q] \cup opening'[q] = {} /\ ~dirty'[q]
    BY <2>3, <2>4 DEF TypeOK
  <2> QED
    BY <2>3, <2>4, <2>5, <2>6, <2>1 DEF TypeOK
<1>18. ASSUME NEW p \in Procs, Crash(p) PROVE TypeOK'
  <2>1. UNCHANGED <<sent, status, age, lock, lockLeft, keyLeft, outlived>>
    BY <1>18 DEF Crash, session, redisLock, clocks
  <2>2. Rollback(p) /\ EndBatch(p)
    BY <1>18 DEF Crash, Rollback
  <2>3. /\ pc' \in [Procs -> Labels] /\ cur' \in [Procs -> Batches \cup {None}]
        /\ idx' \in [Procs -> Nat] /\ slots' \in [Procs -> Int] /\ waited' \in [Procs -> Nat]
        /\ target' \in [Procs -> Trades \cup {None}]
        /\ \A q \in Procs : pc'[q] = "idle" => q = p \/ pc[q] = "idle"
    BY <2>2, EndTyped
  <2>4. /\ closing' \in [Procs -> SUBSET Trades] /\ opening' \in [Procs -> SUBSET Trades]
        /\ dirty' \in [Procs -> BOOLEAN] /\ rows' \in [Trades \cup {Account} -> Procs \cup {None}]
        /\ \A q \in Procs : q = p \/ (closing[q] \cup opening[q] = {} /\ ~dirty[q])
                              => closing'[q] \cup opening'[q] = {} /\ ~dirty'[q]
    BY <2>2, RollbackTyped
  <2>5. <<>> \in Queues
    BY BatchAssumption DEF Queues
  <2>6. queue' \in [Procs -> Queues]
    BY <1>18, <2>5 DEF Crash, TypeOK
  <2>7. \A q \in Procs : pc'[q] = "idle" =>
           closing'[q] \cup opening'[q] = {} /\ ~dirty'[q]
    BY <2>3, <2>4 DEF TypeOK
  <2> QED
    BY <2>3, <2>4, <2>6, <2>7, <2>1 DEF TypeOK
<1>19. ASSUME Tick PROVE TypeOK'
  <2>1. \A n \in Nat : /\ Down(n) \in Nat /\ Down(n) <= n
                       /\ \A k \in Nat : n <= k => Down(n) \in 0 .. k
    BY DEF Down
  <2>2. DedupTTL \in Nat /\ LockTTL \in Nat
    BY BatchAssumption
  <2>3. \A n \in 0 .. DedupTTL : Older(n) \in 0 .. DedupTTL /\ 0 \in 0 .. DedupTTL
    BY <2>2 DEF Older
  <2>4. lockLeft' \in 0 .. LockTTL
    BY <1>19, <2>1, <2>2 DEF Tick, TypeOK
  <2>5. keyLeft' \in [Signals -> 0 .. DedupTTL]
    <3>1. \A s \in Signals : Down(keyLeft[s]) \in 0 .. DedupTTL
      BY <2>1, <2>2 DEF TypeOK
    <3> QED
      BY <1>19, <3>1 DEF Tick
  <2>6. age' \in [Trades -> 0 .. DedupTTL]
    <3>1. \A t \in Trades : (IF status[t] = "none" THEN 0 ELSE Older(age[t])) \in 0 .. DedupTTL
      BY <2>2, <2>3 DEF TypeOK
    <3> QED
      BY <1>19, <3>1 DEF Tick
  <2>7. waited' \in [Procs -> Nat]
    <3>1. \A q \in Procs : waited[q] \in Nat /\ waited[q] + 1 \in Nat
      BY DEF TypeOK
    <3> QED
      BY <1>19, <3>1 DEF Tick
  <2>8. outlived' \subseteq Procs /\ lock' \in Procs \cup {None}
    BY <1>19 DEF Tick, TypeOK
  <2>9. UNCHANGED <<sent, queue, cur, idx, pc, slots, target, closing, opening, dirty, rows,
                    status>>
    BY <1>19 DEF Tick, session
  <2> QED
    BY <2>4, <2>5, <2>6, <2>7, <2>8, <2>9 DEF TypeOK
<1>20. CASE UNCHANGED vars
  BY <1>20 DEF vars, session, redisLock, clocks, TypeOK
<1> QED
  BY <1>1, <1>2, <1>3, <1>4, <1>5, <1>6, <1>7, <1>8, <1>9, <1>10, <1>11, <1>12,
     <1>13, <1>14, <1>15, <1>16, <1>17, <1>18, <1>19, <1>20
  DEF Next, Work

LEMMA PlacedPreserved == BatchInv /\ [Next]_vars => Placed'
<1> SUFFICES ASSUME BatchInv, [Next]_vars PROVE Placed'
  OBVIOUS
<1> USE DEF BatchInv, TypeOK, Placed, Goto
<1>1. ASSUME NEW b \in Batches, Enqueue(b) PROVE Placed'
  BY <1>1, SMTT(60) DEF Enqueue, session, redisLock, clocks
<1>2. ASSUME NEW p \in Procs, Start(p) PROVE Placed'
  <2>1. Head(queue[p]) \in Batches
    BY <1>2, TakeHead DEF Start, Queues
  <2>2. CASE /\ cur' = [cur EXCEPT ![p] = Head(queue[p])]
             /\ idx' = [idx EXCEPT ![p] = 1]
             /\ pc' = [pc EXCEPT ![p] = "result"]
    <3>1. target' = target
      BY <1>2 DEF Start
    <3> QED
      BY <2>1, <2>2, <3>1, SMTT(30)
  <2>3. CASE UNCHANGED <<cur, idx, slots, pc>>
    BY <1>2, <2>3 DEF Start
  <2> QED
    BY <1>2, <2>2, <2>3 DEF Start
<1>3. ASSUME NEW p \in Procs, AutoFlush(p) PROVE Placed'
  BY <1>3, SMTT(60) DEF AutoFlush, session, redisLock, clocks
<1>4. ASSUME NEW p \in Procs, NothingToClose(p) PROVE Placed'
  <2>1. /\ pc[p] = "result" /\ idx[p] <= Len(Results[cur[p]])
        /\ UNCHANGED <<sent, queue, cur, slots, waited, target, closing,
                       opening, dirty, rows, status, age, lock, lockLeft,
                       keyLeft, outlived>>
    BY <1>4 DEF NothingToClose, session, redisLock, clocks
  <2>2. CASE slots[p] > 0
    <3>1. pc' = [pc EXCEPT ![p] = "locking"] /\ idx' = idx
      BY <1>4, <2>2 DEF NothingToClose, WantSlot, NextResult, redisLock
    <3> QED
      BY <2>1, <3>1, SMTT(30)
  <2>3. CASE ~(slots[p] > 0)
    <3>1. pc' = [pc EXCEPT ![p] = "result"] /\ idx' = [idx EXCEPT ![p] = idx[p] + 1]
      BY <1>4, <2>3 DEF NothingToClose, WantSlot, NextResult, redisLock
    <3> QED
      BY <2>1, <3>1, SMTT(30)
  <2> QED
    BY <2>2, <2>3
<1>5. ASSUME NEW p \in Procs, FindReverse(p) PROVE Placed'
  BY <1>5, SMTT(60) DEF FindReverse, session, redisLock, clocks
<1>6. ASSUME NEW p \in Procs, CloseReverse(p) PROVE Placed'
  BY <1>6, SMTT(60) DEF CloseReverse, WantSlot, NextResult, session, redisLock,
      clocks
<1>7. ASSUME NEW p \in Procs, Acquire(p) PROVE Placed'
  <2>1. /\ UNCHANGED <<cur, idx, target>>
        /\ pc[p] = "locking" /\ pc' = [pc EXCEPT ![p] = "locked"]
    BY <1>7 DEF Acquire
  <2> QED
    BY <2>1, SMTT(60)
<1>8. ASSUME NEW p \in Procs, GiveUp(p) PROVE Placed'
  BY <1>8, SMTT(60) DEF GiveUp, NextResult, session, redisLock, clocks
<1>9. ASSUME NEW p \in Procs, Recount(p) PROVE Placed'
  BY <1>9, SMTT(60) DEF Recount, NextResult, session, redisLock, clocks
<1>10. ASSUME NEW p \in Procs, CheckKey(p) PROVE Placed'
  BY <1>10, SMTT(60) DEF CheckKey, NextResult, session, redisLock, clocks
<1>11. ASSUME NEW p \in Procs, CheckPosition(p) PROVE Placed'
  BY <1>11, SMTT(60) DEF CheckPosition, session, redisLock, clocks
<1>12. ASSUME NEW p \in Procs, Insert(p) PROVE Placed'
  BY <1>12, SMTT(60) DEF Insert, session, redisLock, clocks
<1>13. ASSUME NEW p \in Procs, SetKey(p) PROVE Placed'
  BY <1>13, SMTT(60) DEF SetKey, session, redisLock, clocks
<1>14. ASSUME NEW p \in Procs, Commit(p) PROVE Placed'
  BY <1>14, SMTT(60) DEF Commit, session, redisLock, clocks
<1>15. ASSUME NEW p \in Procs, LeaveLock(p) PROVE Placed'
  BY <1>15, SMTT(60) DEF LeaveLock, NextResult, session, redisLock, clocks
<1>16. ASSUME NEW p \in Procs, Finish(p) PROVE Placed'
  BY <1>16, SMTT(60) DEF Finish, EndBatch, session, redisLock, clocks
<1>17. ASSUME NEW p \in Procs, Abort(p) PROVE Placed'
  BY <1>17, SMTT(60) DEF Abort, Rollback, EndBatch, session, redisLock, clocks
<1>18. ASSUME NEW p \in Procs, Crash(p) PROVE Placed'
  BY <1>18, SMTT(60) DEF Crash, Rollback, EndBatch, session, redisLock, clocks
<1>19. ASSUME Tick PROVE Placed'
  BY <1>19, SMTT(60) DEF Tick, session, redisLock, clocks
<1>20. CASE UNCHANGED vars
  BY <1>20 DEF vars, session, redisLock, clocks
<1> QED
  BY <1>1, <1>2, <1>3, <1>4, <1>5, <1>6, <1>7, <1>8, <1>9, <1>10, <1>11, <1>12,
     <1>13, <1>14, <1>15, <1>16, <1>17, <1>18, <1>19, <1>20
  DEF Next, Work

LEMMA InsertedPreserved == BatchInv /\ [Next]_vars => Inserted'
<1> SUFFICES ASSUME BatchInv, [Next]_vars PROVE Inserted'
  OBVIOUS
<1> USE BatchAssumption
<1> USE DEF BatchInv, TypeOK, Inserted, Goto
<1>1. ASSUME NEW b \in Batches, Enqueue(b) PROVE Inserted'
  BY <1>1, SMTT(60) DEF Enqueue, session, redisLock, clocks
<1>2. ASSUME NEW p \in Procs, Start(p) PROVE Inserted'
  BY <1>2, SMTT(60) DEF Start, session, redisLock, clocks
<1>3. ASSUME NEW p \in Procs, AutoFlush(p) PROVE Inserted'
  BY <1>3, SMTT(60) DEF AutoFlush, session, redisLock, clocks
<1>4. ASSUME NEW p \in Procs, NothingToClose(p) PROVE Inserted'
  <2>1. /\ pc[p] = "result" /\ idx[p] <= Len(Results[cur[p]])
        /\ UNCHANGED <<sent, queue, cur, slots, waited, target, closing,
                       opening, dirty, rows, status, age, lock, lockLeft,
                       keyLeft, outlived>>
    BY <1>4 DEF NothingToClose, session, redisLock, clocks
  <2>2. CASE slots[p] > 0
    <3>1. pc' = [pc EXCEPT ![p] = "locking"] /\ idx' = idx
      BY <1>4, <2>2 DEF NothingToClose, WantSlot, NextResult, redisLock
    <3> QED
      BY <2>1, <3>1, SMTT(30)
  <2>3. CASE ~(slots[p] > 0)
    <3>1. pc' = [pc EXCEPT ![p] = "result"] /\ idx' = [idx EXCEPT ![p] = idx[p] + 1]
      BY <1>4, <2>3 DEF NothingToClose, WantSlot, NextResult, redisLock
    <3> QED
      BY <2>1, <3>1, SMTT(30)
  <2> QED
    BY <2>2, <2>3
<1>5. ASSUME NEW p \in Procs, FindReverse(p) PROVE Inserted'
  BY <1>5, SMTT(60) DEF FindReverse, session, redisLock, clocks
<1>6. ASSUME NEW p \in Procs, CloseReverse(p) PROVE Inserted'
  <2>1. /\ pc[p] = "closing"
        /\ UNCHANGED <<sent, queue, cur, waited, opening, status, age, lock,
                       lockLeft, keyLeft, outlived>>
    BY <1>6 DEF CloseReverse, session, redisLock, clocks
  <2>2. /\ rows' = [rows EXCEPT ![target[p]] = p]
        /\ closing' = [closing EXCEPT ![p] = closing[p] \cup {target[p]}]
        /\ dirty' = [dirty EXCEPT ![p] = TRUE]
        /\ slots' = [slots EXCEPT ![p] = slots[p] + 1]
        /\ target' = [target EXCEPT ![p] = None]
        /\ pc[p] = "closing" /\ target[p] \in Trades
    BY <1>6 DEF CloseReverse, Placed
  <2>3. CASE slots[p] + 1 > 0
    <3>1. pc' = [pc EXCEPT ![p] = "locking"] /\ idx' = idx
      BY <1>6, <2>3 DEF CloseReverse, WantSlot, NextResult, redisLock
    <3> QED
      BY <2>1, <2>2, <3>1, SMTT(30)
  <2>4. CASE ~(slots[p] + 1 > 0)
    <3>1. pc' = [pc EXCEPT ![p] = "result"] /\ idx' = [idx EXCEPT ![p] = idx[p] + 1]
      BY <1>6, <2>4 DEF CloseReverse, WantSlot, NextResult, redisLock
    <3> QED
      BY <2>1, <2>2, <3>1, SMTT(30)
  <2> QED
    BY <2>3, <2>4
<1>7. ASSUME NEW p \in Procs, Acquire(p) PROVE Inserted'
  BY <1>7, SMTT(60) DEF Acquire, session, redisLock, clocks
<1>8. ASSUME NEW p \in Procs, GiveUp(p) PROVE Inserted'
  BY <1>8, SMTT(60) DEF GiveUp, NextResult, session, redisLock, clocks
<1>9. ASSUME NEW p \in Procs, Recount(p) PROVE Inserted'
  <2>1. /\ pc[p] = "locked"
        /\ UNCHANGED <<sent, queue, cur, slots, waited, target, closing,
                       opening, dirty, rows, status, age, keyLeft, outlived>>
    BY <1>9 DEF Recount, session, redisLock, clocks
  <2>2. CASE Cardinality(Found(p)) < MaxOpen
    <3>1. pc' = [pc EXCEPT ![p] = "counted"] /\ UNCHANGED <<idx, lock, lockLeft>>
      BY <1>9, <2>2 DEF Recount, WantSlot, NextResult, redisLock
    <3> QED
      BY <2>1, <3>1, SMTT(30)
  <2>3. CASE ~(Cardinality(Found(p)) < MaxOpen)
    <3>1. pc' = [pc EXCEPT ![p] = "result"] /\ idx' = [idx EXCEPT ![p] = idx[p] + 1]
      BY <1>9, <2>3 DEF Recount, WantSlot, NextResult, redisLock
    <3> QED
      BY <2>1, <3>1, SMTT(30)
  <2> QED
    BY <2>2, <2>3
<1>10. ASSUME NEW p \in Procs, CheckKey(p) PROVE Inserted'
  <2>1. /\ pc[p] = "counted"
        /\ UNCHANGED <<sent, queue, cur, slots, waited, target, closing,
                       opening, dirty, rows, status, age, keyLeft, outlived>>
    BY <1>10 DEF CheckKey, session, redisLock, clocks
  <2>2. CASE keyLeft[Result(p)] = 0
    <3>1. pc' = [pc EXCEPT ![p] = "checked"] /\ UNCHANGED <<idx, lock, lockLeft>>
      BY <1>10, <2>2 DEF CheckKey, WantSlot, NextResult, redisLock
    <3> QED
      BY <2>1, <3>1, SMTT(30)
  <2>3. CASE ~(keyLeft[Result(p)] = 0)
    <3>1. pc' = [pc EXCEPT ![p] = "result"] /\ idx' = [idx EXCEPT ![p] = idx[p] + 1]
      BY <1>10, <2>3 DEF CheckKey, WantSlot, NextResult, redisLock
    <3> QED
      BY <2>1, <3>1, SMTT(30)
  <2> QED
    BY <2>2, <2>3
<1>11. ASSUME NEW p \in Procs, CheckPosition(p) PROVE Inserted'
  <2>1. /\ pc[p] = "checked"
        /\ UNCHANGED <<sent, queue, cur, idx, slots, waited, target, closing,
                       opening, dirty, rows, status, age, lock, lockLeft,
                       keyLeft, outlived>>
    BY <1>11 DEF CheckPosition, session, redisLock, clocks
  <2>2. CASE pc' = [pc EXCEPT ![p] = "inserting"]
    <3>1. pc[p] = "checked"
      BY <1>11, <2>2 DEF CheckPosition, WantSlot, NextResult, redisLock
    <3> QED
      BY <2>1, <2>2, <3>1, SMTT(30)
  <2>3. CASE pc' = [pc EXCEPT ![p] = "committing"]
    <3>1. pc[p] = "checked"
      BY <1>11, <2>3 DEF CheckPosition, WantSlot, NextResult, redisLock
    <3> QED
      BY <2>1, <2>3, <3>1, SMTT(30)
  <2> QED
    BY <1>11, <2>2, <2>3 DEF CheckPosition
<1>12. ASSUME NEW p \in Procs, Insert(p) PROVE Inserted'
  BY <1>12, SMTT(60) DEF Insert, session, redisLock, clocks
<1>13. ASSUME NEW p \in Procs, SetKey(p) PROVE Inserted'
  BY <1>13, SMTT(60) DEF SetKey, session, redisLock, clocks
<1>14. ASSUME NEW p \in Procs, Commit(p) PROVE Inserted'
  BY <1>14, SMTT(60) DEF Commit, Save, session, redisLock, clocks
<1>15. ASSUME NEW p \in Procs, LeaveLock(p) PROVE Inserted'
  BY <1>15, SMTT(60) DEF LeaveLock, NextResult, session, redisLock, clocks
<1>16. ASSUME NEW p \in Procs, Finish(p) PROVE Inserted'
  BY <1>16, SMTT(60) DEF Finish, Save, EndBatch, session, redisLock, clocks
<1>17. ASSUME NEW p \in Procs, Abort(p) PROVE Inserted'
  BY <1>17, SMTT(60) DEF Abort, Rollback, EndBatch, session, redisLock, clocks
<1>18. ASSUME NEW p \in Procs, Crash(p) PROVE Inserted'
  BY <1>18, SMTT(60) DEF Crash, Rollback, EndBatch, session, redisLock, clocks
<1>19. ASSUME Tick PROVE Inserted'
  BY <1>19, SMTT(60) DEF Tick, session, redisLock, clocks
<1>20. CASE UNCHANGED vars
  BY <1>20 DEF vars, session, redisLock, clocks
<1> QED
  BY <1>1, <1>2, <1>3, <1>4, <1>5, <1>6, <1>7, <1>8, <1>9, <1>10, <1>11, <1>12,
     <1>13, <1>14, <1>15, <1>16, <1>17, <1>18, <1>19, <1>20
  DEF Next, Work

LEMMA LockPreserved == BatchInv /\ [Next]_vars => LockHeld'
<1> SUFFICES ASSUME BatchInv, [Next]_vars PROVE LockHeld'
  OBVIOUS
<1> USE BatchAssumption
<1> USE DEF BatchInv, TypeOK, LockHeld, InLock, Goto
<1>1. ASSUME NEW b \in Batches, Enqueue(b) PROVE LockHeld'
  BY <1>1, SMTT(60) DEF Enqueue, session, redisLock, clocks
<1>2. ASSUME NEW p \in Procs, Start(p) PROVE LockHeld'
  BY <1>2, SMTT(60) DEF Start, session, redisLock, clocks
<1>3. ASSUME NEW p \in Procs, AutoFlush(p) PROVE LockHeld'
  BY <1>3, SMTT(60) DEF AutoFlush, session, redisLock, clocks
<1>4. ASSUME NEW p \in Procs, NothingToClose(p) PROVE LockHeld'
  BY <1>4, SMTT(60) DEF NothingToClose, WantSlot, NextResult, session,
      redisLock, clocks
<1>5. ASSUME NEW p \in Procs, FindReverse(p) PROVE LockHeld'
  BY <1>5, SMTT(60) DEF FindReverse, session, redisLock, clocks
<1>6. ASSUME NEW p \in Procs, CloseReverse(p) PROVE LockHeld'
  BY <1>6, SMTT(60) DEF CloseReverse, WantSlot, NextResult, session, redisLock,
      clocks
<1>7. ASSUME NEW p \in Procs, Acquire(p) PROVE LockHeld'
  BY <1>7, SMTT(60) DEF Acquire, session, redisLock, clocks, LockFree
<1>8. ASSUME NEW p \in Procs, GiveUp(p) PROVE LockHeld'
  BY <1>8, SMTT(60) DEF GiveUp, NextResult, session, redisLock, clocks
<1>9. ASSUME NEW p \in Procs, Recount(p) PROVE LockHeld'
  BY <1>9, SMTT(60) DEF Recount, NextResult, Unlock, session, redisLock, clocks
<1>10. ASSUME NEW p \in Procs, CheckKey(p) PROVE LockHeld'
  BY <1>10, SMTT(60) DEF CheckKey, NextResult, Unlock, session, redisLock,
      clocks
<1>11. ASSUME NEW p \in Procs, CheckPosition(p) PROVE LockHeld'
  BY <1>11, SMTT(60) DEF CheckPosition, session, redisLock, clocks
<1>12. ASSUME NEW p \in Procs, Insert(p) PROVE LockHeld'
  BY <1>12, SMTT(60) DEF Insert, session, redisLock, clocks
<1>13. ASSUME NEW p \in Procs, SetKey(p) PROVE LockHeld'
  BY <1>13, SMTT(60) DEF SetKey, session, redisLock, clocks
<1>14. ASSUME NEW p \in Procs, Commit(p) PROVE LockHeld'
  BY <1>14, SMTT(60) DEF Commit, session, redisLock, clocks
<1>15. ASSUME NEW p \in Procs, LeaveLock(p) PROVE LockHeld'
  BY <1>15, SMTT(60) DEF LeaveLock, Unlock, NextResult, session, redisLock,
      clocks
<1>16. ASSUME NEW p \in Procs, Finish(p) PROVE LockHeld'
  BY <1>16, SMTT(60) DEF Finish, EndBatch, session, redisLock, clocks
<1>17. ASSUME NEW p \in Procs, Abort(p) PROVE LockHeld'
  BY <1>17, SMTT(60) DEF Abort, Rollback, EndBatch, Unlock, session, redisLock,
      clocks
<1>18. ASSUME NEW p \in Procs, Crash(p) PROVE LockHeld'
  BY <1>18, SMTT(60) DEF Crash, Rollback, EndBatch, session, redisLock, clocks
<1>19. ASSUME Tick PROVE LockHeld'
  BY <1>19, SMTT(60) DEF Tick, session, redisLock, clocks, Down
<1>20. CASE UNCHANGED vars
  BY <1>20 DEF vars, session, redisLock, clocks
<1> QED
  BY <1>1, <1>2, <1>3, <1>4, <1>5, <1>6, <1>7, <1>8, <1>9, <1>10, <1>11, <1>12,
     <1>13, <1>14, <1>15, <1>16, <1>17, <1>18, <1>19, <1>20
  DEF Next, Work

LEMMA NeverForgotten == ASSUME [Next]_vars, outlived' = {} PROVE outlived = {}
  BY DEF Next, Work, vars, clocks, Enqueue, Start, AutoFlush, NothingToClose,
      FindReverse, CloseReverse, Acquire, GiveUp, Recount, CheckKey,
      CheckPosition, Insert, SetKey, Commit, LeaveLock, Finish, Abort, Crash,
      Tick, Save, Rollback

-----------------------------------------------------------------------------
(* Positions.                                                              *)

(* Positions are opened and closed by commits only, and the last commit of *)
(* a batch opens none.                                                     *)
LEMMA Saves ==
  ASSUME BatchInv, [Next]_vars, UNCHANGED status => FALSE
  PROVE  \E p \in Procs :
           /\ \/ Commit(p)
              \/ Finish(p) /\ opening[p] = {}
           /\ Open' = (Open \ closing[p]) \cup opening[p]
<1>1. PICK p \in Procs : Commit(p) \/ Finish(p)
  BY DEF Next, Work, vars, Enqueue, Start, AutoFlush, NothingToClose, FindReverse,
      CloseReverse, Acquire, GiveUp, Recount, CheckKey, CheckPosition, Insert, SetKey,
      LeaveLock, Abort, Crash, Tick
<1>2. Finish(p) => opening[p] = {}
  BY DEF Finish, BatchInv, Inserted
<1>3. Open' = (Open \ closing[p]) \cup opening[p]
  <2>1. opening[p] \subseteq Trades
    BY DEF BatchInv, TypeOK
  <2> QED
    BY <1>1, <2>1 DEF Commit, Finish, Save, Open
<1> QED
  BY <1>1, <1>2, <1>3

(* While p may insert, the only commit is that of p.                       *)
LEMMA OthersOnlyClose ==
  ASSUME BatchInv, [Next]_vars, outlived = {}, NEW p \in Procs, InLock(p), ~Commit(p)
  PROVE  Open' \subseteq Open
<1>1. CASE UNCHANGED status
  BY <1>1 DEF Open
<1>2. CASE ~UNCHANGED status
  <2>1. PICK q \in Procs :
           /\ Commit(q) \/ (Finish(q) /\ opening[q] = {})
           /\ Open' = (Open \ closing[q]) \cup opening[q]
    BY <1>2, Saves
  <2>2. CASE Commit(q)
    <3>1. InLock(q)
      BY <2>2 DEF Commit, InLock
    <3>2. q = p
      BY <3>1 DEF BatchInv, LockHeld
    <3> QED
      BY <2>2, <3>2
  <2> QED
    BY <2>1, <2>2
<1> QED
  BY <1>1, <1>2

(* A step of p leads it towards the insertion only after the count and the *)
(* look at the symbol; what it has closed and where it is stay the same.   *)
LEMMA Approach ==
  ASSUME BatchInv, [Next]_vars, NEW p \in Procs, Opens(p)'
  PROVE  /\ InLock(p) /\ ~Commit(p)
         /\ UNCHANGED <<closing[p], cur[p], idx[p]>>
         /\ Opens(p) \/ (pc[p] = "locked" /\ Cardinality(Found(p)) < MaxOpen)
         /\ Alone(p)' => Alone(p) \/ (pc[p] = "checked" /\ SamePosition(p) = {})
<1> USE DEF BatchInv, TypeOK, Inserted, Goto, Opens, Alone, InLock
<1> DEFINE Goal == /\ InLock(p) /\ ~Commit(p)
                   /\ UNCHANGED <<closing[p], cur[p], idx[p]>>
                   /\ Opens(p) \/ (pc[p] = "locked" /\ Cardinality(Found(p)) < MaxOpen)
                   /\ Alone(p)' => Alone(p) \/ (pc[p] = "checked" /\ SamePosition(p) = {})
<1>1. ASSUME NEW b \in Batches, Enqueue(b) PROVE Goal
  BY <1>1 DEF Enqueue, session, Commit
<1>2. ASSUME NEW q \in Procs, Start(q) PROVE Goal
  BY <1>2 DEF Start, session, Commit
<1>3. ASSUME NEW q \in Procs, AutoFlush(q) PROVE Goal
  BY <1>3 DEF AutoFlush, session, Commit
<1>4. ASSUME NEW q \in Procs, NothingToClose(q) PROVE Goal
  BY <1>4 DEF NothingToClose, WantSlot, NextResult, session, Commit
<1>5. ASSUME NEW q \in Procs, FindReverse(q) PROVE Goal
  BY <1>5 DEF FindReverse, session, Commit
<1>6. ASSUME NEW q \in Procs, CloseReverse(q) PROVE Goal
  BY <1>6 DEF CloseReverse, WantSlot, NextResult, session, Commit
<1>7. ASSUME NEW q \in Procs, Acquire(q) PROVE Goal
  BY <1>7 DEF Acquire, session, Commit
<1>8. ASSUME NEW q \in Procs, GiveUp(q) PROVE Goal
  BY <1>8 DEF GiveUp, NextResult, session, Commit
<1>9. ASSUME NEW q \in Procs, Recount(q) PROVE Goal
  BY <1>9 DEF Recount, NextResult, session, Commit
<1>10. ASSUME NEW q \in Procs, CheckKey(q) PROVE Goal
  BY <1>10 DEF CheckKey, NextResult, session, Commit
<1>11. ASSUME NEW q \in Procs, CheckPosition(q) PROVE Goal
  BY <1>11 DEF CheckPosition, session, Commit
<1>12. ASSUME NEW q \in Procs, Insert(q) PROVE Goal
  BY <1>12 DEF Insert, session, Commit
<1>13. ASSUME NEW q \in Procs, SetKey(q) PROVE Goal
  BY <1>13 DEF SetKey, session, Commit
<1>14. ASSUME NEW q \in Procs, Commit(q) PROVE Goal
  BY <1>14 DEF Commit, Save, session
<1>15. ASSUME NEW q \in Procs, LeaveLock(q) PROVE Goal
  BY <1>15 DEF LeaveLock, NextResult, session, Commit
<1>16. ASSUME NEW q \in Procs, Finish(q) PROVE Goal
  BY <1>16 DEF Finish, Save, EndBatch, session, Commit
<1>17. ASSUME NEW q \in Procs, Abort(q) PROVE Goal
  BY <1>17 DEF Abort, Rollback, EndBatch, session, Commit
<1>18. ASSUME NEW q \in Procs, Crash(q) PROVE Goal
  BY <1>18 DEF Crash, Rollback, EndBatch, session, Commit
<1>19. ASSUME Tick PROVE Goal
  BY <1>19 DEF Tick, session, Commit
<1>20. CASE UNCHANGED vars
  BY <1>20 DEF vars, session, Commit
<1> QED
  BY <1>1, <1>2, <1>3, <1>4, <1>5, <1>6, <1>7, <1>8, <1>9, <1>10, <1>11, <1>12,
     <1>13, <1>14, <1>15, <1>16, <1>17, <1>18, <1>19, <1>20
  DEF Next, Work

LEMMA RoomPreserved == BatchInv /\ [Next]_vars => Room'
<1> SUFFICES ASSUME BatchInv, [Next]_vars, outlived' = {}, NEW p \in Procs, Opens(p)'
             PROVE  /\ Cardinality(Open \ closing[p])' < MaxOpen
                    /\ Alone(p)' => \A t \in (Open \ closing[p])' :
                                       Sym[SignalOf(t)] # (Sym[Result(p)])'
  <2>1. \A p \in Procs : Alone(p)' => Opens(p)'
    BY DEF Alone, Opens
  <2> QED
    BY <2>1 DEF Room, SignalOf
<1>1. outlived = {}
  BY NeverForgotten
<1>2. /\ InLock(p) /\ ~Commit(p)
      /\ UNCHANGED <<closing[p], cur[p], idx[p]>>
      /\ Opens(p) \/ (pc[p] = "locked" /\ Cardinality(Found(p)) < MaxOpen)
      /\ Alone(p)' => Alone(p) \/ (pc[p] = "checked" /\ SamePosition(p) = {})
  BY Approach
<1>3. (Open \ closing[p])' \subseteq Open \ closing[p]
  BY <1>1, <1>2, OthersOnlyClose
<1>4. Open \ closing[p] \subseteq Found(p) /\ Found(p) \in SUBSET Trades
  BY OpenTrades DEF Found, BatchInv, TypeOK
<1>5. Cardinality(Open \ closing[p]) < MaxOpen
  <2>1. CASE Opens(p)
    BY <1>1, <2>1 DEF BatchInv, Room
  <2>2. CASE Cardinality(Found(p)) < MaxOpen
    <3>1. /\ Cardinality(Open \ closing[p]) \in Nat /\ Cardinality(Found(p)) \in Nat
          /\ Cardinality(Open \ closing[p]) <= Cardinality(Found(p))
      BY <1>4, Sizes
    <3> QED
      BY <2>2, <3>1, BatchAssumption
  <2> QED
    BY <1>2, <2>1, <2>2
<1>6. Cardinality(Open \ closing[p])' < MaxOpen
  <2> DEFINE S == Open \ closing[p]
             T == (Open \ closing[p])'
  <2>1. S \in SUBSET Trades /\ T \in SUBSET Trades /\ T \subseteq S
    BY <1>3, <1>4
  <2>2. Cardinality(S) \in Nat /\ Cardinality(T) \in Nat /\ Cardinality(T) <= Cardinality(S)
    BY <2>1, Sizes
  <2>3. Cardinality(S) < MaxOpen
    BY <1>5
  <2> HIDE DEF S, T
  <2>4. Cardinality(T) < MaxOpen
    BY <2>2, <2>3, BatchAssumption
  <2> QED
    BY <2>4 DEF T
<1>7. ASSUME Alone(p)', NEW t \in (Open \ closing[p])'
      PROVE  Sym[SignalOf(t)] # (Sym[Result(p)])'
  <2>1. t \in Open \ closing[p] /\ t \in Found(p) /\ t \in Trades
    BY <1>3, <1>4, <1>7
  <2>2. (Sym[Result(p)])' = Sym[Result(p)]
    BY <1>2 DEF Result
  <2>3. CASE Alone(p)
    BY <1>1, <2>1, <2>2, <2>3 DEF BatchInv, Room
  <2>4. CASE SamePosition(p) = {}
    BY <2>1, <2>2, <2>4 DEF SamePosition
  <2> QED
    BY <1>2, <1>7, <2>3, <2>4
<1> QED
  BY <1>6, <1>7

(* What is open after a step: nothing new, or one new trade where there    *)
(* was room for it.                                                        *)
LEMMA OneOpens ==
  ASSUME BatchInv, [Next]_vars, outlived' = {}
  PROVE  \/ Open' \subseteq Open
         \/ \E p \in Procs, t \in Trades :
              /\ Open' = (Open \ closing[p]) \cup {t}
              /\ Cardinality(Open \ closing[p]) < MaxOpen
              /\ \A u \in Open \ closing[p] : Sym[SignalOf(u)] # Sym[SignalOf(t)]
<1>1. outlived = {}
  BY NeverForgotten
<1>2. CASE UNCHANGED status
  BY <1>2 DEF Open
<1>3. CASE ~UNCHANGED status
  <2>1. PICK p \in Procs : Open' = (Open \ closing[p]) \cup opening[p]
    BY <1>3, Saves
  <2>2. CASE opening[p] = {}
    BY <2>1, <2>2
  <2>3. CASE opening[p] # {}
    <3>1. /\ opening[p] = {<<cur[p], idx[p]>>} /\ pc[p] \notin {"idle", "result"}
      BY <2>3 DEF BatchInv, Inserted
    <3>2. <<cur[p], idx[p]>> \in Trades /\ SignalOf(<<cur[p], idx[p]>>) = Result(p)
      BY <3>1, ResultPlace DEF BatchInv, SignalOf, Result
    <3>3. /\ Cardinality(Open \ closing[p]) < MaxOpen
          /\ \A u \in Open \ closing[p] : Sym[SignalOf(u)] # Sym[Result(p)]
      BY <1>1, <2>3 DEF BatchInv, Room, Opens, Alone
    <3> DEFINE t == <<cur[p], idx[p]>>
    <3>4. /\ t \in Trades /\ Open' = (Open \ closing[p]) \cup {t}
          /\ SignalOf(t) = Result(p)
      BY <2>1, <3>1, <3>2
    <3>5. \A u \in Open \ closing[p] : Sym[SignalOf(u)] # Sym[SignalOf(t)]
      BY <3>3, <3>4
    <3> HIDE DEF t
    <3>6. /\ Open' = (Open \ closing[p]) \cup {t}
          /\ Cardinality(Open \ closing[p]) < MaxOpen
          /\ \A u \in Open \ closing[p] : Sym[SignalOf(u)] # Sym[SignalOf(t)]
      BY <3>3, <3>4, <3>5
    <3> QED
      BY <3>4, <3>6, Zenon
  <2> QED
    BY <2>2, <2>3
<1> QED
  BY <1>2, <1>3

LEMMA CapPreserved == BatchInv /\ [Next]_vars => PositionCap'
<1> SUFFICES ASSUME BatchInv, [Next]_vars, outlived' = {}
             PROVE  Cardinality(Open)' <= MaxOpen
  BY DEF PositionCap
<1>1. Open \in SUBSET Trades /\ Cardinality(Open) \in Nat /\ Open' \in SUBSET Trades
  BY OpenTrades DEF Open
<1>2. Cardinality(Open)' = Cardinality(Open')
  OBVIOUS
<1>3. CASE Open' \subseteq Open
  <2>1. Cardinality(Open') \in Nat /\ Cardinality(Open') <= Cardinality(Open)
    BY <1>1, <1>3, Sizes
  <2>2. Cardinality(Open) <= MaxOpen
    BY NeverForgotten DEF BatchInv, PositionCap
  <2> QED
    BY <1>1, <2>1, <2>2, BatchAssumption
<1>4. ASSUME NEW p \in Procs, NEW t \in Trades, Open' = (Open \ closing[p]) \cup {t},
             Cardinality(Open \ closing[p]) < MaxOpen
      PROVE  Cardinality(Open)' <= MaxOpen
  <2>1. Open \ closing[p] \in SUBSET Trades
    BY <1>1
  <2>2. /\ Cardinality(Open') <= Cardinality(Open \ closing[p]) + 1
        /\ Cardinality(Open \ closing[p]) \in Nat /\ Cardinality(Open') \in Nat
    BY <1>1, <1>4, <2>1, OneMore, Sizes
  <2> QED
    BY <1>4, <2>2, BatchAssumption
<1> QED
  BY <1>3, <1>4, OneOpens

LEMMA SymbolPreserved == BatchInv /\ [Next]_vars => OnePerSymbol'
<1> SUFFICES ASSUME BatchInv, [Next]_vars, outlived' = {}, NEW t \in Open', NEW u \in Open',
                    Sym[SignalOf(t)] = Sym[SignalOf(u)]
             PROVE  t = u
  BY DEF OnePerSymbol, SignalOf
<1>1. \A x, y \in Open : Sym[SignalOf(x)] = Sym[SignalOf(y)] => x = y
  BY NeverForgotten DEF BatchInv, OnePerSymbol
<1>2. CASE Open' \subseteq Open
  BY <1>1, <1>2
<1>3. ASSUME NEW p \in Procs, NEW v \in Trades, Open' = (Open \ closing[p]) \cup {v},
             \A x \in Open \ closing[p] : Sym[SignalOf(x)] # Sym[SignalOf(v)]
      PROVE  t = u
  BY <1>1, <1>3
<1> QED
  BY <1>2, <1>3, OneOpens

-----------------------------------------------------------------------------
(* The deduplication keys.                                                 *)

\* From the look at the key to the commit.
Mine(p) == pc[p] \in {"checked", "inserting", "keying"} \/ opening[p] # {}

Later == Trades \ PastTrades

\* The key of a signal lives on for as long as its trade is young.
KeyKept ==
    \A u \in Later : status[u] # "none" => age[u] + keyLeft[SignalOf(u)] >= DedupTTL

\* No time passes between the setting of the key and the commit.
KeySet ==
    \A p \in Procs : pc[p] = "committing" /\ opening[p] # {} => keyLeft[Result(p)] = DedupTTL

\* Who has found no key finds no young trade of its signal until it commits.
KeyMissing ==
    outlived = {} =>
        \A p \in Procs : Mine(p) =>
            \A u \in Later : status[u] # "none" /\ SignalOf(u) = Result(p) =>
                                age[u] >= DedupTTL

\* A batch closes trades that were committed.
ClosesKnown ==
    \A p \in Procs : /\ \A t \in closing[p] : status[t] # "none"
                     /\ pc[p] = "closing" => status[target[p]] # "none"

KeyInv == KeyKept /\ KeySet /\ KeyMissing /\ ClosesKnown

LEMMA InitKey == Init => KeyInv
<1> SUFFICES ASSUME Init PROVE KeyInv
  OBVIOUS
<1>1. KeyKept /\ KeyMissing
  BY DEF Init, KeyKept, KeyMissing, Later, Mine
<1>2. KeySet /\ ClosesKnown
  BY DEF Init, KeySet, ClosesKnown
<1> QED
  BY <1>1, <1>2 DEF KeyInv

(* The clocks and the trades change by few actions.                        *)
LEMMA ClockSteps ==
  ASSUME BatchInv, [Next]_vars
  PROVE  \/ UNCHANGED <<status, age, keyLeft>>
         \/ Tick
         \/ \E p \in Procs : \/ SetKey(p)
                             \/ Commit(p)
                             \/ Finish(p) /\ opening[p] = {}
<1>1. ASSUME NEW p \in Procs, Finish(p) PROVE opening[p] = {}
  BY <1>1 DEF Finish, BatchInv, Inserted
<1> QED
  BY <1>1 DEF Next, Work, vars, clocks, Enqueue, Start, AutoFlush, NothingToClose,
      FindReverse, CloseReverse, Acquire, GiveUp, Recount, CheckKey, CheckPosition,
      Insert, LeaveLock, Abort, Crash

(* A signal's trade is a signal's.                                         *)
LEMMA SignalOfTrade == ASSUME NEW u \in Trades PROVE SignalOf(u) \in Signals
<1>1. PICK b \in Batches : u \in {b} \X (1 .. Len(Results[b]))
  BY DEF Trades
<1>2. Results[b] \in Seq(Signals) /\ u[1] = b /\ u[2] \in 1 .. Len(Results[b])
  BY <1>1, BatchAssumption
<1> QED
  BY <1>2 DEF SignalOf

(* A trade that was made stays on the books.                               *)
LEMMA NeverUnmade ==
  ASSUME BatchInv, KeyInv, [Next]_vars, NEW u \in Trades
  PROVE  /\ status[u] # "none" => status'[u] # "none"
         /\ status[u] = "none" /\ status'[u] # "none" =>
               \E p \in Procs : Commit(p) /\ u \in opening[p]
<1>1. CASE UNCHANGED status
  BY <1>1
<1>2. CASE ~UNCHANGED status
  <2>1. PICK p \in Procs : Commit(p) \/ (Finish(p) /\ opening[p] = {})
    BY <1>2, Saves
  <2>2. status'[u] = IF u \in opening[p] THEN "open"
                     ELSE IF u \in closing[p] THEN "closed" ELSE status[u]
    BY <2>1 DEF Commit, Finish, Save
  <2>3. u \in closing[p] => status[u] # "none"
    BY DEF KeyInv, ClosesKnown
  <2> QED
    BY <2>1, <2>2, <2>3
<1> QED
  BY <1>1, <1>2

(* Nobody ticks while one is about to commit.                              *)
LEMMA NoTickAtCommit ==
  ASSUME NEW p \in Procs, pc[p] = "committing" PROVE ~Tick
  BY DEF Tick, InLock, Blocked, WaitsFor, Wants

LEMMA KeptPreserved == BatchInv /\ KeyInv /\ [Next]_vars => KeyKept'
<1> SUFFICES ASSUME BatchInv, KeyInv, [Next]_vars, NEW u \in Later, status'[u] # "none"
             PROVE  age'[u] + keyLeft'[SignalOf(u)] >= DedupTTL
  BY DEF KeyKept, Later, PastTrades, Trades, SignalOf
<1> DEFINE s == SignalOf(u)
<1>1. u \in Trades /\ s \in Signals
  BY SignalOfTrade DEF Later
<1>2. /\ age[u] \in 0 .. DedupTTL /\ keyLeft[s] \in 0 .. DedupTTL /\ DedupTTL \in Nat
      /\ age \in [Trades -> 0 .. DedupTTL] /\ keyLeft \in [Signals -> 0 .. DedupTTL]
  BY <1>1, BatchAssumption DEF BatchInv, TypeOK
<1>3. status[u] # "none" => age[u] + keyLeft[s] >= DedupTTL
  BY DEF KeyInv, KeyKept
<1> HIDE DEF s
<1>4. CASE UNCHANGED <<status, age, keyLeft>>
  BY <1>3, <1>4 DEF s
<1>5. CASE Tick
  <2>1. status' = status
    BY <1>5 DEF Tick
  <2>2. age'[u] = Older(age[u]) /\ keyLeft'[s] = Down(keyLeft[s])
    BY <1>1, <1>5, <2>1 DEF Tick
  <2>3. Older(age[u]) + Down(keyLeft[s]) >= DedupTTL
    BY <1>2, <1>3, <2>1 DEF Older, Down
  <2> QED
    BY <2>2, <2>3 DEF s
<1>6. ASSUME NEW p \in Procs, SetKey(p) PROVE age'[u] + keyLeft'[s] >= DedupTTL
  <2>1. status' = status /\ age' = age
    BY <1>6 DEF SetKey, session, redisLock
  <2>2. keyLeft'[s] = DedupTTL \/ keyLeft'[s] = keyLeft[s]
    BY <1>1, <1>2, <1>6 DEF SetKey
  <2> QED
    BY <1>2, <1>3, <2>1, <2>2
<1>7. ASSUME NEW p \in Procs, Commit(p) \/ (Finish(p) /\ opening[p] = {})
      PROVE  age'[u] + keyLeft'[s] >= DedupTTL
  <2>1. keyLeft' = keyLeft /\ age'[u] = IF u \in opening[p] THEN 0 ELSE age[u]
    BY <1>1, <1>7 DEF Commit, Finish, Save
  <2>2. CASE u \in opening[p]
    <3>1. opening[p] = {<<cur[p], idx[p]>>} /\ pc[p] = "committing"
      BY <1>7, <2>2 DEF Commit, BatchInv, Inserted
    <3>2. s = Result(p)
      BY <2>2, <3>1 DEF s, SignalOf, Result
    <3>3. keyLeft[s] = DedupTTL
      BY <2>2, <3>1, <3>2 DEF KeyInv, KeySet
    <3> QED
      BY <1>2, <2>1, <2>2, <3>3
  <2>3. CASE u \notin opening[p]
    <3>1. status[u] # "none"
      <4>1. u \in closing[p] => status[u] # "none"
        BY DEF KeyInv, ClosesKnown
      <4>2. status'[u] = IF u \in closing[p] THEN "closed" ELSE status[u]
        BY <1>1, <1>7, <2>3 DEF Commit, Finish, Save
      <4> QED
        BY <4>1, <4>2
    <3> QED
      BY <1>3, <2>1, <2>3, <3>1
  <2> QED
    BY <2>2, <2>3
<1> QED
  BY <1>4, <1>5, <1>6, <1>7, ClockSteps DEF s

(* What leads a worker to its commit, and what it closes on the way.       *)
LEMMA Steps ==
  ASSUME BatchInv, [Next]_vars, NEW p \in Procs
  PROVE  /\ Mine(p)' => Mine(p) \/ (pc[p] = "counted" /\ keyLeft[Result(p)] = 0)
         /\ pc'[p] = "committing" /\ opening'[p] # {} =>
               SetKey(p) \/ (pc[p] = "committing" /\ opening[p] # {})
         /\ \A t \in closing'[p] : t \in closing[p] \/ (pc[p] = "closing" /\ t = target[p])
         /\ pc'[p] = "closing" =>
               \/ pc[p] = "closing" /\ target'[p] = target[p]
               \/ target'[p] \in Open
<1> USE DEF BatchInv, TypeOK, Inserted, Goto, Mine
<1> DEFINE Goal ==
         /\ Mine(p)' => Mine(p) \/ (pc[p] = "counted" /\ keyLeft[Result(p)] = 0)
         /\ pc'[p] = "committing" /\ opening'[p] # {} =>
               SetKey(p) \/ (pc[p] = "committing" /\ opening[p] # {})
         /\ \A t \in closing'[p] : t \in closing[p] \/ (pc[p] = "closing" /\ t = target[p])
         /\ pc'[p] = "closing" =>
               \/ pc[p] = "closing" /\ target'[p] = target[p]
               \/ target'[p] \in Open
<1>1. ASSUME NEW b \in Batches, Enqueue(b) PROVE Goal
  BY <1>1 DEF Enqueue, session
<1>2. ASSUME NEW q \in Procs, Start(q) PROVE Goal
  BY <1>2 DEF Start, session
<1>3. ASSUME NEW q \in Procs, AutoFlush(q) PROVE Goal
  BY <1>3 DEF AutoFlush, session
<1>4. ASSUME NEW q \in Procs, NothingToClose(q) PROVE Goal
  BY <1>4 DEF NothingToClose, WantSlot, NextResult, session
<1>5. ASSUME NEW q \in Procs, FindReverse(q) PROVE Goal
  <2>1. opening[q] = {}
    BY <1>5 DEF FindReverse
  <2>2. PICK t \in Trades : Reverse(q) = {t} /\ target' = [target EXCEPT ![q] = t]
    BY <1>5 DEF FindReverse
  <2>3. t \in Open
    BY <2>1, <2>2 DEF Reverse, Found
  <2> QED
    BY <1>5, <2>2, <2>3 DEF FindReverse, session
<1>6. ASSUME NEW q \in Procs, CloseReverse(q) PROVE Goal
  BY <1>6 DEF CloseReverse, WantSlot, NextResult, session
<1>7. ASSUME NEW q \in Procs, Acquire(q) PROVE Goal
  BY <1>7 DEF Acquire, session
<1>8. ASSUME NEW q \in Procs, GiveUp(q) PROVE Goal
  BY <1>8 DEF GiveUp, NextResult, session
<1>9. ASSUME NEW q \in Procs, Recount(q) PROVE Goal
  BY <1>9 DEF Recount, NextResult, session
<1>10. ASSUME NEW q \in Procs, CheckKey(q) PROVE Goal
  BY <1>10 DEF CheckKey, NextResult, session
<1>11. ASSUME NEW q \in Procs, CheckPosition(q) PROVE Goal
  BY <1>11 DEF CheckPosition, session
<1>12. ASSUME NEW q \in Procs, Insert(q) PROVE Goal
  BY <1>12 DEF Insert, session
<1>13. ASSUME NEW q \in Procs, SetKey(q) PROVE Goal
  BY <1>13 DEF SetKey, session
<1>14. ASSUME NEW q \in Procs, Commit(q) PROVE Goal
  BY <1>14 DEF Commit, Save, session
<1>15. ASSUME NEW q \in Procs, LeaveLock(q) PROVE Goal
  BY <1>15 DEF LeaveLock, NextResult, session
<1>16. ASSUME NEW q \in Procs, Finish(q) PROVE Goal
  BY <1>16 DEF Finish, Save, EndBatch, session
<1>17. ASSUME NEW q \in Procs, Abort(q) PROVE Goal
  BY <1>17 DEF Abort, Rollback, EndBatch, session
<1>18. ASSUME NEW q \in Procs, Crash(q) PROVE Goal
  BY <1>18 DEF Crash, Rollback, EndBatch, session
<1>19. ASSUME Tick PROVE Goal
  BY <1>19 DEF Tick, session
<1>20. CASE UNCHANGED vars
  BY <1>20 DEF vars, session
<1> QED
  BY <1>1, <1>2, <1>3, <1>4, <1>5, <1>6, <1>7, <1>8, <1>9, <1>10, <1>11, <1>12,
     <1>13, <1>14, <1>15, <1>16, <1>17, <1>18, <1>19, <1>20
  DEF Next, Work

LEMMA SetPreserved == BatchInv /\ KeyInv /\ [Next]_vars => KeySet'
<1> SUFFICES ASSUME BatchInv, KeyInv, [Next]_vars, NEW p \in Procs,
                    pc'[p] = "committing", opening'[p] # {}
             PROVE  keyLeft'[Result(p)'] = DedupTTL
  BY DEF KeySet
<1>1. Opens(p)'
  BY DEF Opens
<1>2. UNCHANGED <<cur[p], idx[p]>> /\ ~Commit(p) /\ InLock(p)
  BY <1>1, Approach
<1>3. Result(p)' = Result(p)
  BY <1>2 DEF Result
<1>4. Result(p) \in Signals /\ keyLeft \in [Signals -> 0 .. DedupTTL]
  BY <1>2, ResultPlace DEF InLock, BatchInv, TypeOK
<1>5. CASE SetKey(p)
  BY <1>3, <1>4, <1>5 DEF SetKey
<1>6. CASE pc[p] = "committing" /\ opening[p] # {}
  <2>1. keyLeft[Result(p)] = DedupTTL /\ ~Tick
    BY <1>6, NoTickAtCommit DEF KeyInv, KeySet
  <2>2. CASE UNCHANGED keyLeft
    BY <1>3, <2>1, <2>2
  <2>3. ASSUME NEW q \in Procs, SetKey(q) PROVE keyLeft'[Result(p)] = DedupTTL
    BY <1>4, <2>1, <2>3 DEF SetKey
  <2> QED
    BY <1>3, <2>1, <2>2, <2>3, ClockSteps DEF Commit, Finish
<1> QED
  BY <1>5, <1>6, Steps

LEMMA MissingPreserved == BatchInv /\ KeyInv /\ [Next]_vars => KeyMissing'
<1> SUFFICES ASSUME BatchInv, KeyInv, [Next]_vars, outlived' = {}, NEW p \in Procs, Mine(p)',
                    NEW u \in Later, status'[u] # "none", SignalOf(u) = Result(p)'
             PROVE  age'[u] >= DedupTTL
  BY DEF KeyMissing, Later, PastTrades, Trades, SignalOf
<1>1. Opens(p)' /\ outlived = {}
  BY NeverForgotten DEF Mine, Opens
<1>2. UNCHANGED <<cur[p], idx[p]>> /\ ~Commit(p) /\ InLock(p)
  BY <1>1, Approach
<1>3. SignalOf(u) = Result(p)
  BY <1>2 DEF Result
<1>4. \A q \in Procs : ~Commit(q)
  BY <1>1, <1>2 DEF Commit, InLock, BatchInv, LockHeld
<1>5. u \in Trades /\ age[u] \in 0 .. DedupTTL /\ DedupTTL \in Nat
  BY BatchAssumption DEF Later, BatchInv, TypeOK
<1>6. status[u] # "none"
  BY <1>4, <1>5, NeverUnmade
<1>7. age[u] >= DedupTTL
  <2>1. CASE Mine(p)
    BY <1>1, <1>3, <1>6, <2>1 DEF KeyInv, KeyMissing
  <2>2. CASE keyLeft[Result(p)] = 0
    BY <1>3, <1>5, <1>6, <2>2 DEF KeyInv, KeyKept
  <2> QED
    BY <2>1, <2>2, Steps
<1>8. CASE Tick
  <2>1. age'[u] = Older(age[u])
    BY <1>5, <1>6, <1>8 DEF Tick
  <2> QED
    BY <1>5, <1>7, <2>1 DEF Older
<1>9. ASSUME NEW q \in Procs, SetKey(q) PROVE age' = age
  BY <1>9 DEF SetKey
<1>10. ASSUME NEW q \in Procs, Finish(q), opening[q] = {} PROVE age'[u] = age[u]
  BY <1>5, <1>10 DEF Finish, Save
<1> QED
  BY <1>4, <1>7, <1>8, <1>9, <1>10, ClockSteps

LEMMA ClosesPreserved == BatchInv /\ KeyInv /\ [Next]_vars => ClosesKnown'
<1> SUFFICES ASSUME BatchInv, KeyInv, [Next]_vars, NEW p \in Procs
             PROVE  /\ \A t \in closing'[p] : status'[t] # "none"
                    /\ pc'[p] = "closing" => status'[target'[p]] # "none"
  BY DEF ClosesKnown
<1>1. \A t \in Trades : status[t] # "none" => status'[t] # "none"
  BY NeverUnmade
<1>2. /\ \A t \in closing[p] : t \in Trades /\ status[t] # "none"
      /\ pc[p] = "closing" => target[p] \in Trades /\ status[target[p]] # "none"
  BY DEF KeyInv, ClosesKnown, BatchInv, TypeOK, Placed
<1>3. \A t \in Open : t \in Trades /\ status[t] # "none"
  BY DEF Open
<1> QED
  BY <1>1, <1>2, <1>3, Steps

-----------------------------------------------------------------------------
(* The theorems.                                                           *)

LEMMA BatchInvariant == Spec => []BatchInv
<1>1. BatchInv /\ [Next]_vars => BatchInv'
  BY TypePreserved, PlacedPreserved, LockPreserved, InsertedPreserved, RoomPreserved,
      CapPreserved, SymbolPreserved DEF BatchInv
<1> QED
  BY InitBatch, <1>1, PTL DEF Spec

(* Every variable keeps its type, no queue grows past QueueMax, and a      *)
(* worker between two batches has nothing pending (AutoTraderQueue).       *)
THEOREM BatchTypeCorrect == Spec => []TypeOK
<1>1. BatchInv => TypeOK
  BY DEF BatchInv
<1> QED
  BY BatchInvariant, <1>1, PTL

(* The batches of all processes together keep max_open_positions as long   *)
(* as the Redis lock expired under nobody (_process_batch).                *)
THEOREM BatchKeepsCap == Spec => []PositionCap
<1>1. BatchInv => PositionCap
  BY DEF BatchInv
<1> QED
  BY BatchInvariant, <1>1, PTL

(* And they never open two positions in one symbol (_open_trade).          *)
THEOREM BatchOnePerSymbol == Spec => []OnePerSymbol
<1>1. BatchInv => OnePerSymbol
  BY DEF BatchInv
<1> QED
  BY BatchInvariant, <1>1, PTL

(* No signal is traded twice within the life of its key, as long as the    *)
(* Redis lock expired under nobody (execution_dedup in _process_batch).    *)
THEOREM BatchOncePerKey == Spec => OncePerKey
<1>1. BatchInv /\ KeyInv /\ [Next]_vars => KeyInv'
  BY KeptPreserved, SetPreserved, MissingPreserved, ClosesPreserved DEF KeyInv
<1>2. Spec => []KeyInv
  BY InitKey, BatchInvariant, <1>1, PTL DEF Spec
<1>3. ASSUME BatchInv, KeyInv, [Next]_vars, outlived' = {}, NEW t \in Trades, NEW u \in Trades,
             status[t] = "none", status'[t] = "open", u \notin PastTrades,
             status[u] # "none", SignalOf(u) = SignalOf(t)
      PROVE  age[u] >= DedupTTL
  <2>1. outlived = {}
    BY <1>3, NeverForgotten
  <2>2. PICK p \in Procs : Commit(p) /\ t \in opening[p]
    BY <1>3, NeverUnmade
  <2>3. opening[p] = {<<cur[p], idx[p]>>}
    BY <2>2, <1>3 DEF BatchInv, Inserted
  <2>4. SignalOf(t) = Result(p) /\ Mine(p)
    BY <2>2, <2>3 DEF SignalOf, Result, Mine
  <2> QED
    BY <1>3, <2>1, <2>4 DEF KeyInv, KeyMissing, Later
<1>4. BatchInv /\ KeyInv /\ [Next]_vars =>
        [outlived' = {} =>
           \A t, u \in Trades :
             /\ status[t] = "none" /\ status'[t] = "open"
             /\ u # t /\ u \notin PastTrades /\ status[u] # "none"
             /\ SignalOf(u) = SignalOf(t)
             => age[u] >= DedupTTL]_vars
  BY <1>3
<1> QED
  BY <1>2, <1>4, BatchInvariant, PTL DEF Spec, OncePerKey
=============================================================================
