--------------------------- MODULE SignalPoolProofs ---------------------------
(***************************************************************************)
(* Proofs about the signal pool: its types, that no accepted signal is     *)
(* lost in memory, and that its hashes in Redis are what is pending, for   *)
(* any symbols, signals, strategies and times.  PoolInv is inductive; its  *)
(* parts are proved one by one, each over all actions.  The last part is   *)
(* about the merge of a group, which is a fold over a list.                *)
(***************************************************************************)
EXTENDS SignalPool, FunctionTheorems, FiniteSetTheorems, WellFoundedInduction, TLAPS

(* Every step keeps the types, and a time for what is pending.             *)
LEMMA TypePreserved ==
  ASSUME PoolInv, [Next]_vars
  PROVE  TypeOK'
<1>1. ASSUME NEW s \in Signals, Accept(s) PROVE TypeOK'
  BY <1>1, PoolAssumption DEF Accept, IsNew, lock, recovery, PoolInv, TypeOK
<1>2. ASSUME NEW s \in Signals, AddSignal(s) PROVE TypeOK'
  BY <1>2, PoolAssumption DEF AddSignal, Put, Since, LockFree, SameSlot,
     recovery, redis, PoolInv, TypeOK
<1>3. ASSUME Save PROVE TypeOK'
  BY <1>3, PoolAssumption DEF Save, Put, LockFree, recovery, PoolInv, TypeOK
<1>4. ASSUME Expire PROVE TypeOK'
  <2>1. adding \in Signals /\ SymbolId[adding] \in Ids
    BY <1>4, PoolAssumption DEF PoolInv, TypeOK, Expire, LockFree
  <2>2. left' \in [Ids -> {None} \cup (1 .. MirrorTTL)]
    <3>1. MirrorTTL \in 1 .. MirrorTTL
      BY PoolAssumption
    <3> QED
      BY <1>4, <2>1, <3>1 DEF PoolInv, TypeOK, Expire
  <2> QED
    BY <1>4, <2>2 DEF PoolInv, TypeOK, Expire, recovery
<1>5. ASSUME SaveFails PROVE TypeOK'
  <2>1. SymbolId[adding] \in Ids
    BY <1>5, PoolAssumption DEF PoolInv, TypeOK, SaveFails, LockFree
  <2> QED
    BY <1>5, <2>1 DEF PoolInv, TypeOK, SaveFails, recovery, redis
<1>6. ASSUME CheckAndFlush PROVE TypeOK'
  BY <1>6, PoolAssumption DEF CheckAndFlush, LockFree, Ripe, lock, recovery,
     redis, PoolInv, TypeOK
<1>7. ASSUME HandOver PROVE TypeOK'
  BY <1>7, PoolAssumption DEF HandOver, lock, recovery, redis, PoolInv, TypeOK
<1>8. ASSUME NEW id \in Ids, Delete(id) PROVE TypeOK'
  BY <1>8, PoolAssumption DEF Delete, lock, recovery, PoolInv, TypeOK
<1>9. ASSUME NEW id \in Ids, DeleteFails(id) PROVE TypeOK'
  BY <1>9, PoolAssumption DEF DeleteFails, lock, recovery, redis, PoolInv,
     TypeOK
<1>10. ASSUME Crash PROVE TypeOK'
  BY <1>10, PoolAssumption DEF Crash, Forget, redis, PoolInv, TypeOK
<1>11. ASSUME Start PROVE TypeOK'
  BY <1>11, PoolAssumption DEF Start, lock, redis, PoolInv, TypeOK
<1>12. ASSUME NEW id \in Ids, ReadKey(id) PROVE TypeOK'
  BY <1>12, PoolAssumption DEF ReadKey, lock, redis, PoolInv, TypeOK
<1>13. ASSUME NEW id \in Ids, Restore(id) PROVE TypeOK'
  BY <1>13, PoolAssumption DEF Restore, Since, LockFree, Restored, SameSlot,
     lock, redis, PoolInv, TypeOK
<1>14. ASSUME RecoveryEnds PROVE TypeOK'
  BY <1>14, PoolAssumption DEF RecoveryEnds, lock, redis, PoolInv, TypeOK
<1>15. ASSUME NEW s \in Signals, OtherSaves(s) PROVE TypeOK'
  BY <1>15, PoolAssumption DEF OtherSaves, Put, lock, recovery, PoolInv,
     TypeOK
<1>16. ASSUME NEW id \in Ids, OtherDeletes(id) PROVE TypeOK'
  BY <1>16, PoolAssumption DEF OtherDeletes, lock, recovery, PoolInv, TypeOK
<1>17. ASSUME Tick PROVE TypeOK'
  <2>1. wait' \in [Ids -> {None} \cup 0..MaxWait]
    BY <1>17, PoolAssumption DEF Tick, PoolInv, TypeOK
  <2>2. \A id \in Ids : wait'[id] = None <=> pool'[id] = {}
    BY <1>17, PoolAssumption DEF Tick, PoolInv, TypeOK
  <2>3. left' \in [Ids -> {None} \cup 1..MirrorTTL]
    BY <1>17, PoolAssumption DEF Tick, PoolInv, TypeOK
  <2>4. dedupLeft' \in [Signals -> 0..DedupTTL]
    <3>1. DedupTTL \in Nat /\ dedupLeft \in [Signals -> 0..DedupTTL]
      BY PoolAssumption DEF PoolInv, TypeOK
    <3>2. \A n \in 0..DedupTTL : Down(n) \in 0..DedupTTL
      BY <3>1 DEF Down
    <3> QED
      BY <1>17, <3>1, <3>2 DEF Tick
  <2>5. heard' \subseteq Signals /\ mirror' \in [Ids -> SUBSET Signals]
        /\ spoiled' \subseteq Ids
    BY <1>17 DEF Tick, PoolInv, TypeOK
  <2> QED
    BY <1>17, <2>1, <2>2, <2>3, <2>4, <2>5 DEF Tick, lock, recovery, PoolInv,
       TypeOK
<1>18. ASSUME UNCHANGED vars PROVE TypeOK'
  BY <1>18 DEF PoolInv, TypeOK, vars, lock, recovery, redis
<1> QED
  BY <1>1, <1>2, <1>3, <1>4, <1>5, <1>6, <1>7, <1>8, <1>9,
     <1>10, <1>11, <1>12, <1>13, <1>14, <1>15, <1>16, <1>17, <1>18 DEF Next, Recover

(* Every step keeps signals in their slots.                                *)
LEMMA SortedPreserved ==
  ASSUME PoolInv, [Next]_vars
  PROVE  Sorted'
<1>1. ASSUME NEW s \in Signals, Accept(s) PROVE Sorted'
  BY <1>1, PoolAssumption DEF Accept, IsNew, lock, recovery, PoolInv, TypeOK,
     Sorted, Slotted
<1>2. ASSUME NEW s \in Signals, AddSignal(s) PROVE Sorted'
  BY <1>2, PoolAssumption DEF AddSignal, Put, Since, LockFree, SameSlot,
     recovery, redis, PoolInv, TypeOK, Sorted, Slotted
<1>3. ASSUME Save PROVE Sorted'
  BY <1>3, PoolAssumption DEF Save, Put, LockFree, recovery, PoolInv, TypeOK,
     Sorted, Slotted
<1>4. ASSUME Expire PROVE Sorted'
  BY <1>4, PoolAssumption DEF Expire, LockFree, recovery, PoolInv, TypeOK,
     Sorted, Slotted
<1>5. ASSUME SaveFails PROVE Sorted'
  BY <1>5, PoolAssumption DEF SaveFails, LockFree, recovery, redis, PoolInv,
     TypeOK, Sorted, Slotted
<1>6. ASSUME CheckAndFlush PROVE Sorted'
  BY <1>6, PoolAssumption DEF CheckAndFlush, LockFree, Ripe, lock, recovery,
     redis, PoolInv, TypeOK, Sorted, Slotted
<1>7. ASSUME HandOver PROVE Sorted'
  BY <1>7, PoolAssumption DEF HandOver, lock, recovery, redis, PoolInv,
     TypeOK, Sorted, Slotted
<1>8. ASSUME NEW id \in Ids, Delete(id) PROVE Sorted'
  BY <1>8, PoolAssumption DEF Delete, lock, recovery, PoolInv, TypeOK, Sorted,
     Slotted
<1>9. ASSUME NEW id \in Ids, DeleteFails(id) PROVE Sorted'
  BY <1>9, PoolAssumption DEF DeleteFails, lock, recovery, redis, PoolInv,
     TypeOK, Sorted, Slotted
<1>10. ASSUME Crash PROVE Sorted'
  BY <1>10, PoolAssumption DEF Crash, Forget, redis, PoolInv, TypeOK, Sorted,
     Slotted
<1>11. ASSUME Start PROVE Sorted'
  BY <1>11, PoolAssumption DEF Start, lock, redis, PoolInv, TypeOK, Sorted,
     Slotted
<1>12. ASSUME NEW id \in Ids, ReadKey(id) PROVE Sorted'
  BY <1>12, PoolAssumption DEF ReadKey, lock, redis, PoolInv, TypeOK, Sorted,
     Slotted
<1>13. ASSUME NEW id \in Ids, Restore(id) PROVE Sorted'
  BY <1>13, PoolAssumption DEF Restore, Since, LockFree, Restored, SameSlot,
     lock, redis, PoolInv, TypeOK, Sorted, Slotted
<1>14. ASSUME RecoveryEnds PROVE Sorted'
  BY <1>14, PoolAssumption DEF RecoveryEnds, lock, redis, PoolInv, TypeOK,
     Sorted, Slotted
<1>15. ASSUME NEW s \in Signals, OtherSaves(s) PROVE Sorted'
  BY <1>15, PoolAssumption DEF OtherSaves, Put, lock, recovery, PoolInv,
     TypeOK, Sorted, Slotted
<1>16. ASSUME NEW id \in Ids, OtherDeletes(id) PROVE Sorted'
  BY <1>16, PoolAssumption DEF OtherDeletes, lock, recovery, PoolInv, TypeOK,
     Sorted, Slotted
<1>17. ASSUME Tick PROVE Sorted'
  BY <1>17, PoolAssumption DEF Tick, LockFree, Down, lock, recovery, PoolInv,
     TypeOK, Sorted, Slotted
<1>18. ASSUME UNCHANGED vars PROVE Sorted'
  BY <1>18 DEF PoolInv, Sorted, Slotted, vars, lock, recovery, redis
<1> QED
  BY <1>1, <1>2, <1>3, <1>4, <1>5, <1>6, <1>7, <1>8, <1>9,
     <1>10, <1>11, <1>12, <1>13, <1>14, <1>15, <1>16, <1>17, <1>18 DEF Next, Recover

(* Every step keeps to the phases of the process.                          *)
LEMMA PhasesPreserved ==
  ASSUME PoolInv, [Next]_vars
  PROVE  Phases'
<1>1. ASSUME NEW s \in Signals, Accept(s) PROVE Phases'
  BY <1>1, PoolAssumption DEF Accept, IsNew, lock, recovery, PoolInv, TypeOK,
     Phases, LockFree, Pending
<1>2. ASSUME NEW s \in Signals, AddSignal(s) PROVE Phases'
  BY <1>2, PoolAssumption DEF AddSignal, Put, Since, SameSlot, recovery,
     redis, PoolInv, TypeOK, Phases, LockFree, Pending
<1>3. ASSUME Save PROVE Phases'
  BY <1>3, PoolAssumption DEF Save, Put, recovery, PoolInv, TypeOK, Phases,
     LockFree, Pending
<1>4. ASSUME Expire PROVE Phases'
  BY <1>4, PoolAssumption DEF Expire, recovery, PoolInv, TypeOK, Phases,
     LockFree, Pending
<1>5. ASSUME SaveFails PROVE Phases'
  BY <1>5, PoolAssumption DEF SaveFails, recovery, redis, PoolInv, TypeOK,
     Phases, LockFree, Pending
<1>6. ASSUME CheckAndFlush PROVE Phases'
  BY <1>6, PoolAssumption DEF CheckAndFlush, Ripe, lock, recovery, redis,
     PoolInv, TypeOK, Phases, LockFree, Pending
<1>7. ASSUME HandOver PROVE Phases'
  BY <1>7, PoolAssumption DEF HandOver, lock, recovery, redis, PoolInv,
     TypeOK, Phases, LockFree, Pending
<1>8. ASSUME NEW id \in Ids, Delete(id) PROVE Phases'
  BY <1>8, PoolAssumption DEF Delete, lock, recovery, PoolInv, TypeOK, Phases,
     LockFree, Pending
<1>9. ASSUME NEW id \in Ids, DeleteFails(id) PROVE Phases'
  BY <1>9, PoolAssumption DEF DeleteFails, lock, recovery, redis, PoolInv,
     TypeOK, Phases, LockFree, Pending
<1>10. ASSUME Crash PROVE Phases'
  BY <1>10, PoolAssumption DEF Crash, Forget, redis, PoolInv, TypeOK, Phases,
     LockFree, Pending
<1>11. ASSUME Start PROVE Phases'
  BY <1>11, PoolAssumption DEF Start, lock, redis, PoolInv, TypeOK, Phases,
     LockFree, Pending
<1>12. ASSUME NEW id \in Ids, ReadKey(id) PROVE Phases'
  BY <1>12, PoolAssumption DEF ReadKey, lock, redis, PoolInv, TypeOK, Phases,
     LockFree, Pending
<1>13. ASSUME NEW id \in Ids, Restore(id) PROVE Phases'
  BY <1>13, PoolAssumption DEF Restore, Since, Restored, SameSlot, lock,
     redis, PoolInv, TypeOK, Phases, LockFree, Pending
<1>14. ASSUME RecoveryEnds PROVE Phases'
  BY <1>14, PoolAssumption DEF RecoveryEnds, lock, redis, PoolInv, TypeOK,
     Phases, LockFree, Pending
<1>15. ASSUME NEW s \in Signals, OtherSaves(s) PROVE Phases'
  BY <1>15, PoolAssumption DEF OtherSaves, Put, lock, recovery, PoolInv,
     TypeOK, Phases, LockFree, Pending
<1>16. ASSUME NEW id \in Ids, OtherDeletes(id) PROVE Phases'
  BY <1>16, PoolAssumption DEF OtherDeletes, lock, recovery, PoolInv, TypeOK,
     Phases, LockFree, Pending
<1>17. ASSUME Tick PROVE Phases'
  BY <1>17, PoolAssumption DEF Tick, Down, lock, recovery, PoolInv, TypeOK,
     Phases, LockFree, Pending
<1>18. ASSUME UNCHANGED vars PROVE Phases'
  BY <1>18 DEF PoolInv, Phases, LockFree, Pending, vars, lock, recovery, redis
<1> QED
  BY <1>1, <1>2, <1>3, <1>4, <1>5, <1>6, <1>7, <1>8, <1>9,
     <1>10, <1>11, <1>12, <1>13, <1>14, <1>15, <1>16, <1>17, <1>18 DEF Next, Recover

(* Every step that takes a signal from the pool or from a group settles it.*)
LEMMA NothingLostPreserved ==
  ASSUME PoolInv, [Next]_vars
  PROVE  NothingLost'
<1>1. ASSUME NEW s \in Signals, Accept(s) PROVE NothingLost'
  BY <1>1, PoolAssumption DEF Accept, IsNew, lock, recovery, PoolInv, TypeOK,
     Sorted, Slotted, NothingLost, Pending
<1>2. ASSUME NEW s \in Signals, AddSignal(s) PROVE NothingLost'
  BY <1>2, PoolAssumption DEF AddSignal, Put, Since, LockFree, SameSlot,
     recovery, redis, PoolInv, TypeOK, Sorted, Slotted, NothingLost, Pending
<1>3. ASSUME Save PROVE NothingLost'
  BY <1>3, PoolAssumption DEF Save, Put, LockFree, recovery, PoolInv, TypeOK,
     Sorted, Slotted, NothingLost, Pending
<1>4. ASSUME Expire PROVE NothingLost'
  BY <1>4, PoolAssumption DEF Expire, LockFree, recovery, PoolInv, TypeOK,
     Sorted, Slotted, NothingLost, Pending
<1>5. ASSUME SaveFails PROVE NothingLost'
  BY <1>5, PoolAssumption DEF SaveFails, LockFree, recovery, redis, PoolInv,
     TypeOK, Sorted, Slotted, NothingLost, Pending
<1>6. ASSUME CheckAndFlush PROVE NothingLost'
  BY <1>6, PoolAssumption DEF CheckAndFlush, LockFree, Ripe, lock, recovery,
     redis, PoolInv, TypeOK, Sorted, Slotted, NothingLost, Pending
<1>7. ASSUME HandOver PROVE NothingLost'
  BY <1>7, PoolAssumption DEF HandOver, lock, recovery, redis, PoolInv,
     TypeOK, Sorted, Slotted, NothingLost, Pending
<1>8. ASSUME NEW id \in Ids, Delete(id) PROVE NothingLost'
  BY <1>8, PoolAssumption DEF Delete, lock, recovery, PoolInv, TypeOK, Sorted,
     Slotted, NothingLost, Pending
<1>9. ASSUME NEW id \in Ids, DeleteFails(id) PROVE NothingLost'
  BY <1>9, PoolAssumption DEF DeleteFails, lock, recovery, redis, PoolInv,
     TypeOK, Sorted, Slotted, NothingLost, Pending
<1>10. ASSUME Crash PROVE NothingLost'
  BY <1>10, PoolAssumption DEF Crash, Forget, redis, PoolInv, TypeOK, Sorted,
     Slotted, NothingLost, Pending
<1>11. ASSUME Start PROVE NothingLost'
  BY <1>11, PoolAssumption DEF Start, lock, redis, PoolInv, TypeOK, Sorted,
     Slotted, NothingLost, Pending
<1>12. ASSUME NEW id \in Ids, ReadKey(id) PROVE NothingLost'
  BY <1>12, PoolAssumption DEF ReadKey, lock, redis, PoolInv, TypeOK, Sorted,
     Slotted, NothingLost, Pending
<1>13. ASSUME NEW id \in Ids, Restore(id) PROVE NothingLost'
  BY <1>13, PoolAssumption DEF Restore, Since, LockFree, Restored, SameSlot,
     lock, redis, PoolInv, TypeOK, Sorted, Slotted, NothingLost, Pending
<1>14. ASSUME RecoveryEnds PROVE NothingLost'
  BY <1>14, PoolAssumption DEF RecoveryEnds, lock, redis, PoolInv, TypeOK,
     Sorted, Slotted, NothingLost, Pending
<1>15. ASSUME NEW s \in Signals, OtherSaves(s) PROVE NothingLost'
  BY <1>15, PoolAssumption DEF OtherSaves, Put, lock, recovery, PoolInv,
     TypeOK, Sorted, Slotted, NothingLost, Pending
<1>16. ASSUME NEW id \in Ids, OtherDeletes(id) PROVE NothingLost'
  BY <1>16, PoolAssumption DEF OtherDeletes, lock, recovery, PoolInv, TypeOK,
     Sorted, Slotted, NothingLost, Pending
<1>17. ASSUME Tick PROVE NothingLost'
  BY <1>17, PoolAssumption DEF Tick, LockFree, Down, lock, recovery, PoolInv,
     TypeOK, Sorted, Slotted, NothingLost, Pending
<1>18. ASSUME UNCHANGED vars PROVE NothingLost'
  BY <1>18 DEF PoolInv, NothingLost, Pending, vars, lock, recovery, redis
<1> QED
  BY <1>1, <1>2, <1>3, <1>4, <1>5, <1>6, <1>7, <1>8, <1>9,
     <1>10, <1>11, <1>12, <1>13, <1>14, <1>15, <1>16, <1>17, <1>18 DEF Next, Recover

(* Every step keeps the hashes that no accident has spoiled.               *)
LEMMA MirroredPreserved ==
  ASSUME PoolInv, [Next]_vars
  PROVE  Mirrored'
<1>1. ASSUME NEW s \in Signals, Accept(s) PROVE Mirrored'
  BY <1>1, PoolAssumption DEF Accept, IsNew, lock, recovery, PoolInv, TypeOK,
     Sorted, Slotted, Phases, Mirrored, MirrorToBe, Settled, LockFree
<1>2. ASSUME NEW s \in Signals, AddSignal(s) PROVE Mirrored'
  <2>1. \A id \in Ids :
          /\ MirrorToBe(id) = mirror[id]
          /\ id # SymbolId[s] => pool'[id] = pool[id] /\ MirrorToBe(id)' = mirror[id]
    BY <1>2, PoolAssumption DEF AddSignal, PoolInv, TypeOK, MirrorToBe, LockFree, redis
  <2>2. /\ pool'[SymbolId[s]] = Put(pool[SymbolId[s]], s)
        /\ MirrorToBe(SymbolId[s])' = Put(mirror[SymbolId[s]], s) \/ saved
    BY <1>2, PoolAssumption DEF AddSignal, PoolInv, TypeOK, MirrorToBe, LockFree, redis, Put
  <2>3. ~saved
    BY <1>2 DEF AddSignal, PoolInv, Phases, LockFree
  <2>4. ASSUME NEW i \in Ids \ (spoiled \cup deletes), phase # "down"
        PROVE  /\ pool'[i] \subseteq MirrorToBe(i)'
               /\ Settled(i) => MirrorToBe(i)' \subseteq pool'[i]
               /\ i \notin toRead => MirrorToBe(i)' \subseteq pool'[i] \cup read
    <3>1. /\ pool[i] \subseteq mirror[i]
          /\ Settled(i) => mirror[i] \subseteq pool[i]
          /\ i \notin toRead => mirror[i] \subseteq pool[i] \cup read
      BY <2>1, <2>4 DEF PoolInv, Mirrored
    <3>2. CASE i = SymbolId[s]
      BY <3>1, <3>2, <2>2, <2>3 DEF Put
    <3>3. CASE i # SymbolId[s]
      BY <3>1, <3>3, <2>1
    <3> QED
      BY <3>2, <3>3
  <2>5. /\ phase' = phase /\ spoiled' = spoiled /\ deletes' = deletes
        /\ toRead' = toRead /\ read' = read
    BY <1>2 DEF AddSignal, recovery
  <2> QED
    BY <2>4, <2>5 DEF Mirrored, Settled
<1>3. ASSUME Save PROVE Mirrored'
  BY <1>3, PoolAssumption DEF Save, Put, recovery, PoolInv, TypeOK, Sorted,
     Slotted, Phases, Mirrored, MirrorToBe, Settled, LockFree
<1>4. ASSUME Expire PROVE Mirrored'
  BY <1>4, PoolAssumption DEF Expire, recovery, PoolInv, TypeOK, Sorted,
     Slotted, Phases, Mirrored, MirrorToBe, Settled, LockFree
<1>5. ASSUME SaveFails PROVE Mirrored'
  BY <1>5, PoolAssumption DEF SaveFails, recovery, redis, PoolInv, TypeOK,
     Sorted, Slotted, Phases, Mirrored, MirrorToBe, Settled, LockFree
<1>6. ASSUME CheckAndFlush PROVE Mirrored'
  BY <1>6, PoolAssumption DEF CheckAndFlush, Ripe, lock, recovery, redis,
     PoolInv, TypeOK, Sorted, Slotted, Phases, Mirrored, MirrorToBe, Settled,
     LockFree
<1>7. ASSUME HandOver PROVE Mirrored'
  BY <1>7, PoolAssumption DEF HandOver, lock, recovery, redis, PoolInv,
     TypeOK, Sorted, Slotted, Phases, Mirrored, MirrorToBe, Settled, LockFree
<1>8. ASSUME NEW id \in Ids, Delete(id) PROVE Mirrored'
  BY <1>8, PoolAssumption DEF Delete, lock, recovery, PoolInv, TypeOK, Sorted,
     Slotted, Phases, Mirrored, MirrorToBe, Settled, LockFree
<1>9. ASSUME NEW id \in Ids, DeleteFails(id) PROVE Mirrored'
  BY <1>9, PoolAssumption DEF DeleteFails, lock, recovery, redis, PoolInv,
     TypeOK, Sorted, Slotted, Phases, Mirrored, MirrorToBe, Settled, LockFree
<1>10. ASSUME Crash PROVE Mirrored'
  BY <1>10, PoolAssumption DEF Crash, Forget, redis, PoolInv, TypeOK, Sorted,
     Slotted, Phases, Mirrored, MirrorToBe, Settled, LockFree
<1>11. ASSUME Start PROVE Mirrored'
  <2>1. \A id \in Ids : pool'[id] = {} /\ MirrorToBe(id)' = mirror[id]
    BY <1>11 DEF Start, PoolInv, Phases, Pending, MirrorToBe, LockFree, lock, redis
  <2> QED
    BY <1>11, <2>1 DEF Start, PoolInv, Phases, Mirrored, Settled
<1>12. ASSUME NEW id \in Ids, ReadKey(id) PROVE Mirrored'
  <2>1. \A i \in Ids : pool'[i] = pool[i] /\ MirrorToBe(i)' = MirrorToBe(i)
    BY <1>12 DEF ReadKey, MirrorToBe, LockFree, Put, lock, redis
  <2>2. MirrorToBe(id) \subseteq pool[id] \cup read'
    BY <1>12, PoolAssumption DEF ReadKey, PoolInv, TypeOK, Phases, MirrorToBe, LockFree, Put
  <2>3. read' = {} \/ ~Settled(id)'
    BY <1>12 DEF ReadKey, PoolInv, Sorted, Slotted, Settled
  <2>4. \A i \in Ids : i # id /\ Settled(i)' => Settled(i)
    BY <1>12 DEF ReadKey, Settled
  <2>5. \A i \in Ids : i # id /\ i \notin toRead => Settled(i)
    BY <1>12 DEF ReadKey, Settled
  <2>6. toRead' = toRead \ {id} /\ phase' = phase
        /\ spoiled' = spoiled /\ deletes' = deletes
    BY <1>12 DEF ReadKey
  <2> QED
    BY <2>1, <2>2, <2>3, <2>4, <2>5, <2>6 DEF PoolInv, Mirrored
<1>13. ASSUME NEW id \in Ids, Restore(id) PROVE Mirrored'
  BY <1>13, PoolAssumption DEF Restore, Since, Restored, SameSlot, lock,
     redis, PoolInv, TypeOK, Sorted, Slotted, Phases, Mirrored, MirrorToBe,
     Settled, LockFree
<1>14. ASSUME RecoveryEnds PROVE Mirrored'
  BY <1>14, PoolAssumption DEF RecoveryEnds, lock, redis, PoolInv, TypeOK,
     Sorted, Slotted, Phases, Mirrored, MirrorToBe, Settled, LockFree
<1>15. ASSUME NEW s \in Signals, OtherSaves(s) PROVE Mirrored'
  BY <1>15, PoolAssumption DEF OtherSaves, Put, lock, recovery, PoolInv,
     TypeOK, Sorted, Slotted, Phases, Mirrored, MirrorToBe, Settled, LockFree
<1>16. ASSUME NEW id \in Ids, OtherDeletes(id) PROVE Mirrored'
  BY <1>16, PoolAssumption DEF OtherDeletes, lock, recovery, PoolInv, TypeOK,
     Sorted, Slotted, Phases, Mirrored, MirrorToBe, Settled, LockFree
<1>17. ASSUME Tick PROVE Mirrored'
  BY <1>17, PoolAssumption DEF Tick, Down, lock, recovery, PoolInv, TypeOK,
     Sorted, Slotted, Phases, Mirrored, MirrorToBe, Settled, LockFree
<1>18. ASSUME UNCHANGED vars PROVE Mirrored'
  BY <1>18 DEF PoolInv, Mirrored, MirrorToBe, Settled, LockFree, vars, lock, recovery, redis
<1> QED
  BY <1>1, <1>2, <1>3, <1>4, <1>5, <1>6, <1>7, <1>8, <1>9,
     <1>10, <1>11, <1>12, <1>13, <1>14, <1>15, <1>16, <1>17, <1>18 DEF Next, Recover

(* What holds at the start and is kept by every step.                      *)
LEMMA PoolInvInit == ASSUME Init PROVE PoolInv
<1>1. TypeOK
  <2>1. 0 \in 0 .. DedupTTL
    BY PoolAssumption
  <2> QED
    BY <2>1 DEF Init, TypeOK
<1>2. Sorted /\ Phases /\ NothingLost /\ Mirrored
  BY DEF Init, Sorted, Slotted, Phases, Pending, LockFree, NothingLost, Mirrored
<1> QED
  BY <1>1, <1>2 DEF PoolInv

THEOREM PoolInvariant == Spec => []PoolInv
<1>1. PoolInv /\ [Next]_vars => PoolInv'
  BY TypePreserved, SortedPreserved, PhasesPreserved, NothingLostPreserved,
     MirroredPreserved DEF PoolInv
<1> QED
  BY PoolInvInit, <1>1, PTL DEF Spec

(* The types of the pool, of what recovery reads and of the hashes         *)
(* (CandidateSignalPool).                                                  *)
THEOREM PoolTypeCorrect == Spec => []TypeOK
<1>1. PoolInv => TypeOK
  BY DEF PoolInv
<1> QED
  BY PoolInvariant, <1>1, PTL

(* A signal taken by add_signal is pending or in a group until it is handed*)
(* over, replaced by a newer one of its strategy, or the process dies.     *)
THEOREM PoolLosesNothing == Spec => []NothingLost
<1>1. PoolInv => NothingLost
  BY DEF PoolInv
<1> QED
  BY PoolInvariant, <1>1, PTL

(* But for the named accidents a restart would restore exactly what is     *)
(* pending (_recover_from_redis).                                          *)
THEOREM MirrorsPool == Spec => []MirrorOfPool
<1>1. PoolInv => MirrorOfPool
  BY DEF PoolInv, MirrorOfPool, Mirrored, MirrorToBe, Settled, Phases
<1> QED
  BY PoolInvariant, <1>1, PTL

-----------------------------------------------------------------------------
(* The merge of a group.  FoldLeft is a recursive function on the sets of  *)
(* places of its list: what holds of it is proved by taking a smallest set *)
(* of places for which it fails.                                           *)

\* Of some sets, one has none of the others that lacks just one element.
LEMMA SmallestSet ==
  ASSUME NEW S, IsFiniteSet(S), NEW B \in SUBSET SUBSET S, B # {}
  PROVE  \E T \in B : \A x \in T : T \ {x} \notin B
<1> DEFINE R == StrictSubsetOrdering(S)
<1>1. B \subseteq FiniteSubsetsOf(S)
  BY FS_Subset DEF FiniteSubsetsOf
<1>2. PICK T \in B : \A y \in B : <<y, T>> \notin R
  <2>1. IsWellFoundedOn(R, FiniteSubsetsOf(S))
    BY FS_StrictSubsetOrderingWellFounded
  <2> HIDE DEF R
  <2> QED
    BY <1>1, <2>1, WFMin
<1>3. ASSUME NEW x \in T, T \ {x} \in B PROVE FALSE
  <2>1. <<T \ {x}, T>> \notin R
    BY <1>2, <1>3
  <2>2. T \ {x} \in SUBSET S /\ T \in SUBSET S /\ T \ {x} # T /\ T \ {x} \subseteq T
    BY <1>3
  <2> QED
    BY <2>1, <2>2 DEF StrictSubsetOrdering
<1> QED
  BY <1>3

LEMMA MaxIsIn ==
  ASSUME NEW S \in SUBSET Nat, IsFiniteSet(S), S # {}
  PROVE  Max(S) \in S
<1> DEFINE B == {s \in SUBSET S : s # {} /\ ~\E x \in s : \A y \in s : x >= y}
<1>1. CASE B = {}
  <2>1. \E x \in S : \A y \in S : x >= y
    BY <1>1
  <2> QED
    BY <2>1 DEF Max
<1>2. ASSUME B # {} PROVE FALSE
  <2>1. PICK s \in B : \A x \in s : s \ {x} \notin B
    <3>1. B \in SUBSET SUBSET S
      OBVIOUS
    <3> HIDE DEF B
    <3> QED
      BY <1>2, <3>1, SmallestSet
  <2>2. PICK x \in s : s \ {x} \notin B
    BY <2>1
  <2>3. CASE s = {x}
    BY <2>1, <2>3
  <2>4. CASE s # {x}
    <3>1. PICK y \in s \ {x} : \A z \in s \ {x} : y >= z
      BY <2>1, <2>2, <2>4
    <3>2. x \in Nat /\ y \in Nat /\ \A z \in s : z \in Nat
      BY <2>1
    <3>3. CASE x >= y
      <4>1. \A z \in s : x >= z
        BY <3>1, <3>2, <3>3
      <4> QED
        BY <2>1, <4>1
    <3>4. CASE y >= x
      <4>1. \A z \in s : y >= z
        BY <3>1, <3>2, <3>4
      <4> QED
        BY <2>1, <4>1
    <3> QED
      BY <3>2, <3>3, <3>4
  <2> QED
    BY <2>3, <2>4
<1> QED
  BY <1>1, <1>2

\* What merging signal after signal of l into b gives, for each set of places.
IsFold(g, b, l, S) ==
    g = [s \in SUBSET S |-> IF s = {} THEN b ELSE merge(g[s \ {Max(s)}], l[Max(s)])]

LEMMA FoldOfTheModel ==
  ASSUME NEW b, NEW l
  PROVE  FoldLeft(merge, b, l) = (CHOOSE g : IsFold(g, b, l, DOMAIN l))[DOMAIN l]
  BY DEF FoldLeft, MapThenFoldSet, IsFold

(* Two folds agree on the places that they both know.                      *)
LEMMA FoldsAgree ==
  ASSUME NEW S \in SUBSET Nat, IsFiniteSet(S), NEW T, S \subseteq T, NEW b, NEW l,
         NEW g, IsFold(g, b, l, S), NEW h, IsFold(h, b, l, T)
  PROVE  \A s \in SUBSET S : g[s] = h[s]
<1> DEFINE B == {s \in SUBSET S : g[s] # h[s]}
<1> SUFFICES ASSUME B # {} PROVE FALSE
  OBVIOUS
<1>1. PICK s \in B : \A x \in s : s \ {x} \notin B
  <2>1. B \in SUBSET SUBSET S
    OBVIOUS
  <2> HIDE DEF B
  <2> QED
    BY <2>1, SmallestSet
<1>2. s \in SUBSET S /\ s \in SUBSET T /\ g[s] # h[s] /\ IsFiniteSet(s) /\ s \in SUBSET Nat
  BY <1>1, FS_Subset
<1>3. /\ g[s] = IF s = {} THEN b ELSE merge(g[s \ {Max(s)}], l[Max(s)])
      /\ h[s] = IF s = {} THEN b ELSE merge(h[s \ {Max(s)}], l[Max(s)])
  BY <1>2 DEF IsFold
<1>4. CASE s = {}
  BY <1>2, <1>3, <1>4
<1>5. CASE s # {}
  <2>1. s \ {Max(s)} \in SUBSET S /\ s \ {Max(s)} \notin B
    BY <1>1, <1>2, <1>5, MaxIsIn
  <2>2. g[s \ {Max(s)}] = h[s \ {Max(s)}]
    BY <2>1
  <2> QED
    BY <1>2, <1>3, <1>5, <2>2
<1> QED
  BY <1>4, <1>5

(* A fold can be computed for every finite set of places.                  *)
LEMMA FoldExists ==
  ASSUME NEW S \in SUBSET Nat, IsFiniteSet(S), NEW b, NEW l
  PROVE  IsFold(CHOOSE g : IsFold(g, b, l, S), b, l, S)
<1> DEFINE B == {s \in SUBSET S : ~\E g : IsFold(g, b, l, s)}
<1> SUFFICES ASSUME B # {} PROVE FALSE
  OBVIOUS
<1>1. PICK s \in B : \A x \in s : s \ {x} \notin B
  <2>1. B \in SUBSET SUBSET S
    OBVIOUS
  <2> HIDE DEF B
  <2> QED
    BY <2>1, SmallestSet
<1>2. s \in SUBSET S /\ IsFiniteSet(s) /\ s \in SUBSET Nat
  BY <1>1, FS_Subset
<1> DEFINE G(x) == CHOOSE g : IsFold(g, b, l, s \ {x})
           F(u, g) == IF u = {} THEN b ELSE merge(g[u \ {Max(u)}], l[Max(u)])
<1>3. \A x \in s : IsFold(G(x), b, l, s \ {x}) /\ IsFiniteSet(s \ {x})
  BY <1>1, <1>2, FS_Subset
<1>4. \A x, y \in s : \A u \in SUBSET (s \ {x, y}) : G(x)[u] = G(y)[u]
  <2> SUFFICES ASSUME NEW x \in s, NEW y \in s, NEW u \in SUBSET (s \ {x, y})
               PROVE  G(x)[u] = G(y)[u]
    OBVIOUS
  <2> DEFINE r == s \ {x, y}
             k == [v \in SUBSET r |-> G(x)[v]]
  <2>1. /\ IsFold(G(x), b, l, s \ {x}) /\ IsFold(G(y), b, l, s \ {y})
        /\ IsFiniteSet(r) /\ r \in SUBSET Nat
    BY <1>2, <1>3, FS_Subset
  <2> HIDE DEF G
  <2>2. IsFold(k, b, l, r)
    <3>1. \A v \in SUBSET r : G(x)[v] = F(v, G(x))
      BY <2>1 DEF IsFold
    <3>2. \A v \in SUBSET r : v \ {Max(v)} \in SUBSET r
      OBVIOUS
    <3>3. \A v \in SUBSET r : F(v, G(x)) = F(v, k)
      BY <3>2
    <3>4. k = [v \in SUBSET r |-> F(v, k)]
      BY <3>1, <3>3
    <3> QED
      BY <3>4 DEF IsFold
  <2> HIDE DEF k
  <2>3. k[u] = G(x)[u] /\ k[u] = G(y)[u]
    <3>1. r \subseteq s \ {x} /\ r \subseteq s \ {y} /\ u \in SUBSET r
      OBVIOUS
    <3> HIDE DEF r
    <3> QED
      BY <2>1, <2>2, <3>1, FoldsAgree
  <2> QED
    BY <2>3
<1> DEFINE At(u) == G(CHOOSE x \in s : x \notin u)[u]
           h == [u \in SUBSET s |->
                   IF u = s
                     THEN IF s = {} THEN b ELSE merge(At(s \ {Max(s)}), l[Max(s)])
                     ELSE At(u)]
<1>5. IsFold(h, b, l, s)
  <2>1. \A u \in SUBSET s : \A x \in s \ u : At(u) = G(x)[u]
    <3> SUFFICES ASSUME NEW u \in SUBSET s, NEW x \in s \ u PROVE At(u) = G(x)[u]
      OBVIOUS
    <3> DEFINE y == CHOOSE z \in s : z \notin u
    <3>1. y \in s /\ y \notin u
      OBVIOUS
    <3> HIDE DEF y
    <3>2. u \in SUBSET (s \ {y, x})
      BY <3>1
    <3>3. G(y)[u] = G(x)[u]
      BY <1>4, <3>1, <3>2
    <3> QED
      BY <3>3 DEF y
  <2>2. \A u \in SUBSET s : u # s => h[u] = F(u, h)
    <3> SUFFICES ASSUME NEW u \in SUBSET s, NEW x \in s \ u PROVE h[u] = F(u, h)
      OBVIOUS
    <3>1. h[u] = G(x)[u]
      BY <2>1
    <3>2. G(x)[u] = F(u, G(x))
      <4>1. IsFold(G(x), b, l, s \ {x}) /\ u \in SUBSET (s \ {x})
        BY <1>3
      <4> HIDE DEF G, h, At
      <4> QED
        BY <4>1 DEF IsFold
    <3>3. h[u \ {Max(u)}] = G(x)[u \ {Max(u)}]
      <4> DEFINE v == u \ {Max(u)}
      <4>1. v \in SUBSET s /\ x \in s \ v
        OBVIOUS
      <4> HIDE DEF v
      <4>2. h[v] = At(v) /\ At(v) = G(x)[v]
        BY <2>1, <4>1
      <4> QED
        BY <4>2 DEF v
    <3> HIDE DEF h, G
    <3> QED
      BY <3>1, <3>2, <3>3
  <2>3. h[s] = F(s, h)
    <3>1. CASE s = {}
      BY <3>1
    <3>2. CASE s # {}
      <4>1. s \ {Max(s)} \in SUBSET s /\ s \ {Max(s)} # s
        BY <1>2, <3>2, MaxIsIn
      <4>2. h[s \ {Max(s)}] = At(s \ {Max(s)})
        BY <4>1
      <4>3. h[s] = merge(At(s \ {Max(s)}), l[Max(s)])
        BY <3>2
      <4> HIDE DEF h, At
      <4> QED
        BY <3>2, <4>2, <4>3
    <3> QED
      BY <3>1, <3>2
  <2>4. h = [u \in SUBSET s |-> h[u]]
    OBVIOUS
  <2> HIDE DEF h
  <2>5. h = [u \in SUBSET s |-> F(u, h)]
    <3>1. \A u \in SUBSET s : h[u] = F(u, h)
      BY <2>2, <2>3
    <3> HIDE DEF F
    <3> QED
      BY <2>4, <3>1
  <2> QED
    BY <2>5 DEF IsFold
<1> HIDE DEF h
<1> QED
  BY <1>1, <1>5

\* A consolidated signal in the making.
Fields == {"dir", "entry", "stop", "target", "first", "last", "context", "members"}

Good(c) ==
    /\ DOMAIN c = Fields /\ c = [x \in Fields |-> c[x]]
    /\ c.entry \in Int /\ c.stop \in Int /\ c.target \in Int
    /\ c.members \subseteq Signals
    /\ BestOf(c)

LEMMA GapIsInt == ASSUME NEW x \in Int, NEW y \in Int PROVE Gap(x, y) \in Int
  BY DEF Gap

LEMMA Prices ==
  ASSUME NEW s \in Signals
  PROVE  Entry[s] \in Int /\ Stop[s] \in Int /\ Target[s] \in Int
  BY PoolAssumption

LEMMA PrimaryIsGood == ASSUME NEW s \in Signals PROVE Good(Primary(s))
<1> DEFINE c == Primary(s)
<1>1. /\ c.entry = Entry[s] /\ c.stop = Stop[s] /\ c.target = Target[s] /\ c.members = {s}
      /\ DOMAIN c = Fields /\ c = [x \in Fields |-> c[x]]
  BY DEF Primary, Fields
<1>2. /\ Gap(Entry[s], Stop[s]) \in Int /\ Gap(Target[s], Entry[s]) \in Int
      /\ Entry[s] \in Int /\ Stop[s] \in Int /\ Target[s] \in Int
  BY Prices, GapIsInt
<1> HIDE DEF c
<1>3. BestOf(c)
  BY <1>1, <1>2 DEF BestOf
<1> QED
  BY <1>1, <1>2, <1>3 DEF Good, c

LEMMA MergeIsGood ==
  ASSUME NEW c, Good(c), NEW s \in Signals
  PROVE  Good(merge(c, s)) /\ merge(c, s).members = c.members \cup {s}
<1> DEFINE d == merge(c, s)
<1>1. /\ DOMAIN c = Fields /\ c.entry \in Int /\ c.stop \in Int /\ c.target \in Int
      /\ c.members \subseteq Signals /\ BestOf(c)
  BY DEF Good
<1>2. /\ d.entry = c.entry /\ d.members = c.members \cup {s}
      /\ d.stop = IF Tighter(c, s) THEN Stop[s] ELSE c.stop
      /\ d.target = IF Wider(c, s) THEN Target[s] ELSE c.target
      /\ DOMAIN d = Fields /\ d = [x \in Fields |-> d[x]]
  BY <1>1 DEF merge, Fields
<1>3. Entry[s] \in Int /\ Stop[s] \in Int /\ Target[s] \in Int
  BY Prices
<1>4. d.entry \in Int /\ d.stop \in Int /\ d.target \in Int /\ d.members \subseteq Signals
  BY <1>1, <1>2, <1>3
<1> HIDE DEF d
<1>5. BestOf(d)
  <2> SUFFICES ASSUME NEW x \in d.members,
                      d.members \subseteq {t \in Signals : Entry[t] = d.entry}
               PROVE  /\ Stop[x] # 0 => Gap(d.entry, d.stop) <= Gap(d.entry, Stop[x])
                      /\ Target[x] # 0 => Gap(d.target, d.entry) >= Gap(Target[x], d.entry)
    BY DEF BestOf
  <2>1. Entry[s] = c.entry /\ c.members \subseteq {t \in Signals : Entry[t] = c.entry}
    BY <1>2
  <2>2. \A y \in c.members :
          /\ Stop[y] # 0 => Gap(c.entry, c.stop) <= Gap(c.entry, Stop[y])
          /\ Target[y] # 0 => Gap(c.target, c.entry) >= Gap(Target[y], c.entry)
    BY <1>1, <2>1 DEF BestOf
  <2>3. x \in Signals /\ Stop[x] \in Int /\ Target[x] \in Int
    BY <1>4, Prices
  <2>4. /\ Gap(c.entry, c.stop) \in Int /\ Gap(c.entry, Stop[s]) \in Int
        /\ Gap(c.entry, Stop[x]) \in Int /\ Gap(c.target, c.entry) \in Int
        /\ Gap(Target[s], c.entry) \in Int /\ Gap(Target[x], c.entry) \in Int
    BY <1>1, <1>3, <2>3, GapIsInt
  <2>5. /\ Tighter(c, s) <=> Stop[s] # 0 /\ Gap(c.entry, Stop[s]) < Gap(c.entry, c.stop)
        /\ Wider(c, s) <=> Target[s] # 0 /\ Gap(Target[s], c.entry) > Gap(c.target, c.entry)
    BY <2>1 DEF Tighter, Wider
  <2>6. x \in c.members \/ x = s
    BY <1>2
  <2>7. Stop[x] # 0 => Gap(d.entry, d.stop) <= Gap(d.entry, Stop[x])
    BY <1>2, <2>2, <2>4, <2>5, <2>6
  <2>8. Target[x] # 0 => Gap(d.target, d.entry) >= Gap(Target[x], d.entry)
    BY <1>2, <2>2, <2>4, <2>5, <2>6
  <2> QED
    BY <2>7, <2>8
<1> QED
  BY <1>2, <1>4, <1>5 DEF Good, d

(* The merge of a list of signals is good and has them all.                *)
LEMMA FoldIsGood ==
  ASSUME NEW b, Good(b), NEW l \in Seq(Signals)
  PROVE  /\ Good(FoldLeft(merge, b, l))
         /\ FoldLeft(merge, b, l).members = b.members \cup {l[i] : i \in DOMAIN l}
<1> DEFINE S == DOMAIN l
           g == CHOOSE h : IsFold(h, b, l, S)
           Right(s) == Good(g[s]) /\ g[s].members = b.members \cup {l[i] : i \in s}
           B == {s \in SUBSET S : ~Right(s)}
<1>1. S \in SUBSET Nat /\ IsFiniteSet(S) /\ \A i \in S : l[i] \in Signals
  <2>1. S = 1 .. Len(l) /\ Len(l) \in Nat
    OBVIOUS
  <2> QED
    BY <2>1, FS_Interval
<1>2. FoldLeft(merge, b, l) = g[S]
  BY FoldOfTheModel
<1> HIDE DEF S
<1>3. IsFold(g, b, l, S)
  BY <1>1, FoldExists
<1> HIDE DEF g
<1>4. ASSUME B # {} PROVE FALSE
  <2>1. PICK s \in B : \A x \in s : s \ {x} \notin B
    <3>1. B \in SUBSET SUBSET S
      OBVIOUS
    <3> HIDE DEF B
    <3> QED
      BY <1>1, <1>4, <3>1, SmallestSet
  <2>2. s \in SUBSET S /\ s \in SUBSET Nat /\ IsFiniteSet(s) /\ ~Right(s)
    BY <1>1, <2>1, FS_Subset
  <2>3. g[s] = IF s = {} THEN b ELSE merge(g[s \ {Max(s)}], l[Max(s)])
    BY <1>3, <2>2 DEF IsFold
  <2>4. s # {}
    BY <2>2, <2>3
  <2>5. Max(s) \in s
    BY <2>2, <2>4, MaxIsIn
  <2> DEFINE r == s \ {Max(s)}
  <2>6. Right(r) /\ l[Max(s)] \in Signals
    BY <1>1, <2>1, <2>2, <2>5
  <2>7. Good(g[r])
    BY <2>6
  <2> HIDE DEF r
  <2>8. /\ Good(merge(g[r], l[Max(s)]))
        /\ merge(g[r], l[Max(s)]).members = g[r].members \cup {l[Max(s)]}
    BY <2>6, <2>7, MergeIsGood
  <2>9. g[s] = merge(g[r], l[Max(s)])
    BY <2>3, <2>4 DEF r
  <2>10. g[s].members = b.members \cup {l[i] : i \in s}
    <3>1. g[s].members = g[r].members \cup {l[Max(s)]}
      BY <2>8, <2>9
    <3>2. g[r].members = b.members \cup {l[i] : i \in r}
      BY <2>6
    <3>3. {l[i] : i \in s} = {l[i] : i \in r} \cup {l[Max(s)]}
      BY <2>5 DEF r
    <3> QED
      BY <3>1, <3>2, <3>3
  <2> QED
    BY <2>2, <2>8, <2>9, <2>10
<1>5. Right(S)
  BY <1>4
<1> QED
  BY <1>2, <1>5 DEF S

(* Whatever a finite group of signals may become has all its signals and   *)
(* their best prices.                                                      *)
LEMMA ConsolidatedIsBest ==
  ASSUME NEW g \in SUBSET Signals, IsFiniteSet(g), NEW c \in Consolidated(g)
  PROVE  c.members = g /\ BestOf(c)
<1>1. g # {} /\ \E l \in Chronological(g) : c = FoldLeft(merge, Primary(Head(l)), Tail(l))
  BY DEF Consolidated
<1>2. PICK l \in Chronological(g) : c = FoldLeft(merge, Primary(Head(l)), Tail(l))
  BY <1>1
<1> DEFINE n == Cardinality(g)
           b == Primary(Head(l))
           m == Tail(l)
<1>3. n \in Nat /\ n # 0
  BY <1>1, FS_CardinalityType, FS_EmptySet
<1>4. l \in [1 .. n -> g] /\ \A i, j \in 1 .. n : i # j => l[i] # l[j]
  BY DEF Chronological, SetToSeqs
<1>5. {l[i] : i \in 1 .. n} = g
  <2> DEFINE R == {l[i] : i \in 1 .. n}
  <2> HIDE DEF n
  <2>1. R \subseteq g
    BY <1>4
  <2>2. l \in Bijection(1 .. n, R)
    <3>1. l \in [1 .. n -> R]
      BY <1>4
    <3>2. l \in Injection(1 .. n, R)
      BY <1>4, <3>1 DEF Injection, IsInjective
    <3>3. l \in Surjection(1 .. n, R)
      BY <3>1 DEF Surjection
    <3> QED
      BY <3>2, <3>3 DEF Bijection
  <2> HIDE DEF R
  <2>3. Cardinality(R) = n
    <3>1. IsFiniteSet(1 .. n) /\ Cardinality(1 .. n) = n
      BY <1>3, FS_Interval
    <3> QED
      BY <2>2, <3>1, FS_Bijection DEF ExistsBijection
  <2>4. R = g
    BY <2>1, <2>3, FS_Subset DEF n
  <2> QED
    BY <2>4 DEF R
<1> HIDE DEF n
<1>6. l \in Seq(Signals) /\ l # <<>> /\ Len(l) = n
  <2>1. l \in Seq(g) /\ Len(l) = n
    BY <1>3, <1>4
  <2> QED
    BY <1>3, <2>1
<1>7. /\ Head(l) \in Signals /\ m \in Seq(Signals) /\ b.members = {Head(l)}
      /\ Head(l) = l[1] /\ DOMAIN m = 1 .. (n - 1) /\ \A i \in DOMAIN m : m[i] = l[i + 1]
  BY <1>3, <1>6 DEF Primary
<1>8. Good(b)
  BY <1>7, PrimaryIsGood
<1> HIDE DEF b, m
<1>9. c = FoldLeft(merge, b, m)
  BY <1>2 DEF b, m
<1>10. Good(c) /\ c.members = b.members \cup {m[i] : i \in DOMAIN m}
  BY <1>7, <1>8, <1>9, FoldIsGood
<1>11. {l[1]} \cup {m[i] : i \in DOMAIN m} = {l[i] : i \in 1 .. n}
  <2>1. ASSUME NEW i \in 1 .. n, i # 1 PROVE i - 1 \in DOMAIN m /\ m[i - 1] = l[i]
    BY <1>3, <1>7, <2>1
  <2>2. ASSUME NEW i \in DOMAIN m PROVE i + 1 \in 1 .. n /\ m[i] = l[i + 1]
    BY <1>3, <1>7, <2>2
  <2>3. 1 \in 1 .. n
    BY <1>3
  <2> QED
    BY <2>1, <2>2, <2>3
<1> QED
  BY <1>5, <1>7, <1>10, <1>11 DEF Good

\* What is pooled, mirrored and grouped came signal by signal.
FinitePools ==
    /\ \A id \in Ids : IsFiniteSet(pool[id]) /\ IsFiniteSet(mirror[id])
    /\ IsFiniteSet(read)
    /\ \A g \in groups : g \subseteq Signals /\ IsFiniteSet(g)

LEMMA PutIsFinite == ASSUME NEW S, IsFiniteSet(S), NEW s PROVE IsFiniteSet(Put(S, s))
<1>1. IsFiniteSet({t \in S : Strategy[t] # Strategy[s]})
  BY FS_Subset
<1> QED
  BY <1>1, FS_AddElement DEF Put

LEMMA FinitePreserved ==
  ASSUME PoolInv, FinitePools, [Next]_vars
  PROVE  FinitePools'
<1> USE DEF PoolInv, TypeOK, FinitePools
<1>0. IsFiniteSet({})
  BY FS_EmptySet
<1>1. ASSUME NEW s \in Signals, Accept(s) PROVE FinitePools'
  BY <1>1 DEF Accept, recovery
<1>2. ASSUME NEW s \in Signals, AddSignal(s) PROVE FinitePools'
  BY <1>2, PutIsFinite, PoolAssumption DEF AddSignal, recovery, redis
<1>3. ASSUME Save PROVE FinitePools'
  BY <1>3, PutIsFinite, PoolAssumption DEF Save, recovery
<1>4. ASSUME Expire \/ SaveFails PROVE FinitePools'
  BY <1>4 DEF Expire, SaveFails, recovery, redis
<1>5. ASSUME CheckAndFlush PROVE FinitePools'
  <2>1. \A g \in groups' : \E id \in Ids : g = pool[id]
    BY <1>5 DEF CheckAndFlush, Ripe
  <2>2. \A id \in Ids : pool'[id] \in {{}, pool[id]}
    BY <1>5 DEF CheckAndFlush
  <2>3. \A id \in Ids : IsFiniteSet(pool'[id])
    BY <1>0, <2>2
  <2> QED
    BY <1>5, <2>1, <2>3 DEF CheckAndFlush, recovery, redis
<1>6. ASSUME HandOver PROVE FinitePools'
  BY <1>6 DEF HandOver, recovery, redis
<1>7. ASSUME NEW id \in Ids, Delete(id) \/ DeleteFails(id) \/ OtherDeletes(id) PROVE FinitePools'
  BY <1>0, <1>7 DEF Delete, DeleteFails, OtherDeletes, recovery, redis
<1>8. ASSUME Crash PROVE FinitePools'
  BY <1>0, <1>8 DEF Crash, Forget, redis
<1>9. ASSUME Start \/ RecoveryEnds PROVE FinitePools'
  BY <1>9 DEF Start, RecoveryEnds, redis, lock, recovery
<1>10. ASSUME NEW id \in Ids, ReadKey(id) PROVE FinitePools'
  BY <1>10 DEF ReadKey, redis
<1>11. ASSUME NEW id \in Ids, Restore(id) PROVE FinitePools'
  <2>1. IsFiniteSet(Restored(pool[id]))
    <3>1. IsFiniteSet({t \in pool[id] : \A s \in read : Strategy[t] # Strategy[s]})
      BY FS_Subset
    <3> QED
      BY <3>1, FS_Union DEF Restored
  <2> QED
    BY <1>0, <1>11, <2>1 DEF Restore, redis
<1>12. ASSUME NEW s \in Signals, OtherSaves(s) PROVE FinitePools'
  BY <1>12, PutIsFinite, PoolAssumption DEF OtherSaves, recovery
<1>13. ASSUME Tick PROVE FinitePools'
  <2>1. \A id \in Ids : mirror'[id] \in {{}, mirror[id]}
    BY <1>13 DEF Tick
  <2>2. \A id \in Ids : IsFiniteSet(mirror'[id])
    BY <1>0, <2>1
  <2> QED
    BY <1>13, <2>2 DEF Tick, recovery
<1>14. ASSUME UNCHANGED vars PROVE FinitePools'
  BY <1>14 DEF vars, recovery, redis
<1> QED
  BY <1>1, <1>2, <1>3, <1>4, <1>5, <1>6, <1>7, <1>8, <1>9, <1>10, <1>11, <1>12, <1>13, <1>14
  DEF Next, Recover

(* A group that is handed over becomes a signal that has them all, and the *)
(* tightest stop and the widest target where they enter at one price       *)
(* (ConsolidatedSignal.merge), for any group, prices and order.            *)
THEOREM MergesKeepTheBest == Spec => []TightestStop
<1>1. Init => FinitePools
  BY FS_EmptySet DEF Init, FinitePools
<1>2. FinitePools => TightestStop
  BY ConsolidatedIsBest DEF FinitePools, TightestStop
<1> QED
  BY <1>1, <1>2, FinitePreserved, PoolInvariant, PTL DEF Spec
=============================================================================
