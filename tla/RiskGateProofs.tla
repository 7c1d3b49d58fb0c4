-------------------------- MODULE RiskGateProofs --------------------------
(***************************************************************************)
(* The position limit behind the risk gate, for every number of replicas   *)
(* and signals and every value of the times: an evaluation or an execution *)
(* may take as long as it will, and what the code swallows may happen to   *)
(* any of them.  GateInv is inductive; one lemma per conjunct, one case    *)
(* per action.                                                             *)
(***************************************************************************)
EXTENDS RiskGate, FiniteSetTheorems, TLAPS

USE DEF vars, gateVars, lockVars, orderVars, passVars, countVars

-----------------------------------------------------------------------------
(* What is put in place of a row is a row.                                 *)
LEMMA FreshRowType == FreshRow \in Row
  BY GateAssumption DEF FreshRow, Row

LEMMA WriteBackType ==
  ASSUME NEW b \in Row, NEW s \in Stocks, NEW n \in Nat
  PROVE  WriteBack(b, s, n) \in Row /\ WriteBack(b, s, n).approved = b.approved
  BY DEF WriteBack, Row

(* Every step keeps the types.                                             *)
LEMMA TypeStep == GateInv /\ [Next]_vars => TypeOK'
<1> SUFFICES ASSUME GateInv, [Next]_vars PROVE TypeOK'
  OBVIOUS
<1> USE GateAssumption, FreshRowType
<1> USE DEF GateInv, TypeOK, Goto, Evaluating
<1>1. ASSUME NEW r \in Replicas, NEW m \in Msgs, Receive(r, m) PROVE TypeOK'
  <2>1. /\ unread' \subseteq Msgs /\ m # None
        /\ UNCHANGED <<now, lockVars, seen, held, clear, base, counts, passVars, orderVars,
                       countVars>>
    BY <1>1 DEF Receive
  <2>2. CASE UNCHANGED <<pc, work, since>>
    BY <2>1, <2>2
  <2>3. CASE /\ pc' = [pc EXCEPT ![r] = "waiting"]
             /\ work' = [work EXCEPT ![r] = m]
             /\ since' = [since EXCEPT ![r] = now]
    BY <2>1, <2>3
  <2> QED
    BY <1>1, <2>2, <2>3 DEF Receive
<1>2. ASSUME NEW r \in Replicas, Acquire(r) PROVE TypeOK'
  BY <1>2 DEF Acquire, SetLock
<1>3. ASSUME NEW r \in Replicas, GiveUp(r) PROVE TypeOK'
  BY <1>3 DEF GiveUp, Leave
<1>4. ASSUME NEW r \in Replicas, LoadPortfolio(r) PROVE TypeOK'
  BY <1>4 DEF LoadPortfolio, Open
<1>5. ASSUME NEW r \in Replicas, ScanReservations(r) PROVE TypeOK'
  BY <1>5 DEF ScanReservations, Reservations
<1>6. ASSUME NEW r \in Replicas, RejectEarly(r) PROVE TypeOK'
  BY <1>6 DEF RejectEarly
<1>7. ASSUME NEW r \in Replicas, CountStock(r) PROVE TypeOK'
  <2> DEFINE s0 == Stock[work[r]]
             row0 == WriteBack(base[r], s0, counts[r][s0] + 1)
  <2>1. s0 \in Stocks /\ base[r] \in Row /\ counts[r][s0] + 1 \in Nat
    BY <1>7 DEF CountStock
  <2>2. row0 \in Row
    BY <2>1, WriteBackType
  <2>3. /\ base' = [base EXCEPT ![r] = row0]
        /\ counts' = [counts EXCEPT ![r] = [counts[r] EXCEPT ![s0] = counts[r][s0] + 1]]
        /\ pc' = [pc EXCEPT ![r] = "passed"] \/ pc' = [pc EXCEPT ![r] = "rejected"]
        /\ pc[r] = "scanned"
        /\ UNCHANGED <<now, unread, work, since, lockVars, seen, held, clear, passVars,
                       orderVars, countVars>>
    BY <1>7 DEF CountStock
  <2> HIDE DEF s0, row0
  <2> QED
    BY <2>1, <2>2, <2>3
<1>8. ASSUME NEW r \in Replicas, CommitRejection(r) PROVE TypeOK'
  BY <1>8 DEF CommitRejection, Leave, Unlock, Row
<1>9. ASSUME NEW r \in Replicas, Reserve(r) PROVE TypeOK'
  BY <1>9 DEF Reserve
<1>10. ASSUME NEW r \in Replicas, Publish(r) PROVE TypeOK'
  BY <1>10 DEF Publish
<1>11. ASSUME NEW r \in Replicas, CommitApproval(r) PROVE TypeOK'
  BY <1>11 DEF CommitApproval, Leave, Unlock, Row
<1>12. ASSUME NEW r \in Replicas, Fail(r) PROVE TypeOK'
  BY <1>12 DEF Fail, Leave, Unlock
<1>13. ASSUME NEW r \in Replicas, Crash(r) PROVE TypeOK'
  BY <1>13 DEF Crash, Leave
<1>14. ASSUME NEW m \in Msgs, TakeOrder(m) PROVE TypeOK'
  <2>1. /\ UNCHANGED <<now, gateVars, lockVars, passVars, overdue, slow, countVars>>
        /\ \/ takenAt' = takenAt
           \/ takenAt' = [takenAt EXCEPT ![m] = now]
        /\ \/ order' = [order EXCEPT ![m] = "dropped"]
           \/ order' = [order EXCEPT ![m] = "executing"]
    BY <1>14 DEF TakeOrder
  <2>2. takenAt' \in [Msgs -> Nat]
    <3>1. now \in Nat /\ takenAt \in [Msgs -> Nat]
      OBVIOUS
    <3> HIDE DEF GateInv, TypeOK, Goto, Evaluating
    <3> QED
      BY <2>1, <3>1, Zenon
  <2>3. order' \in [Msgs -> {"none", "queued", "executing", "open", "closed", "dropped"}]
    BY <2>1
  <2> QED
    BY <2>1, <2>2, <2>3
<1>15. ASSUME NEW m \in Msgs, OpenPosition(m) PROVE TypeOK'
  BY <1>15 DEF OpenPosition
<1>16. ASSUME NEW m \in Msgs, DropOrder(m) PROVE TypeOK'
  BY <1>16 DEF DropOrder
<1>17. ASSUME NEW m \in Msgs, ClosePosition(m) PROVE TypeOK'
  BY <1>17 DEF ClosePosition
<1>18. ASSUME Tick PROVE TypeOK'
  BY <1>18 DEF Tick
<1>20. ASSUME NEW r \in Replicas, LoseGrant(r) PROVE TypeOK'
  BY <1>20 DEF LoseGrant, SetLock, LockFree
<1>19. CASE UNCHANGED vars
  BY <1>19
<1> QED
  BY <1>1, <1>2, <1>3, <1>4, <1>5, <1>6, <1>7, <1>8, <1>9, <1>10, <1>11, <1>12,
     <1>13, <1>14, <1>15, <1>16, <1>17, <1>18, <1>19,
     <1>20 DEF Next, Evaluate, Trade

(* Nobody else takes or deletes a key before it expires.                   *)
LEMMA LockStep == GateInv /\ [Next]_vars => LockHeld'
<1> SUFFICES ASSUME GateInv, [Next]_vars PROVE LockHeld'
  OBVIOUS
<1> USE GateAssumption
<1> USE DEF GateInv, TypeOK, LockHeld, Goto, Evaluating, InTime
<1>1. ASSUME NEW r \in Replicas, NEW m \in Msgs, Receive(r, m) PROVE LockHeld'
  BY <1>1 DEF Receive
<1>2. ASSUME NEW r \in Replicas, Acquire(r) PROVE LockHeld'
  BY <1>2 DEF Acquire, SetLock, LockFree
<1>3. ASSUME NEW r \in Replicas, GiveUp(r) PROVE LockHeld'
  BY <1>3 DEF GiveUp, Leave
<1>4. ASSUME NEW r \in Replicas, LoadPortfolio(r) PROVE LockHeld'
  BY <1>4 DEF LoadPortfolio
<1>5. ASSUME NEW r \in Replicas, ScanReservations(r) PROVE LockHeld'
  BY <1>5 DEF ScanReservations
<1>6. ASSUME NEW r \in Replicas, RejectEarly(r) PROVE LockHeld'
  BY <1>6 DEF RejectEarly
<1>7. ASSUME NEW r \in Replicas, CountStock(r) PROVE LockHeld'
  BY <1>7 DEF CountStock
<1>8. ASSUME NEW r \in Replicas, CommitRejection(r) PROVE LockHeld'
  BY <1>8 DEF CommitRejection, Leave, Unlock
<1>9. ASSUME NEW r \in Replicas, Reserve(r) PROVE LockHeld'
  BY <1>9 DEF Reserve
<1>10. ASSUME NEW r \in Replicas, Publish(r) PROVE LockHeld'
  BY <1>10 DEF Publish
<1>11. ASSUME NEW r \in Replicas, CommitApproval(r) PROVE LockHeld'
  BY <1>11 DEF CommitApproval, Leave, Unlock
<1>12. ASSUME NEW r \in Replicas, Fail(r) PROVE LockHeld'
  BY <1>12 DEF Fail, Leave, Unlock
<1>13. ASSUME NEW r \in Replicas, Crash(r) PROVE LockHeld'
  BY <1>13 DEF Crash, Leave
<1>14. ASSUME NEW m \in Msgs, TakeOrder(m) PROVE LockHeld'
  BY <1>14 DEF TakeOrder
<1>15. ASSUME NEW m \in Msgs, OpenPosition(m) PROVE LockHeld'
  BY <1>15 DEF OpenPosition
<1>16. ASSUME NEW m \in Msgs, DropOrder(m) PROVE LockHeld'
  BY <1>16 DEF DropOrder
<1>17. ASSUME NEW m \in Msgs, ClosePosition(m) PROVE LockHeld'
  BY <1>17 DEF ClosePosition
<1>18. ASSUME Tick PROVE LockHeld'
  BY <1>18 DEF Tick
<1>20. ASSUME NEW r \in Replicas, LoseGrant(r) PROVE LockHeld'
  BY <1>20 DEF LoseGrant, SetLock, LockFree
<1>19. CASE UNCHANGED vars
  BY <1>19
<1> QED
  BY <1>1, <1>2, <1>3, <1>4, <1>5, <1>6, <1>7, <1>8, <1>9, <1>10, <1>11, <1>12,
     <1>13, <1>14, <1>15, <1>16, <1>17, <1>18, <1>19,
     <1>20 DEF Next, Evaluate, Trade

(* No signal is read twice.                                               *)
LEMMA ReadStep == GateInv /\ [Next]_vars => ReadOnce'
<1> SUFFICES ASSUME GateInv, [Next]_vars PROVE ReadOnce'
  OBVIOUS
<1> USE GateAssumption
<1> USE DEF GateInv, TypeOK, ReadOnce, Goto
<1>1. ASSUME NEW r \in Replicas, NEW m \in Msgs, Receive(r, m) PROVE ReadOnce'
  BY <1>1 DEF Receive
<1>2. ASSUME NEW r \in Replicas, Acquire(r) PROVE ReadOnce'
  BY <1>2 DEF Acquire
<1>3. ASSUME NEW r \in Replicas, GiveUp(r) PROVE ReadOnce'
  BY <1>3 DEF GiveUp, Leave, Evaluating
<1>4. ASSUME NEW r \in Replicas, LoadPortfolio(r) PROVE ReadOnce'
  BY <1>4 DEF LoadPortfolio
<1>5. ASSUME NEW r \in Replicas, ScanReservations(r) PROVE ReadOnce'
  BY <1>5 DEF ScanReservations
<1>6. ASSUME NEW r \in Replicas, RejectEarly(r) PROVE ReadOnce'
  BY <1>6 DEF RejectEarly
<1>7. ASSUME NEW r \in Replicas, CountStock(r) PROVE ReadOnce'
  BY <1>7 DEF CountStock
<1>8. ASSUME NEW r \in Replicas, CommitRejection(r) PROVE ReadOnce'
  BY <1>8 DEF CommitRejection, Leave, Unlock, Evaluating
<1>9. ASSUME NEW r \in Replicas, Reserve(r) PROVE ReadOnce'
  BY <1>9 DEF Reserve
<1>10. ASSUME NEW r \in Replicas, Publish(r) PROVE ReadOnce'
  BY <1>10 DEF Publish
<1>11. ASSUME NEW r \in Replicas, CommitApproval(r) PROVE ReadOnce'
  BY <1>11 DEF CommitApproval, Leave, Unlock, Evaluating
<1>12. ASSUME NEW r \in Replicas, Fail(r) PROVE ReadOnce'
  BY <1>12 DEF Fail, Leave, Unlock, Evaluating
<1>13. ASSUME NEW r \in Replicas, Crash(r) PROVE ReadOnce'
  BY <1>13 DEF Crash, Leave, Evaluating
<1>14. ASSUME NEW m \in Msgs, TakeOrder(m) PROVE ReadOnce'
  BY <1>14 DEF TakeOrder
<1>15. ASSUME NEW m \in Msgs, OpenPosition(m) PROVE ReadOnce'
  BY <1>15 DEF OpenPosition
<1>16. ASSUME NEW m \in Msgs, DropOrder(m) PROVE ReadOnce'
  BY <1>16 DEF DropOrder
<1>17. ASSUME NEW m \in Msgs, ClosePosition(m) PROVE ReadOnce'
  BY <1>17 DEF ClosePosition
<1>18. ASSUME Tick PROVE ReadOnce'
  BY <1>18 DEF Tick
<1>20. ASSUME NEW r \in Replicas, LoseGrant(r) PROVE ReadOnce'
  BY <1>20 DEF LoseGrant, SetLock, LockFree
<1>19. CASE UNCHANGED vars
  BY <1>19
<1> QED
  BY <1>1, <1>2, <1>3, <1>4, <1>5, <1>6, <1>7, <1>8, <1>9, <1>10, <1>11, <1>12,
     <1>13, <1>14, <1>15, <1>16, <1>17, <1>18, <1>19,
     <1>20 DEF Next, Evaluate, Trade

(* A reservation is made after the candle, an execution begins in time.    *)
LEMMA BackedStep == GateInv /\ [Next]_vars => Backed'
<1> SUFFICES ASSUME GateInv, [Next]_vars PROVE Backed'
  OBVIOUS
<1> USE GateAssumption
<1> USE DEF GateInv, TypeOK, Backed, ReadOnce, Goto
<1>1. ASSUME NEW r \in Replicas, NEW m \in Msgs, Receive(r, m) PROVE Backed'
  BY <1>1 DEF Receive
<1>2. ASSUME NEW r \in Replicas, Acquire(r) PROVE Backed'
  BY <1>2 DEF Acquire
<1>3. ASSUME NEW r \in Replicas, GiveUp(r) PROVE Backed'
  BY <1>3 DEF GiveUp, Leave, Evaluating
<1>4. ASSUME NEW r \in Replicas, LoadPortfolio(r) PROVE Backed'
  BY <1>4 DEF LoadPortfolio
<1>5. ASSUME NEW r \in Replicas, ScanReservations(r) PROVE Backed'
  BY <1>5 DEF ScanReservations
<1>6. ASSUME NEW r \in Replicas, RejectEarly(r) PROVE Backed'
  BY <1>6 DEF RejectEarly
<1>7. ASSUME NEW r \in Replicas, CountStock(r) PROVE Backed'
  BY <1>7 DEF CountStock
<1>8. ASSUME NEW r \in Replicas, CommitRejection(r) PROVE Backed'
  BY <1>8 DEF CommitRejection, Leave, Unlock, Evaluating
<1>9. ASSUME NEW r \in Replicas, Reserve(r) PROVE Backed'
  BY <1>9 DEF Reserve
<1>10. ASSUME NEW r \in Replicas, Publish(r) PROVE Backed'
  BY <1>10 DEF Publish
<1>11. ASSUME NEW r \in Replicas, CommitApproval(r) PROVE Backed'
  BY <1>11 DEF CommitApproval, Leave, Unlock, Evaluating
<1>12. ASSUME NEW r \in Replicas, Fail(r) PROVE Backed'
  BY <1>12 DEF Fail, Leave, Unlock, Evaluating
<1>13. ASSUME NEW r \in Replicas, Crash(r) PROVE Backed'
  BY <1>13 DEF Crash, Leave, Evaluating
<1>14. ASSUME NEW m \in Msgs, TakeOrder(m) PROVE Backed'
  BY <1>14 DEF TakeOrder
<1>15. ASSUME NEW m \in Msgs, OpenPosition(m) PROVE Backed'
  BY <1>15 DEF OpenPosition
<1>16. ASSUME NEW m \in Msgs, DropOrder(m) PROVE Backed'
  BY <1>16 DEF DropOrder
<1>17. ASSUME NEW m \in Msgs, ClosePosition(m) PROVE Backed'
  BY <1>17 DEF ClosePosition
<1>18. ASSUME Tick PROVE Backed'
  BY <1>18 DEF Tick
<1>20. ASSUME NEW r \in Replicas, LoseGrant(r) PROVE Backed'
  BY <1>20 DEF LoseGrant, SetLock, LockFree
<1>19. CASE UNCHANGED vars
  BY <1>19
<1> QED
  BY <1>1, <1>2, <1>3, <1>4, <1>5, <1>6, <1>7, <1>8, <1>9, <1>10, <1>11, <1>12,
     <1>13, <1>14, <1>15, <1>16, <1>17, <1>18, <1>19,
     <1>20 DEF Next, Evaluate, Trade

(* A candle signal is too old before its reservation is, unless its        *)
(* execution takes the difference.                                         *)
LEMMA OverdueStep == GateInv /\ [Next]_vars => OverdueExplained'
<1> SUFFICES ASSUME GateInv, [Next]_vars PROVE OverdueExplained'
  OBVIOUS
<1> USE GateAssumption
<1> USE DEF GateInv, TypeOK, Backed, OverdueExplained
<1>1. ASSUME NEW r \in Replicas, NEW m \in Msgs, Receive(r, m)
      PROVE  OverdueExplained'
  BY <1>1 DEF Receive
<1>2. ASSUME NEW r \in Replicas, Acquire(r) PROVE OverdueExplained'
  BY <1>2 DEF Acquire
<1>3. ASSUME NEW r \in Replicas, GiveUp(r) PROVE OverdueExplained'
  BY <1>3 DEF GiveUp
<1>4. ASSUME NEW r \in Replicas, LoadPortfolio(r) PROVE OverdueExplained'
  BY <1>4 DEF LoadPortfolio
<1>5. ASSUME NEW r \in Replicas, ScanReservations(r) PROVE OverdueExplained'
  BY <1>5 DEF ScanReservations
<1>6. ASSUME NEW r \in Replicas, RejectEarly(r) PROVE OverdueExplained'
  BY <1>6 DEF RejectEarly
<1>7. ASSUME NEW r \in Replicas, CountStock(r) PROVE OverdueExplained'
  BY <1>7 DEF CountStock
<1>8. ASSUME NEW r \in Replicas, CommitRejection(r) PROVE OverdueExplained'
  BY <1>8 DEF CommitRejection
<1>9. ASSUME NEW r \in Replicas, Reserve(r) PROVE OverdueExplained'
  BY <1>9 DEF Reserve, ReadOnce
<1>10. ASSUME NEW r \in Replicas, Publish(r) PROVE OverdueExplained'
  BY <1>10 DEF Publish
<1>11. ASSUME NEW r \in Replicas, CommitApproval(r) PROVE OverdueExplained'
  BY <1>11 DEF CommitApproval
<1>12. ASSUME NEW r \in Replicas, Fail(r) PROVE OverdueExplained'
  BY <1>12 DEF Fail
<1>13. ASSUME NEW r \in Replicas, Crash(r) PROVE OverdueExplained'
  BY <1>13 DEF Crash
<1>14. ASSUME NEW m \in Msgs, TakeOrder(m) PROVE OverdueExplained'
  BY <1>14 DEF TakeOrder
<1>15. ASSUME NEW m \in Msgs, OpenPosition(m) PROVE OverdueExplained'
  BY <1>15 DEF OpenPosition, Slack
<1>16. ASSUME NEW m \in Msgs, DropOrder(m) PROVE OverdueExplained'
  BY <1>16 DEF DropOrder
<1>17. ASSUME NEW m \in Msgs, ClosePosition(m) PROVE OverdueExplained'
  BY <1>17 DEF ClosePosition
<1>18. ASSUME Tick PROVE OverdueExplained'
  BY <1>18 DEF Tick
<1>20. ASSUME NEW r \in Replicas, LoseGrant(r) PROVE OverdueExplained'
  BY <1>20 DEF LoseGrant, SetLock, LockFree
<1>19. CASE UNCHANGED vars
  BY <1>19
<1> QED
  BY <1>1, <1>2, <1>3, <1>4, <1>5, <1>6, <1>7, <1>8, <1>9, <1>10, <1>11, <1>12,
     <1>13, <1>14, <1>15, <1>16, <1>17, <1>18, <1>19,
     <1>20 DEF Next, Evaluate, Trade

(* Counting claims: sets of signals are finite.                            *)
LEMMA Sizes ==
  /\ \A S \in SUBSET Msgs : IsFiniteSet(S) /\ Cardinality(S) \in Nat
  /\ \A S, T \in SUBSET Msgs : S \subseteq T => Cardinality(S) <= Cardinality(T)
<1>1. \A S \in SUBSET Msgs : IsFiniteSet(S)
  BY GateAssumption, FS_Subset
<1> QED
  BY <1>1, FS_Subset, FS_CardinalityType

LEMMA SizeOfUnion ==
  ASSUME NEW S \in SUBSET Msgs, NEW T \in SUBSET Msgs
  PROVE  Cardinality(S \cup T) <= Cardinality(S) + Cardinality(T)
<1>1. /\ IsFiniteSet(S) /\ IsFiniteSet(T) /\ IsFiniteSet(S \cap T)
      /\ Cardinality(S) \in Nat /\ Cardinality(T) \in Nat
      /\ Cardinality(S \cap T) \in Nat
  BY Sizes
<1>2. Cardinality(S \cup T) =
        Cardinality(S) + Cardinality(T) - Cardinality(S \cap T)
  BY <1>1, FS_Union
<1> QED
  BY <1>1, <1>2

LEMMA ClaimsAreSignals == Claims \subseteq Msgs /\ Open \subseteq Msgs
  BY DEF Claims, Open

(* What is claimed after a step, element by element.                       *)
LEMMA ClaimOf ==
  ASSUME NEW x
  PROVE  x \in Claims <=> /\ x \in Msgs
                          /\ x \notin unsure \cup overdue
                          /\ order[x] = "open" \/ (Coming(x) /\ Timely(x))
  BY DEF Claims, Open

(* Only a reservation of a replica that is sure makes a new claim.         *)
LEMMA ClaimsShrink ==
  ASSUME GateInv, [Next]_vars, NEW x \in Claims'
  PROVE  \/ x \in Claims
         \/ \E r \in Replicas :
              pc[r] = "passed" /\ pc'[r] = "reserved" /\ x = work[r] /\ Sure(r)
<1> USE GateAssumption DEF GateInv, TypeOK, Goto, Coming, Timely
<1>0. /\ x \in Msgs
      /\ x \notin unsure' \cup overdue'
      /\ order'[x] = "open" \/ (Coming(x) /\ Timely(x))'
  BY DEF Claims, Open
<1>u. unsure \cup overdue \subseteq unsure' \cup overdue'
  BY DEF Next, Evaluate, Trade, Receive, Acquire, LoseGrant, GiveUp, LoadPortfolio,
         ScanReservations, RejectEarly, CountStock, CommitRejection, Reserve, Publish,
         CommitApproval, Fail, Crash, TakeOrder, OpenPosition, DropOrder, ClosePosition,
         Tick
<1> SUFFICES ASSUME \A r \in Replicas :
                      ~(pc[r] = "passed" /\ pc'[r] = "reserved" /\ x = work[r] /\ Sure(r))
             PROVE  order[x] = "open" \/ (Coming(x) /\ Timely(x))
  BY <1>0, <1>u, ClaimOf
<1>1. ASSUME NEW r \in Replicas, NEW m \in Msgs, Receive(r, m)
      PROVE  order[x] = "open" \/ (Coming(x) /\ Timely(x))
  BY <1>0, <1>1 DEF Receive
<1>2. ASSUME NEW r \in Replicas, Acquire(r)
      PROVE  order[x] = "open" \/ (Coming(x) /\ Timely(x))
  BY <1>0, <1>2 DEF Acquire
<1>3. ASSUME NEW r \in Replicas, GiveUp(r)
      PROVE  order[x] = "open" \/ (Coming(x) /\ Timely(x))
  BY <1>0, <1>3 DEF GiveUp, Leave
<1>4. ASSUME NEW r \in Replicas, LoadPortfolio(r)
      PROVE  order[x] = "open" \/ (Coming(x) /\ Timely(x))
  BY <1>0, <1>4 DEF LoadPortfolio
<1>5. ASSUME NEW r \in Replicas, ScanReservations(r)
      PROVE  order[x] = "open" \/ (Coming(x) /\ Timely(x))
  BY <1>0, <1>5 DEF ScanReservations
<1>6. ASSUME NEW r \in Replicas, RejectEarly(r)
      PROVE  order[x] = "open" \/ (Coming(x) /\ Timely(x))
  BY <1>0, <1>6 DEF RejectEarly
<1>7. ASSUME NEW r \in Replicas, CountStock(r)
      PROVE  order[x] = "open" \/ (Coming(x) /\ Timely(x))
  BY <1>0, <1>7 DEF CountStock
<1>8. ASSUME NEW r \in Replicas, CommitRejection(r)
      PROVE  order[x] = "open" \/ (Coming(x) /\ Timely(x))
  BY <1>0, <1>8 DEF CommitRejection, Leave
<1>9. ASSUME NEW r \in Replicas, Reserve(r)
      PROVE  order[x] = "open" \/ (Coming(x) /\ Timely(x))
  <2>1. /\ pc[r] = "passed" /\ pc' = [pc EXCEPT ![r] = "reserved"]
        /\ UNCHANGED <<now, work, order>>
        /\ unsure' = IF Sure(r) THEN unsure ELSE unsure \cup {work[r]}
        /\ reservedUntil' = [reservedUntil EXCEPT ![work[r]] = now + ReserveTTL]
           \/ UNCHANGED reservedUntil
    BY <1>9 DEF Reserve
  <2>2. x # work[r]
    <3>1. Sure(r) => x # work[r]
      BY <2>1
    <3>2. ~Sure(r) => work[r] \in unsure'
      BY <2>1
    <3> QED
      BY <1>0, <3>1, <3>2
  <2>3. reservedUntil'[x] = reservedUntil[x] /\ order'[x] = order[x]
    BY <1>0, <2>1, <2>2
  <2>4. Coming(x)' => Coming(x)
    BY <2>1, <2>2
  <2> QED
    BY <1>0, <2>1, <2>3, <2>4
<1>10. ASSUME NEW r \in Replicas, Publish(r)
      PROVE  order[x] = "open" \/ (Coming(x) /\ Timely(x))
  BY <1>0, <1>10 DEF Publish
<1>11. ASSUME NEW r \in Replicas, CommitApproval(r)
      PROVE  order[x] = "open" \/ (Coming(x) /\ Timely(x))
  BY <1>0, <1>11 DEF CommitApproval, Leave
<1>12. ASSUME NEW r \in Replicas, Fail(r)
      PROVE  order[x] = "open" \/ (Coming(x) /\ Timely(x))
  BY <1>0, <1>12 DEF Fail, Leave
<1>13. ASSUME NEW r \in Replicas, Crash(r)
      PROVE  order[x] = "open" \/ (Coming(x) /\ Timely(x))
  BY <1>0, <1>13 DEF Crash, Leave
<1>14. ASSUME NEW m \in Msgs, TakeOrder(m)
      PROVE  order[x] = "open" \/ (Coming(x) /\ Timely(x))
  BY <1>0, <1>14 DEF TakeOrder
<1>15. ASSUME NEW m \in Msgs, OpenPosition(m)
      PROVE  order[x] = "open" \/ (Coming(x) /\ Timely(x))
  <2>1. /\ order[m] = "executing" /\ order' = [order EXCEPT ![m] = "open"]
        /\ UNCHANGED <<now, pc, work, reservedUntil>>
    BY <1>15 DEF OpenPosition
  <2>2. x = m => Timely(m)
    <3> SUFFICES ASSUME x = m PROVE Timely(m)
      OBVIOUS
    <3>1. overdue' = IF now + LockTTL >= reservedUntil[m]
                       THEN overdue \cup {m} ELSE overdue
      BY <1>15 DEF OpenPosition
    <3>2. ~(now + LockTTL >= reservedUntil[m])
      BY <1>0, <3>1
    <3>3. now + LockTTL \in Nat /\ reservedUntil[m] \in Nat
      OBVIOUS
    <3> QED
      BY <3>2, <3>3
  <2>3. CASE x = m
    BY <2>1, <2>2, <2>3
  <2>4. CASE x # m
    BY <1>0, <2>1, <2>4
  <2> QED
    BY <2>3, <2>4
<1>16. ASSUME NEW m \in Msgs, DropOrder(m)
      PROVE  order[x] = "open" \/ (Coming(x) /\ Timely(x))
  BY <1>0, <1>16 DEF DropOrder
<1>17. ASSUME NEW m \in Msgs, ClosePosition(m)
      PROVE  order[x] = "open" \/ (Coming(x) /\ Timely(x))
  BY <1>0, <1>17 DEF ClosePosition
<1>18. ASSUME Tick
      PROVE  order[x] = "open" \/ (Coming(x) /\ Timely(x))
  BY <1>0, <1>18 DEF Tick
<1>20. ASSUME NEW r \in Replicas, LoseGrant(r)
      PROVE  order[x] = "open" \/ (Coming(x) /\ Timely(x))
  BY <1>0, <1>20 DEF LoseGrant, SetLock, LockFree
<1>19. CASE UNCHANGED vars
  BY <1>0, <1>19
<1> QED
  BY <1>1, <1>2, <1>3, <1>4, <1>5, <1>6, <1>7, <1>8, <1>9, <1>10, <1>11, <1>12,
     <1>13, <1>14, <1>15, <1>16, <1>17, <1>18, <1>19,
     <1>20 DEF Next, Evaluate, Trade

(* The claims never exceed the limit.                                      *)
LEMMA LimitStep ==
  ASSUME GateInv, [Next]_vars
  PROVE  Cardinality(Claims') <= MaxPositions
<1> USE GateAssumption
<1>2. Cardinality(Claims) <= MaxPositions
  BY DEF GateInv, Budget
<1>3. Claims \subseteq Msgs /\ Claims' \subseteq Msgs
  BY DEF Claims, Open
<1>4. CASE Claims' \subseteq Claims
  <2>1. /\ Cardinality(Claims') <= Cardinality(Claims)
        /\ Cardinality(Claims') \in Nat /\ Cardinality(Claims) \in Nat
    BY <1>3, <1>4, Sizes
  <2> QED
    BY <1>2, <2>1
<1>5. CASE \E r \in Replicas : pc[r] = "passed" /\ Sure(r)
  <2>1. PICK r \in Replicas : pc[r] = "passed" /\ Sure(r)
    BY <1>5
  <2>2. /\ pc[r] = "passed" /\ work[r] \in Msgs
        /\ seen[r] \in SUBSET Msgs /\ held[r] \in SUBSET Msgs
    BY <2>1 DEF GateInv, TypeOK
  <2>3. /\ Claims \subseteq seen[r] \cup held[r]
        /\ Cardinality(seen[r]) + Cardinality(held[r]) < MaxPositions
    BY <2>1, <2>2 DEF GateInv, Budget, Sight
  <2>4. /\ Cardinality(Claims) <= Cardinality(seen[r] \cup held[r])
        /\ Cardinality(Claims) \in Nat
        /\ Cardinality(seen[r]) \in Nat /\ Cardinality(held[r]) \in Nat
        /\ Cardinality(seen[r] \cup held[r]) \in Nat
    BY <1>3, <2>2, <2>3, Sizes
  <2>5. Cardinality(seen[r] \cup held[r]) <= Cardinality(seen[r]) + Cardinality(held[r])
    BY <2>2, SizeOfUnion
  <2>6. Cardinality(Claims) + 1 <= MaxPositions
    BY <2>3, <2>4, <2>5
  <2>7. Claims' \subseteq Claims \cup {work[r]}
    <3> SUFFICES ASSUME NEW x \in Claims' PROVE x \in Claims \cup {work[r]}
      OBVIOUS
    <3>1. \A q \in Replicas : pc[q] = "passed" /\ Sure(q) => q = r
      BY <2>1 DEF GateInv, LockHeld, Evaluating, Sure
    <3> QED
      BY <3>1, ClaimsShrink
  <2>8. /\ IsFiniteSet(Claims) /\ Claims \cup {work[r]} \in SUBSET Msgs
    BY <1>3, <2>2, Sizes
  <2>9. /\ Cardinality(Claims \cup {work[r]}) <= Cardinality(Claims) + 1
        /\ Cardinality(Claims \cup {work[r]}) \in Nat
    <3>1. Cardinality(Claims \cup {work[r]}) =
            IF work[r] \in Claims THEN Cardinality(Claims) ELSE Cardinality(Claims) + 1
      BY <2>8, FS_AddElement
    <3> QED
      BY <2>4, <3>1
  <2>10. /\ Cardinality(Claims') <= Cardinality(Claims \cup {work[r]})
         /\ Cardinality(Claims') \in Nat
    BY <1>3, <2>7, <2>8, Sizes
  <2> QED
    BY <2>4, <2>6, <2>9, <2>10
<1> QED
  BY <1>4, <1>5, ClaimsShrink

(* What a replica saw and found reserved contains the claims.              *)
LEMMA SightStep ==
  ASSUME GateInv, [Next]_vars, NEW q \in Replicas
  PROVE  Sight(q)'
<1> USE GateAssumption DEF GateInv, TypeOK, Goto, Sight, Sure, InTime
<1>0. Sight(q)
  BY DEF Budget
<1>s. (\A p \in Replicas : ~(pc[p] = "passed" /\ pc'[p] = "reserved"))
        => Claims' \subseteq Claims
  BY ClaimsShrink
<1>1. ASSUME NEW r \in Replicas, NEW m \in Msgs, Receive(r, m) PROVE Sight(q)'
  <2>1. \A p \in Replicas : ~(pc[p] = "passed" /\ pc'[p] = "reserved")
    BY <1>1 DEF Receive
  <2>2. Claims' \subseteq Claims
    BY <1>s, <2>1
  <2> QED
    BY <1>0, <1>1, <2>2 DEF Receive
<1>2. ASSUME NEW r \in Replicas, Acquire(r) PROVE Sight(q)'
  <2>1. \A p \in Replicas : ~(pc[p] = "passed" /\ pc'[p] = "reserved")
    BY <1>2 DEF Acquire
  <2>2. Claims' \subseteq Claims
    BY <1>s, <2>1
  <2> QED
    BY <1>0, <1>2, <2>2 DEF Acquire
<1>3. ASSUME NEW r \in Replicas, GiveUp(r) PROVE Sight(q)'
  <2>1. \A p \in Replicas : ~(pc[p] = "passed" /\ pc'[p] = "reserved")
    BY <1>3 DEF GiveUp, Leave
  <2>2. Claims' \subseteq Claims
    BY <1>s, <2>1
  <2> QED
    BY <1>0, <1>3, <2>2 DEF GiveUp, Leave
<1>4. ASSUME NEW r \in Replicas, LoadPortfolio(r) PROVE Sight(q)'
  <2>1. Claims' = Claims /\ UNCHANGED <<now, reservedUntil, since>>
    BY <1>4 DEF LoadPortfolio, Claims, Open, Coming, Timely
  <2>2. \A m \in Claims : m \in Open \/ now + LockTTL < reservedUntil[m]
    BY DEF Claims, Timely
  <2>3. since[r] <= now
    BY <1>4 DEF LoadPortfolio, LockHeld, Evaluating
  <2>4. \A m \in Claims : m \in Open \/ since[r] + LockTTL < reservedUntil[m]
    BY <2>2, <2>3 DEF Claims, Open
  <2>5. PICK found \in {Open, {}} :
          /\ seen' = [seen EXCEPT ![r] = found]
          /\ clear' = [clear EXCEPT ![r] = (found = Open)]
    BY <1>4 DEF LoadPortfolio
  <2>6. pc' = [pc EXCEPT ![r] = "loaded"] /\ UNCHANGED held
    BY <1>4 DEF LoadPortfolio
  <2>7. CASE q = r
    <3>1. clear'[r] => seen'[r] = Open
      BY <2>5
    <3> QED
      BY <2>1, <2>4, <2>6, <2>7, <3>1
  <2>8. CASE q # r
    BY <1>0, <2>1, <2>5, <2>6, <2>8
  <2> QED
    BY <2>7, <2>8
<1>5. ASSUME NEW r \in Replicas, ScanReservations(r) PROVE Sight(q)'
  <2>1. Claims' = Claims /\ UNCHANGED <<now, reservedUntil, since>>
    BY <1>5 DEF ScanReservations, Claims, Open, Coming, Timely
  <2>2. PICK found \in SUBSET Reservations :
          /\ held' = [held EXCEPT ![r] = found]
          /\ clear' = [clear EXCEPT ![r] = clear[r] /\ found = Reservations]
    BY <1>5 DEF ScanReservations
  <2>3. /\ pc[r] = "loaded" /\ pc' = [pc EXCEPT ![r] = "scanned"]
        /\ UNCHANGED seen
    BY <1>5 DEF ScanReservations
  <2>4. CASE q = r
    <3> SUFFICES ASSUME Sure(r)' PROVE Claims \subseteq seen[r] \cup found
      BY <2>1, <2>2, <2>3, <2>4
    <3>1. clear[r] /\ found = Reservations
      BY <2>2
    <3>2. InTime(r)
      BY <2>1
    <3>3. \A m \in Claims : m \in seen[r] \/ since[r] + LockTTL < reservedUntil[m]
      BY <1>0, <2>3, <2>4, <3>1, <3>2
    <3>4. \A m \in Claims : m \in Msgs /\ reservedUntil[m] \in Nat
      BY DEF Claims, Open
    <3> QED
      BY <3>1, <3>2, <3>3, <3>4 DEF Reservations
  <2>5. CASE q # r
    BY <1>0, <2>1, <2>2, <2>3, <2>5
  <2> QED
    BY <2>4, <2>5
<1>6. ASSUME NEW r \in Replicas, RejectEarly(r) PROVE Sight(q)'
  <2>1. \A p \in Replicas : ~(pc[p] = "passed" /\ pc'[p] = "reserved")
    BY <1>6 DEF RejectEarly
  <2>2. Claims' \subseteq Claims
    BY <1>s, <2>1
  <2> QED
    BY <1>0, <1>6, <2>2 DEF RejectEarly
<1>7. ASSUME NEW r \in Replicas, CountStock(r) PROVE Sight(q)'
  <2>1. \A p \in Replicas : ~(pc[p] = "passed" /\ pc'[p] = "reserved")
    BY <1>7 DEF CountStock
  <2>2. Claims' \subseteq Claims
    BY <1>s, <2>1
  <2> QED
    BY <1>0, <1>7, <2>2 DEF CountStock, RoomLeft
<1>8. ASSUME NEW r \in Replicas, CommitRejection(r) PROVE Sight(q)'
  <2>1. \A p \in Replicas : ~(pc[p] = "passed" /\ pc'[p] = "reserved")
    BY <1>8 DEF CommitRejection, Leave
  <2>2. Claims' \subseteq Claims
    BY <1>s, <2>1
  <2> QED
    BY <1>0, <1>8, <2>2 DEF CommitRejection, Leave
<1>9. ASSUME NEW r \in Replicas, Reserve(r) PROVE Sight(q)'
  <2>1. /\ pc[r] = "passed" /\ pc' = [pc EXCEPT ![r] = "reserved"]
        /\ UNCHANGED <<now, since, clear, seen, held, work>>
        /\ reservedUntil' = [reservedUntil EXCEPT ![work[r]] = now + ReserveTTL]
           \/ UNCHANGED reservedUntil
    BY <1>9 DEF Reserve
  <2>2. CASE q = r
    BY <2>1, <2>2
  <2>3. CASE q # r
    <3>1. pc'[q] = pc[q] /\ (Sure(q)' <=> Sure(q))
      BY <2>1, <2>3
    <3>2. CASE Sure(q) /\ pc[q] \in {"loaded", "scanned", "passed"}
      <4>1. ~Sure(r)
        BY <2>1, <2>3, <3>2 DEF LockHeld, Evaluating
      <4>2. \A p \in Replicas : pc[p] = "passed" /\ pc'[p] = "reserved" => p = r
        BY <2>1
      <4>3. Claims' \subseteq Claims
        BY <4>1, <4>2, ClaimsShrink
      <4>4. work[r] \notin Claims'
        BY <1>9, <4>1 DEF Reserve, Claims, Sure
      <4>5. \A m \in Claims' : m \in Msgs /\ reservedUntil'[m] = reservedUntil[m]
        BY <2>1, <4>4 DEF Claims, Open
      <4> HIDE DEF Claims
      <4> QED
        BY <1>0, <2>1, <2>3, <3>1, <4>3, <4>5
    <3>3. CASE ~(Sure(q) /\ pc[q] \in {"loaded", "scanned", "passed"})
      BY <1>0, <2>1, <3>1, <3>3
    <3> QED
      BY <3>2, <3>3
  <2> QED
    BY <2>2, <2>3
<1>10. ASSUME NEW r \in Replicas, Publish(r) PROVE Sight(q)'
  <2>1. \A p \in Replicas : ~(pc[p] = "passed" /\ pc'[p] = "reserved")
    BY <1>10 DEF Publish
  <2>2. Claims' \subseteq Claims
    BY <1>s, <2>1
  <2> QED
    BY <1>0, <1>10, <2>2 DEF Publish
<1>11. ASSUME NEW r \in Replicas, CommitApproval(r) PROVE Sight(q)'
  <2>1. \A p \in Replicas : ~(pc[p] = "passed" /\ pc'[p] = "reserved")
    BY <1>11 DEF CommitApproval, Leave
  <2>2. Claims' \subseteq Claims
    BY <1>s, <2>1
  <2> QED
    BY <1>0, <1>11, <2>2 DEF CommitApproval, Leave
<1>12. ASSUME NEW r \in Replicas, Fail(r) PROVE Sight(q)'
  <2>1. \A p \in Replicas : ~(pc[p] = "passed" /\ pc'[p] = "reserved")
    BY <1>12 DEF Fail, Leave
  <2>2. Claims' \subseteq Claims
    BY <1>s, <2>1
  <2> QED
    BY <1>0, <1>12, <2>2 DEF Fail, Leave
<1>13. ASSUME NEW r \in Replicas, Crash(r) PROVE Sight(q)'
  <2>1. \A p \in Replicas : ~(pc[p] = "passed" /\ pc'[p] = "reserved")
    BY <1>13 DEF Crash, Leave
  <2>2. Claims' \subseteq Claims
    BY <1>s, <2>1
  <2> QED
    BY <1>0, <1>13, <2>2 DEF Crash, Leave
<1>14. ASSUME NEW m \in Msgs, TakeOrder(m) PROVE Sight(q)'
  <2>1. \A p \in Replicas : ~(pc[p] = "passed" /\ pc'[p] = "reserved")
    BY <1>14 DEF TakeOrder
  <2>2. Claims' \subseteq Claims
    BY <1>s, <2>1
  <2> QED
    BY <1>0, <1>14, <2>2 DEF TakeOrder
<1>15. ASSUME NEW m \in Msgs, OpenPosition(m) PROVE Sight(q)'
  <2>1. \A p \in Replicas : ~(pc[p] = "passed" /\ pc'[p] = "reserved")
    BY <1>15 DEF OpenPosition
  <2>2. Claims' \subseteq Claims
    BY <1>s, <2>1
  <2> QED
    BY <1>0, <1>15, <2>2 DEF OpenPosition
<1>16. ASSUME NEW m \in Msgs, DropOrder(m) PROVE Sight(q)'
  <2>1. \A p \in Replicas : ~(pc[p] = "passed" /\ pc'[p] = "reserved")
    BY <1>16 DEF DropOrder
  <2>2. Claims' \subseteq Claims
    BY <1>s, <2>1
  <2> QED
    BY <1>0, <1>16, <2>2 DEF DropOrder
<1>17. ASSUME NEW m \in Msgs, ClosePosition(m) PROVE Sight(q)'
  <2>1. \A p \in Replicas : ~(pc[p] = "passed" /\ pc'[p] = "reserved")
    BY <1>17 DEF ClosePosition
  <2>2. Claims' \subseteq Claims
    BY <1>s, <2>1
  <2> QED
    BY <1>0, <1>17, <2>2 DEF ClosePosition
<1>18. ASSUME Tick PROVE Sight(q)'
  <2>1. \A p \in Replicas : ~(pc[p] = "passed" /\ pc'[p] = "reserved")
    BY <1>18 DEF Tick
  <2>2. Claims' \subseteq Claims
    BY <1>s, <2>1
  <2> QED
    BY <1>0, <1>18, <2>2 DEF Tick
<1>20. ASSUME NEW r \in Replicas, LoseGrant(r) PROVE Sight(q)'
  <2>1. \A p \in Replicas : ~(pc[p] = "passed" /\ pc'[p] = "reserved")
    BY <1>20 DEF LoseGrant
  <2>2. Claims' \subseteq Claims
    BY <1>s, <2>1
  <2> QED
    BY <1>0, <1>20, <2>2 DEF LoseGrant
<1>19. CASE UNCHANGED vars
  <2>1. Claims' = Claims
    BY <1>19 DEF Claims, Open, Coming, Timely
  <2>2. UNCHANGED <<now, pc, seen, held, clear, since, reservedUntil>>
    BY <1>19
  <2> QED
    BY <1>0, <2>1, <2>2
<1> QED
  BY <1>1, <1>2, <1>3, <1>4, <1>5, <1>6, <1>7, <1>8, <1>9, <1>10, <1>11, <1>12,
     <1>13, <1>14, <1>15, <1>16, <1>17, <1>18, <1>19,
     <1>20 DEF Next, Evaluate, Trade

(* The approvals in the row are the committed ones: the replica that       *)
(* commits works on the row as it is, on a signal not counted before.      *)
LEMMA CountStep == GateInv /\ [Next]_vars => CountedRight'
<1> SUFFICES ASSUME GateInv, [Next]_vars PROVE CountedRight'
  OBVIOUS
<1> USE GateAssumption DEF GateInv, TypeOK, Goto, CountedRight, ApprovalsCounted, InTime
<1>1. ASSUME NEW r \in Replicas, NEW m \in Msgs, Receive(r, m) PROVE CountedRight'
  BY <1>1 DEF Receive
<1>2. ASSUME NEW r \in Replicas, Acquire(r) PROVE CountedRight'
  BY <1>2 DEF Acquire
<1>3. ASSUME NEW r \in Replicas, GiveUp(r) PROVE CountedRight'
  BY <1>3 DEF GiveUp, Leave
<1>4. ASSUME NEW r \in Replicas, LoadPortfolio(r) PROVE CountedRight'
  BY <1>4 DEF LoadPortfolio
<1>5. ASSUME NEW r \in Replicas, ScanReservations(r) PROVE CountedRight'
  BY <1>5 DEF ScanReservations
<1>6. ASSUME NEW r \in Replicas, RejectEarly(r) PROVE CountedRight'
  BY <1>6 DEF RejectEarly
<1>7. ASSUME NEW r \in Replicas, CountStock(r) PROVE CountedRight'
  <2> DEFINE s0 == Stock[work[r]]
             row0 == WriteBack(base[r], s0, counts[r][s0] + 1)
  <2>1. s0 \in Stocks /\ base[r] \in Row /\ counts[r][s0] + 1 \in Nat
    BY <1>7 DEF CountStock
  <2>2. WriteBack(base[r], s0, counts[r][s0] + 1).approved = base[r].approved
    <3> HIDE DEF s0, GateInv, TypeOK, Goto, CountedRight, ApprovalsCounted, InTime
    <3> QED
      BY <2>1, WriteBackType
  <2>3. /\ base' = [base EXCEPT ![r] = row0] /\ pc[r] = "scanned"
        /\ pc' = [pc EXCEPT ![r] = "passed"] \/ pc' = [pc EXCEPT ![r] = "rejected"]
        /\ UNCHANGED <<row, committed, late, now, since>>
    BY <1>7 DEF CountStock
  <2>4. row0.approved = base[r].approved
    BY <2>2
  <2> HIDE DEF s0, row0
  <2> QED
    BY <2>3, <2>4
<1>8. ASSUME NEW r \in Replicas, CommitRejection(r) PROVE CountedRight'
  <2>1. /\ row'.approved = row.approved
        /\ UNCHANGED <<committed, late, now>>
        /\ pc' = [pc EXCEPT ![r] = "idle"] /\ pc[r] = "rejected"
        /\ base' = [base EXCEPT ![r] = FreshRow] /\ since' = [since EXCEPT ![r] = 0]
    BY <1>8 DEF CommitRejection, Leave
  <2> QED
    BY <2>1
<1>9. ASSUME NEW r \in Replicas, Reserve(r) PROVE CountedRight'
  BY <1>9 DEF Reserve
<1>10. ASSUME NEW r \in Replicas, Publish(r) PROVE CountedRight'
  BY <1>10 DEF Publish
<1>11. ASSUME NEW r \in Replicas, CommitApproval(r) PROVE CountedRight'
  <2>1. /\ pc[r] = "published" /\ work[r] \in Msgs /\ work[r] \notin committed
        /\ base[r].approved \in Nat /\ row.approved \in Nat
        /\ base[r].approved <= Cardinality(committed)
    BY <1>11 DEF CommitApproval, ReadOnce, Row
  <2>2. /\ row'.approved = base[r].approved + 1
        /\ committed' = committed \cup {work[r]}
        /\ late' = IF InTime(r) THEN late ELSE late \cup {work[r]}
        /\ pc' = [pc EXCEPT ![r] = "idle"] /\ since' = [since EXCEPT ![r] = 0]
        /\ base' = [base EXCEPT ![r] = FreshRow] /\ now' = now
    BY <1>11, <2>1 DEF CommitApproval, Leave
  <2>3. /\ Cardinality(committed \cup {work[r]}) = Cardinality(committed) + 1
        /\ Cardinality(committed) \in Nat
    BY <2>1, Sizes, FS_AddElement
  <2>4. ASSUME late' = {}
        PROVE  /\ late = {} /\ InTime(r)
               /\ base[r].approved = row.approved
               /\ \A q \in Replicas : q # r /\ Evaluating(q) => ~InTime(q)
    <3>1. late = {} /\ InTime(r)
      BY <2>2, <2>4
    <3>2. base[r].approved = row.approved
      BY <2>1, <3>1
    <3>3. lock = r
      BY <2>1, <3>1 DEF LockHeld, Evaluating
    <3>4. ASSUME NEW q \in Replicas, q # r, Evaluating(q), InTime(q) PROVE FALSE
      BY <3>3, <3>4 DEF LockHeld
    <3> QED
      BY <3>1, <3>2, <3>4
  <2>5. ApprovalsCounted'
    <3>1. row'.approved <= Cardinality(committed')
      BY <2>1, <2>2, <2>3
    <3>2. ASSUME late' = {} PROVE row'.approved = Cardinality(committed')
      BY <2>2, <2>3, <2>4, <3>2
    <3> QED
      BY <3>1, <3>2
  <2>6. ASSUME NEW q \in Replicas,
               pc'[q] \in {"scanned", "passed", "rejected", "reserved", "published"}
        PROVE  /\ base'[q].approved <= Cardinality(committed')
               /\ late' = {} /\ InTime(q)' => base'[q].approved = row'.approved
    <3>1. /\ q # r /\ pc'[q] = pc[q] /\ base'[q] = base[q] /\ since'[q] = since[q]
          /\ Evaluating(q)
      BY <2>2, <2>6 DEF Evaluating
    <3>2. base[q].approved \in Nat /\ base[q].approved <= Cardinality(committed)
      BY <2>6, <3>1 DEF Row
    <3>3. base'[q].approved <= Cardinality(committed')
      BY <2>2, <2>3, <3>1, <3>2
    <3>4. late' # {} \/ ~InTime(q)'
      BY <2>2, <2>4, <3>1
    <3> QED
      BY <3>3, <3>4
  <2> QED
    BY <2>5, <2>6
<1>12. ASSUME NEW r \in Replicas, Fail(r) PROVE CountedRight'
  BY <1>12 DEF Fail, Leave
<1>13. ASSUME NEW r \in Replicas, Crash(r) PROVE CountedRight'
  BY <1>13 DEF Crash, Leave
<1>14. ASSUME NEW m \in Msgs, TakeOrder(m) PROVE CountedRight'
  BY <1>14 DEF TakeOrder
<1>15. ASSUME NEW m \in Msgs, OpenPosition(m) PROVE CountedRight'
  BY <1>15 DEF OpenPosition
<1>16. ASSUME NEW m \in Msgs, DropOrder(m) PROVE CountedRight'
  BY <1>16 DEF DropOrder
<1>17. ASSUME NEW m \in Msgs, ClosePosition(m) PROVE CountedRight'
  BY <1>17 DEF ClosePosition
<1>18. ASSUME Tick PROVE CountedRight'
  BY <1>18 DEF Tick
<1>20. ASSUME NEW r \in Replicas, LoseGrant(r) PROVE CountedRight'
  BY <1>20 DEF LoseGrant, SetLock, LockFree
<1>19. CASE UNCHANGED vars
  BY <1>19
<1> QED
  BY <1>1, <1>2, <1>3, <1>4, <1>5, <1>6, <1>7, <1>8, <1>9, <1>10, <1>11, <1>12,
     <1>13, <1>14, <1>15, <1>16, <1>17, <1>18, <1>19,
     <1>20 DEF Next, Evaluate, Trade

-----------------------------------------------------------------------------
LEMMA GateStart == Init => GateInv
<1> SUFFICES ASSUME Init PROVE GateInv
  OBVIOUS
<1> USE GateAssumption DEF Init
<1>1. TypeOK
  BY FreshRowType DEF TypeOK
<1>2. LockHeld /\ ReadOnce /\ Backed /\ OverdueExplained
  BY DEF LockHeld, ReadOnce, Backed, OverdueExplained, Evaluating
<1>3. Budget
  <2>1. Claims = {}
    BY DEF Claims, Open, Coming
  <2> QED
    BY <2>1, FS_EmptySet DEF Budget, Sight
<1>4. CountedRight
  BY FS_EmptySet DEF CountedRight, ApprovalsCounted, FreshRow
<1> QED
  BY <1>1, <1>2, <1>3, <1>4 DEF GateInv

LEMMA BudgetStep == GateInv /\ [Next]_vars => Budget'
<1> SUFFICES ASSUME GateInv, [Next]_vars
             PROVE  /\ Cardinality(Claims') <= MaxPositions
                    /\ \A q \in Replicas : Sight(q)'
  BY DEF Budget
<1>1. Cardinality(Claims') <= MaxPositions
  BY LimitStep
<1>2. \A q \in Replicas : Sight(q)'
  BY SightStep
<1> QED
  BY <1>1, <1>2

(* The strengthening is an invariant of the gate.                          *)
THEOREM GateInvariant == Spec => []GateInv
<1>1. GateInv /\ [Next]_vars => GateInv'
  BY TypeStep, LockStep, ReadStep, BackedStep, OverdueStep, BudgetStep, CountStep
  DEF GateInv
<1> QED
  BY GateStart, <1>1, PTL DEF Spec

(* The variables of the gate keep their types (RiskEngineWorker).          *)
THEOREM GateTypeCorrect == Spec => []TypeOK
<1>1. GateInv => TypeOK
  BY DEF GateInv
<1> QED
  BY <1>1, GateInvariant, PTL

(* Of two replicas that evaluate at once one has outlived its key, however *)
(* long an evaluation takes (redis_lock).                                  *)
THEOREM EvaluatesAlone == Spec => []OneEvaluation
<1>1. GateInv => OneEvaluation
  BY DEF GateInv, LockHeld, OneEvaluation
<1> QED
  BY <1>1, GateInvariant, PTL

(* Positions let through in time, on all there was to see, and opened      *)
(* while their reservation stood keep to max_concurrent_positions          *)
(* (MaxConcurrentPositions, risk_reservation).                             *)
THEOREM KeepsPositionLimit == Spec => []PositionLimit
<1>1. GateInv => PositionLimit
  <2> DEFINE sound == Open \ (unsure \cup overdue)
  <2> SUFFICES ASSUME GateInv PROVE Cardinality(sound) <= MaxPositions
    BY DEF PositionLimit
  <2>1. Cardinality(Claims) <= MaxPositions
    BY DEF GateInv, Budget
  <2>2. /\ sound \subseteq Claims /\ Claims \in SUBSET Msgs /\ sound \in SUBSET Msgs
    BY DEF Claims, Open
  <2> HIDE DEF sound
  <2>3. /\ Cardinality(sound) <= Cardinality(Claims)
        /\ Cardinality(sound) \in Nat /\ Cardinality(Claims) \in Nat
    BY <2>2, Sizes
  <2> QED
    BY <2>1, <2>3, GateAssumption
<1> QED
  BY <1>1, GateInvariant, PTL

(* A candle signal opens a position when its reservation is at its end only *)
(* if SETEX failed or the execution took what the TTL of 120 s leaves after *)
(* the autotrader's age check.                                             *)
THEOREM LateForAReason == Spec => []OverdueExplained
<1>1. GateInv => OverdueExplained
  BY DEF GateInv
<1> QED
  BY <1>1, GateInvariant, PTL

(* signals_approved never counts more than was committed, and all of it    *)
(* while nobody committed after its lock had ended (DailyRiskState).       *)
THEOREM CountsApprovals == Spec => []ApprovalsCounted
<1>1. GateInv => ApprovalsCounted
  BY DEF GateInv, CountedRight
<1> QED
  BY <1>1, GateInvariant, PTL

=============================================================================
