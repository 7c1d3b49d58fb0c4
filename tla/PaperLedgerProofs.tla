-------------------------- MODULE PaperLedgerProofs --------------------------
(***************************************************************************)
(* What holds of PaperLedger for every number of rows, replicas and        *)
(* requests.  LedgerInv is the inductive invariant; a lemma per conjunct   *)
(* shows that every step keeps it, with one case per action.  The last     *)
(* part is about sums over the rows: no money appears or disappears.       *)
(***************************************************************************)
EXTENDS PaperLedger, FiniteSetTheorems, WellFoundedInduction, TLAPS

USE DEF vars, account, books, local, Sessions, Openers, ClosingSessions, Statuses

-----------------------------------------------------------------------------
(* A session that ends leaves well-typed memory behind, whatever it did.   *)
LEMMA FinishTypes ==
    ASSUME LedgerTypeOK, NEW s \in Sessions, Finish(s)
    PROVE  /\ rowLock' \in Sessions \cup {NoSession}
           /\ pc' \in [Sessions -> {"idle", "counted", "checked", "locked", "priced",
                                    "found", "pricing", "deleted"}]
           /\ rows' \in [Sessions -> SUBSET Trades]
           /\ mem' \in [Sessions -> Int]
           /\ marks' \in [Sessions -> [Trades -> Pnls \cup {NoMark, Trailed}]]
           /\ loss' \in [Sessions -> Nat]
  BY DEF LedgerTypeOK, Finish, Goto, NoMarks

(* What a commit writes to the rows is well typed.                         *)
LEMMA MarkedTypes ==
    ASSUME LedgerTypeOK, NEW s \in Sessions
    PROVE  /\ CloseMarked(s) => status' \in [Trades -> {"NEW", "OPEN", "CLOSED", "DELETED"}]
           /\ BookMarked(s) => pnl' \in [Trades -> Int]
  BY AccountAssumption
  DEF LedgerTypeOK, TypeOK, CloseMarked, BookMarked, Closing

(* Every step keeps the types: in-memory balances stay integers because a  *)
(* close request always holds a profit or loss (FoundMarked).              *)
LEMMA TypeStep == LedgerInv /\ [LedgerNext]_vars => LedgerTypeOK'
<1> SUFFICES ASSUME LedgerInv, [LedgerNext]_vars PROVE LedgerTypeOK'
  OBVIOUS
<1> USE AccountAssumption
<1> USE DEF LedgerInv, LedgerTypeOK, TypeOK, Goto
<1>1. ASSUME NEW s \in Workers, NEW t \in Trades, WorkerCount(s, t)
      PROVE  LedgerTypeOK'
  BY <1>1 DEF WorkerCount
<1>2. ASSUME NEW s \in Workers, WorkerCheckDuplicate(s) PROVE LedgerTypeOK'
  BY <1>2, FinishTypes DEF WorkerCheckDuplicate
<1>3. ASSUME NEW s \in Workers, WorkerLock(s) PROVE LedgerTypeOK'
  BY <1>3 DEF WorkerLock
<1>4. ASSUME NEW s \in Workers, WorkerReject(s) PROVE LedgerTypeOK'
  BY <1>4, FinishTypes DEF WorkerReject
<1>5. ASSUME NEW s \in Workers, NEW t \in Trades, WorkerCommit(s, t)
      PROVE  LedgerTypeOK'
  BY <1>5, FinishTypes DEF WorkerCommit, OpenCommit
<1>6. ASSUME NEW s \in Manuals, NEW t \in Trades, ManualRead(s, t)
      PROVE  LedgerTypeOK'
  BY <1>6 DEF ManualRead
<1>7. ASSUME NEW s \in Manuals, NEW t \in Trades, ManualCommit(s, t)
      PROVE  LedgerTypeOK'
  BY <1>7, FinishTypes DEF ManualCommit, OpenCommit
<1>8. ASSUME NEW s \in Closers, NEW t \in Trades, NEW p \in Pnls, CloseRead(s, t, p)
      PROVE  LedgerTypeOK'
  BY <1>8 DEF CloseRead
<1>9. ASSUME NEW s \in Closers, NEW t \in Trades, CloseReadBalance(s, t)
      PROVE  LedgerTypeOK'
  <2>1. marks[s][t] \in Pnls
    BY <1>9 DEF CloseReadBalance, FoundMarked
  <2>2. marks[s][t] \in Int /\ Margin[t] \in Nat
    BY <2>1
  <2>3. /\ Beyond(t, marks[s][t]) \in Nat
        /\ balance + Margin[t] + marks[s][t] \in Int
    BY <2>2 DEF Beyond
  <2> QED
    BY <1>9, <2>2, <2>3 DEF CloseReadBalance
<1>10. ASSUME NEW s \in Closers, CloseCommit(s) PROVE LedgerTypeOK'
  BY <1>10, FinishTypes, MarkedTypes DEF CloseCommit, CommitReturns
<1>11. ASSUME NEW s \in Resets, ResetDelete(s) PROVE LedgerTypeOK'
  BY <1>11 DEF ResetDelete, WithStatus
<1>12. ASSUME NEW s \in Resets, ResetCommit(s) PROVE LedgerTypeOK'
  BY <1>12, FinishTypes DEF ResetCommit
<1>13. ASSUME NEW s \in KillSwitches, KillSwitchRead(s) PROVE LedgerTypeOK'
  BY <1>13 DEF KillSwitchRead, WithStatus
<1>14. ASSUME NEW s \in KillSwitches, KillSwitchCommit(s) PROVE LedgerTypeOK'
  BY <1>14, FinishTypes, MarkedTypes DEF KillSwitchCommit
<1>15. ASSUME NEW s \in Monitors, MonitorRead(s) PROVE LedgerTypeOK'
  BY <1>15 DEF MonitorRead, WithStatus
<1>16. ASSUME NEW s \in Monitors, MonitorReadBalance(s) PROVE LedgerTypeOK'
  BY <1>16 DEF MonitorReadBalance
<1>17. ASSUME NEW s \in Monitors, NEW t \in Trades, NEW p \in Pnls, MonitorExit(s, t, p)
       PROVE  LedgerTypeOK'
  <2>1. Beyond(t, p) \in Nat
    BY DEF Beyond
  <2> QED
    BY <1>17, <2>1 DEF MonitorExit
<1>18. ASSUME NEW s \in Monitors, NEW t \in Trades, MonitorTrail(s, t)
       PROVE  LedgerTypeOK'
  BY <1>18 DEF MonitorTrail
<1>19. ASSUME NEW s \in Monitors, MonitorCommit(s) PROVE LedgerTypeOK'
  BY <1>19, FinishTypes, MarkedTypes DEF MonitorCommit, CommitReturns
<1>20. ASSUME NEW s \in TradeMonitors, TradeMonitorRead(s) PROVE LedgerTypeOK'
  BY <1>20 DEF TradeMonitorRead, WithStatus
<1>21. ASSUME NEW s \in TradeMonitors, NEW t \in Trades, NEW p \in Pnls, TradeMonitorExit(s, t, p)
       PROVE  LedgerTypeOK'
  BY <1>21 DEF TradeMonitorExit
<1>22. ASSUME NEW s \in TradeMonitors, NEW t \in Trades, NEW p \in Pnls, TradeMonitorSquareOff(s, t, p)
       PROVE  LedgerTypeOK'
  BY <1>22 DEF TradeMonitorSquareOff
<1>23. ASSUME NEW s \in TradeMonitors, NEW t \in Trades, TradeMonitorTrail(s, t)
       PROVE  LedgerTypeOK'
  BY <1>23 DEF TradeMonitorTrail
<1>24. ASSUME NEW s \in TradeMonitors, TradeMonitorCommit(s) PROVE LedgerTypeOK'
  BY <1>24, FinishTypes, MarkedTypes DEF TradeMonitorCommit
<1>25. ASSUME NEW s \in Sessions, Abort(s) PROVE LedgerTypeOK'
  BY <1>25, FinishTypes DEF Abort
<1>26. ASSUME NEW t \in Trades, SquareOffExpires(t) PROVE LedgerTypeOK'
  BY <1>26 DEF SquareOffExpires
<1>27. CASE UNCHANGED vars
  BY <1>27
<1> QED
  BY <1>1, <1>2, <1>3, <1>4, <1>5, <1>6, <1>7, <1>8, <1>9, <1>10, <1>11, <1>12, <1>13,
     <1>14, <1>15, <1>16, <1>17, <1>18, <1>19, <1>20, <1>21, <1>22, <1>23, <1>24, <1>25, <1>26, <1>27
  DEF LedgerNext, WorkerNext, ManualNext, CloserNext, MonitorNext, TradeMonitorNext

(* Every step keeps FoundMarked.                                           *)
LEMMA FoundStep == LedgerInv /\ [LedgerNext]_vars => FoundMarked'
<1> SUFFICES ASSUME LedgerInv, [LedgerNext]_vars PROVE FoundMarked'
  OBVIOUS
<1> USE DEF LedgerInv, LedgerTypeOK, FoundMarked, Goto, Finish
<1>1. ASSUME NEW s \in Workers, NEW t \in Trades, WorkerCount(s, t)
      PROVE  FoundMarked'
  BY <1>1 DEF WorkerCount
<1>2. ASSUME NEW s \in Workers, WorkerCheckDuplicate(s) PROVE FoundMarked'
  BY <1>2 DEF WorkerCheckDuplicate
<1>3. ASSUME NEW s \in Workers, WorkerLock(s) PROVE FoundMarked'
  BY <1>3 DEF WorkerLock
<1>4. ASSUME NEW s \in Workers, WorkerReject(s) PROVE FoundMarked'
  BY <1>4 DEF WorkerReject
<1>5. ASSUME NEW s \in Workers, NEW t \in Trades, WorkerCommit(s, t)
      PROVE  FoundMarked'
  BY <1>5 DEF WorkerCommit, OpenCommit
<1>6. ASSUME NEW s \in Manuals, NEW t \in Trades, ManualRead(s, t)
      PROVE  FoundMarked'
  BY <1>6 DEF ManualRead
<1>7. ASSUME NEW s \in Manuals, NEW t \in Trades, ManualCommit(s, t)
      PROVE  FoundMarked'
  BY <1>7 DEF ManualCommit, OpenCommit
<1>8. ASSUME NEW s \in Closers, NEW t \in Trades, NEW p \in Pnls, CloseRead(s, t, p)
      PROVE  FoundMarked'
  BY <1>8 DEF CloseRead
<1>9. ASSUME NEW s \in Closers, NEW t \in Trades, CloseReadBalance(s, t)
      PROVE  FoundMarked'
  BY <1>9 DEF CloseReadBalance
<1>10. ASSUME NEW s \in Closers, CloseCommit(s) PROVE FoundMarked'
  BY <1>10 DEF CloseCommit, CommitReturns
<1>11. ASSUME NEW s \in Resets, ResetDelete(s) PROVE FoundMarked'
  BY <1>11 DEF ResetDelete
<1>12. ASSUME NEW s \in Resets, ResetCommit(s) PROVE FoundMarked'
  BY <1>12 DEF ResetCommit
<1>13. ASSUME NEW s \in KillSwitches, KillSwitchRead(s) PROVE FoundMarked'
  BY <1>13 DEF KillSwitchRead
<1>14. ASSUME NEW s \in KillSwitches, KillSwitchCommit(s) PROVE FoundMarked'
  BY <1>14 DEF KillSwitchCommit
<1>15. ASSUME NEW s \in Monitors, MonitorRead(s) PROVE FoundMarked'
  BY <1>15 DEF MonitorRead
<1>16. ASSUME NEW s \in Monitors, MonitorReadBalance(s) PROVE FoundMarked'
  BY <1>16 DEF MonitorReadBalance
<1>17. ASSUME NEW s \in Monitors, NEW t \in Trades, NEW p \in Pnls, MonitorExit(s, t, p)
       PROVE  FoundMarked'
  BY <1>17 DEF MonitorExit
<1>18. ASSUME NEW s \in Monitors, NEW t \in Trades, MonitorTrail(s, t)
       PROVE  FoundMarked'
  BY <1>18 DEF MonitorTrail
<1>19. ASSUME NEW s \in Monitors, MonitorCommit(s) PROVE FoundMarked'
  BY <1>19 DEF MonitorCommit, CommitReturns
<1>20. ASSUME NEW s \in TradeMonitors, TradeMonitorRead(s) PROVE FoundMarked'
  BY <1>20 DEF TradeMonitorRead
<1>21. ASSUME NEW s \in TradeMonitors, NEW t \in Trades, NEW p \in Pnls, TradeMonitorExit(s, t, p)
       PROVE  FoundMarked'
  BY <1>21 DEF TradeMonitorExit
<1>22. ASSUME NEW s \in TradeMonitors, NEW t \in Trades, NEW p \in Pnls, TradeMonitorSquareOff(s, t, p)
       PROVE  FoundMarked'
  BY <1>22 DEF TradeMonitorSquareOff
<1>23. ASSUME NEW s \in TradeMonitors, NEW t \in Trades, TradeMonitorTrail(s, t)
       PROVE  FoundMarked'
  BY <1>23 DEF TradeMonitorTrail
<1>24. ASSUME NEW s \in TradeMonitors, TradeMonitorCommit(s) PROVE FoundMarked'
  BY <1>24 DEF TradeMonitorCommit
<1>25. ASSUME NEW s \in Sessions, Abort(s) PROVE FoundMarked'
  BY <1>25 DEF Abort
<1>26. ASSUME NEW t \in Trades, SquareOffExpires(t) PROVE FoundMarked'
  BY <1>26 DEF SquareOffExpires
<1>27. CASE UNCHANGED vars
  BY <1>27
<1> QED
  BY <1>1, <1>2, <1>3, <1>4, <1>5, <1>6, <1>7, <1>8, <1>9, <1>10, <1>11, <1>12, <1>13,
     <1>14, <1>15, <1>16, <1>17, <1>18, <1>19, <1>20, <1>21, <1>22, <1>23, <1>24, <1>25, <1>26, <1>27
  DEF LedgerNext, WorkerNext, ManualNext, CloserNext, MonitorNext, TradeMonitorNext

(* Every step keeps LockHeld: only WorkerLock takes the row, only the end  *)
(* of the session gives it back, and no other session writes the balance   *)
(* meanwhile.                                                              *)
LEMMA LockStep == LedgerInv /\ [LedgerNext]_vars => LockHeld'
<1> SUFFICES ASSUME LedgerInv, [LedgerNext]_vars PROVE LockHeld'
  OBVIOUS
<1> USE LedgerAssumption
<1> USE DEF LedgerInv, LedgerTypeOK, LockHeld, Goto, Finish, MayWriteBalance
<1>1. ASSUME NEW s \in Workers, NEW t \in Trades, WorkerCount(s, t)
      PROVE  LockHeld'
  BY <1>1 DEF WorkerCount
<1>2. ASSUME NEW s \in Workers, WorkerCheckDuplicate(s) PROVE LockHeld'
  BY <1>2 DEF WorkerCheckDuplicate
<1>3. ASSUME NEW s \in Workers, WorkerLock(s) PROVE LockHeld'
  BY <1>3 DEF WorkerLock
<1>4. ASSUME NEW s \in Workers, WorkerReject(s) PROVE LockHeld'
  BY <1>4 DEF WorkerReject
<1>5. ASSUME NEW s \in Workers, NEW t \in Trades, WorkerCommit(s, t)
      PROVE  LockHeld'
  BY <1>5 DEF WorkerCommit, OpenCommit
<1>6. ASSUME NEW s \in Manuals, NEW t \in Trades, ManualRead(s, t) PROVE LockHeld'
  BY <1>6 DEF ManualRead
<1>7. ASSUME NEW s \in Manuals, NEW t \in Trades, ManualCommit(s, t)
      PROVE  LockHeld'
  BY <1>7 DEF ManualCommit, OpenCommit
<1>8. ASSUME NEW s \in Closers, NEW t \in Trades, NEW p \in Pnls, CloseRead(s, t, p)
      PROVE  LockHeld'
  BY <1>8 DEF CloseRead
<1>9. ASSUME NEW s \in Closers, NEW t \in Trades, CloseReadBalance(s, t)
      PROVE  LockHeld'
  BY <1>9 DEF CloseReadBalance
<1>10. ASSUME NEW s \in Closers, CloseCommit(s) PROVE LockHeld'
  BY <1>10 DEF CloseCommit, CommitReturns
<1>11. ASSUME NEW s \in Resets, ResetDelete(s) PROVE LockHeld'
  BY <1>11 DEF ResetDelete
<1>12. ASSUME NEW s \in Resets, ResetCommit(s) PROVE LockHeld'
  BY <1>12 DEF ResetCommit
<1>13. ASSUME NEW s \in KillSwitches, KillSwitchRead(s) PROVE LockHeld'
  BY <1>13 DEF KillSwitchRead
<1>14. ASSUME NEW s \in KillSwitches, KillSwitchCommit(s) PROVE LockHeld'
  BY <1>14 DEF KillSwitchCommit
<1>15. ASSUME NEW s \in Monitors, MonitorRead(s) PROVE LockHeld'
  BY <1>15 DEF MonitorRead
<1>16. ASSUME NEW s \in Monitors, MonitorReadBalance(s) PROVE LockHeld'
  BY <1>16 DEF MonitorReadBalance
<1>17. ASSUME NEW s \in Monitors, NEW t \in Trades, NEW p \in Pnls, MonitorExit(s, t, p)
       PROVE  LockHeld'
  BY <1>17 DEF MonitorExit
<1>18. ASSUME NEW s \in Monitors, NEW t \in Trades, MonitorTrail(s, t)
       PROVE  LockHeld'
  BY <1>18 DEF MonitorTrail
<1>19. ASSUME NEW s \in Monitors, MonitorCommit(s) PROVE LockHeld'
  BY <1>19 DEF MonitorCommit, CommitReturns
<1>20. ASSUME NEW s \in TradeMonitors, TradeMonitorRead(s) PROVE LockHeld'
  BY <1>20 DEF TradeMonitorRead
<1>21. ASSUME NEW s \in TradeMonitors, NEW t \in Trades, NEW p \in Pnls, TradeMonitorExit(s, t, p)
       PROVE  LockHeld'
  BY <1>21 DEF TradeMonitorExit
<1>22. ASSUME NEW s \in TradeMonitors, NEW t \in Trades, NEW p \in Pnls, TradeMonitorSquareOff(s, t, p)
       PROVE  LockHeld'
  BY <1>22 DEF TradeMonitorSquareOff
<1>23. ASSUME NEW s \in TradeMonitors, NEW t \in Trades, TradeMonitorTrail(s, t)
       PROVE  LockHeld'
  BY <1>23 DEF TradeMonitorTrail
<1>24. ASSUME NEW s \in TradeMonitors, TradeMonitorCommit(s) PROVE LockHeld'
  BY <1>24 DEF TradeMonitorCommit
<1>25. ASSUME NEW s \in Sessions, Abort(s) PROVE LockHeld'
  BY <1>25 DEF Abort
<1>26. ASSUME NEW t \in Trades, SquareOffExpires(t) PROVE LockHeld'
  BY <1>26 DEF SquareOffExpires
<1>27. CASE UNCHANGED vars
  BY <1>27
<1> QED
  BY <1>1, <1>2, <1>3, <1>4, <1>5, <1>6, <1>7, <1>8, <1>9, <1>10, <1>11, <1>12, <1>13,
     <1>14, <1>15, <1>16, <1>17, <1>18, <1>19, <1>20, <1>21, <1>22, <1>23, <1>24, <1>25, <1>26, <1>27
  DEF LedgerNext, WorkerNext, ManualNext, CloserNext, MonitorNext, TradeMonitorNext

(* Every step keeps NothingBelow: opens check the balance they hold, and a *)
(* close that loses more than it returns says how much.                    *)
LEMMA FloorStep == LedgerInv /\ [LedgerNext]_vars => NothingBelow'
<1> SUFFICES ASSUME LedgerInv, [LedgerNext]_vars PROVE NothingBelow'
  OBVIOUS
<1> USE AccountAssumption
<1> USE DEF LedgerInv, LedgerTypeOK, TypeOK, NothingBelow, NoFurtherOverdraft, Goto, Finish
<1>1. ASSUME NEW s \in Workers, NEW t \in Trades, WorkerCount(s, t)
      PROVE  NothingBelow'
  BY <1>1 DEF WorkerCount
<1>2. ASSUME NEW s \in Workers, WorkerCheckDuplicate(s) PROVE NothingBelow'
  BY <1>2 DEF WorkerCheckDuplicate
<1>3. ASSUME NEW s \in Workers, WorkerLock(s) PROVE NothingBelow'
  BY <1>3 DEF WorkerLock
<1>4. ASSUME NEW s \in Workers, WorkerReject(s) PROVE NothingBelow'
  BY <1>4 DEF WorkerReject
<1>5. ASSUME NEW s \in Workers, NEW t \in Trades, WorkerCommit(s, t)
      PROVE  NothingBelow'
  BY <1>5 DEF WorkerCommit, OpenCommit
<1>6. ASSUME NEW s \in Manuals, NEW t \in Trades, ManualRead(s, t)
      PROVE  NothingBelow'
  BY <1>6 DEF ManualRead
<1>7. ASSUME NEW s \in Manuals, NEW t \in Trades, ManualCommit(s, t)
      PROVE  NothingBelow'
  BY <1>7 DEF ManualCommit, OpenCommit
<1>8. ASSUME NEW s \in Closers, NEW t \in Trades, NEW p \in Pnls, CloseRead(s, t, p)
      PROVE  NothingBelow'
  BY <1>8 DEF CloseRead
<1>9. ASSUME NEW s \in Closers, NEW t \in Trades, CloseReadBalance(s, t)
      PROVE  NothingBelow'
  <2>1. marks[s][t] \in Pnls
    BY <1>9 DEF CloseReadBalance, FoundMarked
  <2>2. marks[s][t] \in Int /\ Margin[t] \in Nat
    BY <2>1
  <2>3. Margin[t] + marks[s][t] >= -Beyond(t, marks[s][t]) /\ Beyond(t, marks[s][t]) \in Nat
    BY <2>2 DEF Beyond
  <2> QED
    BY <1>9, <2>2, <2>3 DEF CloseReadBalance
<1>10. ASSUME NEW s \in Closers, CloseCommit(s) PROVE NothingBelow'
  BY <1>10 DEF CloseCommit, CommitReturns
<1>11. ASSUME NEW s \in Resets, ResetDelete(s) PROVE NothingBelow'
  BY <1>11 DEF ResetDelete
<1>12. ASSUME NEW s \in Resets, ResetCommit(s) PROVE NothingBelow'
  BY <1>12 DEF ResetCommit
<1>13. ASSUME NEW s \in KillSwitches, KillSwitchRead(s) PROVE NothingBelow'
  BY <1>13 DEF KillSwitchRead
<1>14. ASSUME NEW s \in KillSwitches, KillSwitchCommit(s) PROVE NothingBelow'
  BY <1>14 DEF KillSwitchCommit
<1>15. ASSUME NEW s \in Monitors, MonitorRead(s) PROVE NothingBelow'
  BY <1>15 DEF MonitorRead
<1>16. ASSUME NEW s \in Monitors, MonitorReadBalance(s) PROVE NothingBelow'
  BY <1>16 DEF MonitorReadBalance
<1>17. ASSUME NEW s \in Monitors, NEW t \in Trades, NEW p \in Pnls, MonitorExit(s, t, p)
       PROVE  NothingBelow'
  <2>1. Beyond(t, p) \in Nat /\ Margin[t] + p >= -Beyond(t, p)
    BY DEF Beyond
  <2> QED
    BY <1>17, <2>1 DEF MonitorExit
<1>18. ASSUME NEW s \in Monitors, NEW t \in Trades, MonitorTrail(s, t)
       PROVE  NothingBelow'
  BY <1>18 DEF MonitorTrail
<1>19. ASSUME NEW s \in Monitors, MonitorCommit(s) PROVE NothingBelow'
  BY <1>19 DEF MonitorCommit, CommitReturns
<1>20. ASSUME NEW s \in TradeMonitors, TradeMonitorRead(s) PROVE NothingBelow'
  BY <1>20 DEF TradeMonitorRead
<1>21. ASSUME NEW s \in TradeMonitors, NEW t \in Trades, NEW p \in Pnls, TradeMonitorExit(s, t, p)
       PROVE  NothingBelow'
  BY <1>21 DEF TradeMonitorExit
<1>22. ASSUME NEW s \in TradeMonitors, NEW t \in Trades, NEW p \in Pnls, TradeMonitorSquareOff(s, t, p)
       PROVE  NothingBelow'
  BY <1>22 DEF TradeMonitorSquareOff
<1>23. ASSUME NEW s \in TradeMonitors, NEW t \in Trades, TradeMonitorTrail(s, t)
       PROVE  NothingBelow'
  BY <1>23 DEF TradeMonitorTrail
<1>24. ASSUME NEW s \in TradeMonitors, TradeMonitorCommit(s)
       PROVE  NothingBelow'
  BY <1>24 DEF TradeMonitorCommit
<1>25. ASSUME NEW s \in Sessions, Abort(s) PROVE NothingBelow'
  BY <1>25 DEF Abort
<1>26. ASSUME NEW t \in Trades, SquareOffExpires(t) PROVE NothingBelow'
  BY <1>26 DEF SquareOffExpires
<1>27. CASE UNCHANGED vars
  BY <1>27
<1> QED
  BY <1>1, <1>2, <1>3, <1>4, <1>5, <1>6, <1>7, <1>8, <1>9, <1>10, <1>11, <1>12, <1>13,
     <1>14, <1>15, <1>16, <1>17, <1>18, <1>19, <1>20, <1>21, <1>22, <1>23, <1>24, <1>25, <1>26, <1>27
  DEF LedgerNext, WorkerNext, ManualNext, CloserNext, MonitorNext, TradeMonitorNext

(* Every step keeps ClaimsExclusive.                                       *)
LEMMA ClaimStep == LedgerInv /\ [LedgerNext]_vars => ClaimsExclusive'
<1> SUFFICES ASSUME LedgerInv, [LedgerNext]_vars PROVE ClaimsExclusive'
  OBVIOUS
<1> USE LedgerAssumption
<1> USE DEF LedgerInv, LedgerTypeOK, TypeOK, ClaimsExclusive, MarksKnown, Goto, Finish
<1>1. ASSUME NEW s \in Workers, NEW t \in Trades, WorkerCount(s, t)
      PROVE  ClaimsExclusive'
  BY <1>1 DEF WorkerCount, Unclaimed
<1>2. ASSUME NEW s \in Workers, WorkerCheckDuplicate(s) PROVE ClaimsExclusive'
  BY <1>2 DEF WorkerCheckDuplicate
<1>3. ASSUME NEW s \in Workers, WorkerLock(s) PROVE ClaimsExclusive'
  BY <1>3 DEF WorkerLock
<1>4. ASSUME NEW s \in Workers, WorkerReject(s) PROVE ClaimsExclusive'
  BY <1>4 DEF WorkerReject
<1>5. ASSUME NEW s \in Workers, NEW t \in Trades, WorkerCommit(s, t)
      PROVE  ClaimsExclusive'
  BY <1>5 DEF WorkerCommit, OpenCommit
<1>6. ASSUME NEW s \in Manuals, NEW t \in Trades, ManualRead(s, t)
      PROVE  ClaimsExclusive'
  BY <1>6 DEF ManualRead, Unclaimed
<1>7. ASSUME NEW s \in Manuals, NEW t \in Trades, ManualCommit(s, t)
      PROVE  ClaimsExclusive'
  BY <1>7 DEF ManualCommit, OpenCommit
<1>8. ASSUME NEW s \in Closers, NEW t \in Trades, NEW p \in Pnls, CloseRead(s, t, p)
      PROVE  ClaimsExclusive'
  BY <1>8 DEF CloseRead
<1>9. ASSUME NEW s \in Closers, NEW t \in Trades, CloseReadBalance(s, t)
      PROVE  ClaimsExclusive'
  BY <1>9 DEF CloseReadBalance
<1>10. ASSUME NEW s \in Closers, CloseCommit(s) PROVE ClaimsExclusive'
  BY <1>10 DEF CloseCommit, CommitReturns, CloseMarked, Closing
<1>11. ASSUME NEW s \in Resets, ResetDelete(s) PROVE ClaimsExclusive'
  BY <1>11 DEF ResetDelete, WithStatus
<1>12. ASSUME NEW s \in Resets, ResetCommit(s) PROVE ClaimsExclusive'
  BY <1>12 DEF ResetCommit
<1>13. ASSUME NEW s \in KillSwitches, KillSwitchRead(s) PROVE ClaimsExclusive'
  BY <1>13 DEF KillSwitchRead, WithStatus
<1>14. ASSUME NEW s \in KillSwitches, KillSwitchCommit(s) PROVE ClaimsExclusive'
  BY <1>14 DEF KillSwitchCommit, CloseMarked, Closing
<1>15. ASSUME NEW s \in Monitors, MonitorRead(s) PROVE ClaimsExclusive'
  BY <1>15 DEF MonitorRead, WithStatus
<1>16. ASSUME NEW s \in Monitors, MonitorReadBalance(s) PROVE ClaimsExclusive'
  BY <1>16 DEF MonitorReadBalance
<1>17. ASSUME NEW s \in Monitors, NEW t \in Trades, NEW p \in Pnls, MonitorExit(s, t, p)
       PROVE  ClaimsExclusive'
  BY <1>17 DEF MonitorExit
<1>18. ASSUME NEW s \in Monitors, NEW t \in Trades, MonitorTrail(s, t)
       PROVE  ClaimsExclusive'
  BY <1>18 DEF MonitorTrail
<1>19. ASSUME NEW s \in Monitors, MonitorCommit(s) PROVE ClaimsExclusive'
  BY <1>19 DEF MonitorCommit, CommitReturns, CloseMarked, Closing
<1>20. ASSUME NEW s \in TradeMonitors, TradeMonitorRead(s) PROVE ClaimsExclusive'
  BY <1>20 DEF TradeMonitorRead, WithStatus
<1>21. ASSUME NEW s \in TradeMonitors, NEW t \in Trades, NEW p \in Pnls, TradeMonitorExit(s, t, p)
       PROVE  ClaimsExclusive'
  BY <1>21 DEF TradeMonitorExit
<1>22. ASSUME NEW s \in TradeMonitors, NEW t \in Trades, NEW p \in Pnls, TradeMonitorSquareOff(s, t, p)
       PROVE  ClaimsExclusive'
  BY <1>22 DEF TradeMonitorSquareOff
<1>23. ASSUME NEW s \in TradeMonitors, NEW t \in Trades, TradeMonitorTrail(s, t)
       PROVE  ClaimsExclusive'
  BY <1>23 DEF TradeMonitorTrail
<1>24. ASSUME NEW s \in TradeMonitors, TradeMonitorCommit(s)
       PROVE  ClaimsExclusive'
  BY <1>24 DEF TradeMonitorCommit, CloseMarked, Closing
<1>25. ASSUME NEW s \in Sessions, Abort(s) PROVE ClaimsExclusive'
  BY <1>25 DEF Abort
<1>26. ASSUME NEW t \in Trades, SquareOffExpires(t) PROVE ClaimsExclusive'
  BY <1>26 DEF SquareOffExpires
<1>27. CASE UNCHANGED vars
  BY <1>27
<1> QED
  BY <1>1, <1>2, <1>3, <1>4, <1>5, <1>6, <1>7, <1>8, <1>9, <1>10, <1>11, <1>12, <1>13,
     <1>14, <1>15, <1>16, <1>17, <1>18, <1>19, <1>20, <1>21, <1>22, <1>23, <1>24, <1>25, <1>26, <1>27
  DEF LedgerNext, WorkerNext, ManualNext, CloserNext, MonitorNext, TradeMonitorNext

(* Every step keeps MarksKnown.                                            *)
LEMMA MarksStep == LedgerInv /\ [LedgerNext]_vars => MarksKnown'
<1> SUFFICES ASSUME LedgerInv, [LedgerNext]_vars PROVE MarksKnown'
  OBVIOUS
<1> USE LedgerAssumption
<1> USE DEF LedgerInv, LedgerTypeOK, TypeOK, MarksKnown, ClaimsExclusive, Goto, Finish, NoMarks
<1>1. ASSUME NEW s \in Workers, NEW t \in Trades, WorkerCount(s, t)
      PROVE  MarksKnown'
  BY <1>1 DEF WorkerCount
<1>2. ASSUME NEW s \in Workers, WorkerCheckDuplicate(s) PROVE MarksKnown'
  BY <1>2 DEF WorkerCheckDuplicate
<1>3. ASSUME NEW s \in Workers, WorkerLock(s) PROVE MarksKnown'
  BY <1>3 DEF WorkerLock
<1>4. ASSUME NEW s \in Workers, WorkerReject(s) PROVE MarksKnown'
  BY <1>4 DEF WorkerReject
<1>5. ASSUME NEW s \in Workers, NEW t \in Trades, WorkerCommit(s, t)
      PROVE  MarksKnown'
  BY <1>5 DEF WorkerCommit, OpenCommit
<1>6. ASSUME NEW s \in Manuals, NEW t \in Trades, ManualRead(s, t)
      PROVE  MarksKnown'
  BY <1>6 DEF ManualRead
<1>7. ASSUME NEW s \in Manuals, NEW t \in Trades, ManualCommit(s, t)
      PROVE  MarksKnown'
  BY <1>7 DEF ManualCommit, OpenCommit
<1>8. ASSUME NEW s \in Closers, NEW t \in Trades, NEW p \in Pnls, CloseRead(s, t, p)
      PROVE  MarksKnown'
  BY <1>8 DEF CloseRead
<1>9. ASSUME NEW s \in Closers, NEW t \in Trades, CloseReadBalance(s, t)
      PROVE  MarksKnown'
  BY <1>9 DEF CloseReadBalance
<1>10. ASSUME NEW s \in Closers, CloseCommit(s) PROVE MarksKnown'
  BY <1>10 DEF CloseCommit, CommitReturns, CloseMarked, Closing
<1>11. ASSUME NEW s \in Resets, ResetDelete(s) PROVE MarksKnown'
  BY <1>11 DEF ResetDelete, WithStatus
<1>12. ASSUME NEW s \in Resets, ResetCommit(s) PROVE MarksKnown'
  BY <1>12 DEF ResetCommit
<1>13. ASSUME NEW s \in KillSwitches, KillSwitchRead(s) PROVE MarksKnown'
  BY <1>13 DEF KillSwitchRead, WithStatus
<1>14. ASSUME NEW s \in KillSwitches, KillSwitchCommit(s) PROVE MarksKnown'
  BY <1>14 DEF KillSwitchCommit, CloseMarked, Closing
<1>15. ASSUME NEW s \in Monitors, MonitorRead(s) PROVE MarksKnown'
  BY <1>15 DEF MonitorRead, WithStatus
<1>16. ASSUME NEW s \in Monitors, MonitorReadBalance(s) PROVE MarksKnown'
  BY <1>16 DEF MonitorReadBalance
<1>17. ASSUME NEW s \in Monitors, NEW t \in Trades, NEW p \in Pnls, MonitorExit(s, t, p)
       PROVE  MarksKnown'
  BY <1>17 DEF MonitorExit
<1>18. ASSUME NEW s \in Monitors, NEW t \in Trades, MonitorTrail(s, t)
       PROVE  MarksKnown'
  BY <1>18 DEF MonitorTrail
<1>19. ASSUME NEW s \in Monitors, MonitorCommit(s) PROVE MarksKnown'
  BY <1>19 DEF MonitorCommit, CommitReturns, CloseMarked, Closing
<1>20. ASSUME NEW s \in TradeMonitors, TradeMonitorRead(s) PROVE MarksKnown'
  BY <1>20 DEF TradeMonitorRead, WithStatus
<1>21. ASSUME NEW s \in TradeMonitors, NEW t \in Trades, NEW p \in Pnls, TradeMonitorExit(s, t, p)
       PROVE  MarksKnown'
  BY <1>21 DEF TradeMonitorExit
<1>22. ASSUME NEW s \in TradeMonitors, NEW t \in Trades, NEW p \in Pnls, TradeMonitorSquareOff(s, t, p)
       PROVE  MarksKnown'
  BY <1>22 DEF TradeMonitorSquareOff
<1>23. ASSUME NEW s \in TradeMonitors, NEW t \in Trades, TradeMonitorTrail(s, t)
       PROVE  MarksKnown'
  BY <1>23 DEF TradeMonitorTrail
<1>24. ASSUME NEW s \in TradeMonitors, TradeMonitorCommit(s) PROVE MarksKnown'
  BY <1>24 DEF TradeMonitorCommit, CloseMarked, Closing
<1>25. ASSUME NEW s \in Sessions, Abort(s) PROVE MarksKnown'
  BY <1>25 DEF Abort
<1>26. ASSUME NEW t \in Trades, SquareOffExpires(t) PROVE MarksKnown'
  BY <1>26 DEF SquareOffExpires
<1>27. CASE UNCHANGED vars
  BY <1>27
<1> QED
  BY <1>1, <1>2, <1>3, <1>4, <1>5, <1>6, <1>7, <1>8, <1>9, <1>10, <1>11, <1>12, <1>13,
     <1>14, <1>15, <1>16, <1>17, <1>18, <1>19, <1>20, <1>21, <1>22, <1>23, <1>24, <1>25, <1>26, <1>27
  DEF LedgerNext, WorkerNext, ManualNext, CloserNext, MonitorNext, TradeMonitorNext

(* LedgerInv holds in every reachable state.                               *)
THEOREM LedgerInvariant == LedgerSpec => []LedgerInv
<1>1. LedgerInit => LedgerInv
  BY AccountAssumption, LedgerAssumption
  DEF LedgerInit, Init, LedgerInv, LedgerTypeOK, TypeOK, FoundMarked, LockHeld,
      NothingBelow, NoFurtherOverdraft, ClaimsExclusive, MarksKnown, NoMarks
<1>2. LedgerInv /\ [LedgerNext]_vars => LedgerInv'
  BY TypeStep, FoundStep, LockStep, FloorStep, ClaimStep, MarksStep DEF LedgerInv
<1> QED
  BY <1>1, <1>2, PTL DEF LedgerSpec

-----------------------------------------------------------------------------
(* Every reachable state is well typed.                                    *)
THEOREM LedgerTypeCorrect == LedgerSpec => []LedgerTypeOK
<1>1. LedgerInv => LedgerTypeOK
  BY DEF LedgerInv
<1> QED
  BY <1>1, LedgerInvariant, PTL

(* With any mixture of workers, requests and monitors, however stale what  *)
(* they hold, the paper balance is never lower than what committed         *)
(* closings lost beyond their margins: no open, and no update that is      *)
(* lost, takes it further down.                                            *)
THEOREM OnlyLossesOverdraw == LedgerSpec => []NoFurtherOverdraft
<1>1. LedgerInv => NoFurtherOverdraft
  BY DEF LedgerInv, NothingBelow
<1> QED
  BY <1>1, LedgerInvariant, PTL

(* SELECT ... FOR UPDATE does what _execute_paper_trade needs: what the    *)
(* worker read is current until it commits.                                *)
THEOREM LockedReads == LedgerSpec => []LockedReadIsCurrent
<1>1. LedgerInv => LockedReadIsCurrent
  BY DEF LedgerInv, LockHeld, LockedReadIsCurrent
<1> QED
  BY <1>1, LedgerInvariant, PTL

-----------------------------------------------------------------------------
(* Only the commit of an opener makes a row OPEN; every other step leaves  *)
(* the set of open positions alone or makes it smaller.                    *)
LEMMA OnlyCommitsOpen ==
    LedgerInv /\ [LedgerNext]_vars =>
      \/ \E s \in Workers, t \in Trades : WorkerCommit(s, t)
      \/ \E s \in Manuals, t \in Trades : ManualCommit(s, t)
      \/ WithStatus("OPEN")' \subseteq WithStatus("OPEN")
<1> DEFINE OnlyOpens ==
      \/ \E s \in Workers, t \in Trades : WorkerCommit(s, t)
      \/ \E s \in Manuals, t \in Trades : ManualCommit(s, t)
      \/ WithStatus("OPEN")' \subseteq WithStatus("OPEN")
<1> SUFFICES ASSUME LedgerInv, [LedgerNext]_vars PROVE OnlyOpens
  OBVIOUS
<1> USE DEF LedgerInv, LedgerTypeOK, TypeOK, WithStatus
<1>1. ASSUME NEW s \in Workers, NEW t \in Trades, WorkerCount(s, t)
      PROVE  OnlyOpens
  BY <1>1 DEF WorkerCount
<1>2. ASSUME NEW s \in Workers, WorkerCheckDuplicate(s)
      PROVE  OnlyOpens
  BY <1>2 DEF WorkerCheckDuplicate
<1>3. ASSUME NEW s \in Workers, WorkerLock(s)
      PROVE  OnlyOpens
  BY <1>3 DEF WorkerLock
<1>4. ASSUME NEW s \in Workers, WorkerReject(s)
      PROVE  OnlyOpens
  BY <1>4 DEF WorkerReject
<1>5. ASSUME NEW s \in Workers, NEW t \in Trades, WorkerCommit(s, t)
      PROVE  OnlyOpens
  BY <1>5 DEF WorkerCommit, OpenCommit
<1>6. ASSUME NEW s \in Manuals, NEW t \in Trades, ManualRead(s, t)
      PROVE  OnlyOpens
  BY <1>6 DEF ManualRead
<1>7. ASSUME NEW s \in Manuals, NEW t \in Trades, ManualCommit(s, t)
      PROVE  OnlyOpens
  BY <1>7 DEF ManualCommit, OpenCommit
<1>8. ASSUME NEW s \in Closers, NEW t \in Trades, NEW p \in Pnls, CloseRead(s, t, p)
      PROVE  OnlyOpens
  BY <1>8 DEF CloseRead
<1>9. ASSUME NEW s \in Closers, NEW t \in Trades, CloseReadBalance(s, t)
      PROVE  OnlyOpens
  BY <1>9 DEF CloseReadBalance
<1>10. ASSUME NEW s \in Closers, CloseCommit(s)
       PROVE  OnlyOpens
  BY <1>10 DEF CloseCommit, CommitReturns, CloseMarked, Closing, StaleRows, Touched
<1>11. ASSUME NEW s \in Resets, ResetDelete(s)
       PROVE  OnlyOpens
  BY <1>11 DEF ResetDelete
<1>12. ASSUME NEW s \in Resets, ResetCommit(s)
       PROVE  OnlyOpens
  BY <1>12 DEF ResetCommit
<1>13. ASSUME NEW s \in KillSwitches, KillSwitchRead(s)
       PROVE  OnlyOpens
  BY <1>13 DEF KillSwitchRead
<1>14. ASSUME NEW s \in KillSwitches, KillSwitchCommit(s)
       PROVE  OnlyOpens
  BY <1>14 DEF KillSwitchCommit, CloseMarked, Closing, StaleRows, Touched
<1>15. ASSUME NEW s \in Monitors, MonitorRead(s)
       PROVE  OnlyOpens
  BY <1>15 DEF MonitorRead
<1>16. ASSUME NEW s \in Monitors, MonitorReadBalance(s)
       PROVE  OnlyOpens
  BY <1>16 DEF MonitorReadBalance
<1>17. ASSUME NEW s \in Monitors, NEW t \in Trades, NEW p \in Pnls, MonitorExit(s, t, p)
       PROVE  OnlyOpens
  BY <1>17 DEF MonitorExit
<1>18. ASSUME NEW s \in Monitors, NEW t \in Trades, MonitorTrail(s, t)
       PROVE  OnlyOpens
  BY <1>18 DEF MonitorTrail
<1>19. ASSUME NEW s \in Monitors, MonitorCommit(s)
       PROVE  OnlyOpens
  BY <1>19 DEF MonitorCommit, CommitReturns, CloseMarked, Closing, StaleRows, Touched
<1>20. ASSUME NEW s \in TradeMonitors, TradeMonitorRead(s)
       PROVE  OnlyOpens
  BY <1>20 DEF TradeMonitorRead
<1>21. ASSUME NEW s \in TradeMonitors, NEW t \in Trades, NEW p \in Pnls, TradeMonitorExit(s, t, p)
       PROVE  OnlyOpens
  BY <1>21 DEF TradeMonitorExit
<1>22. ASSUME NEW s \in TradeMonitors, NEW t \in Trades, NEW p \in Pnls, TradeMonitorSquareOff(s, t, p)
       PROVE  OnlyOpens
  BY <1>22 DEF TradeMonitorSquareOff
<1>23. ASSUME NEW s \in TradeMonitors, NEW t \in Trades, TradeMonitorTrail(s, t)
       PROVE  OnlyOpens
  BY <1>23 DEF TradeMonitorTrail
<1>24. ASSUME NEW s \in TradeMonitors, TradeMonitorCommit(s)
       PROVE  OnlyOpens
  BY <1>24 DEF TradeMonitorCommit, CloseMarked, Closing, StaleRows, Touched
<1>25. ASSUME NEW s \in Sessions, Abort(s)
       PROVE  OnlyOpens
  BY <1>25 DEF Abort
<1>26. ASSUME NEW t \in Trades, SquareOffExpires(t)
       PROVE  OnlyOpens
  BY <1>26 DEF SquareOffExpires
<1>27. CASE UNCHANGED vars
  BY <1>27
<1> QED
  BY <1>1, <1>2, <1>3, <1>4, <1>5, <1>6, <1>7, <1>8, <1>9, <1>10, <1>11, <1>12, <1>13,
     <1>14, <1>15, <1>16, <1>17, <1>18, <1>19, <1>20, <1>21, <1>22, <1>23, <1>24, <1>25, <1>26, <1>27
  DEF LedgerNext, WorkerNext, ManualNext, CloserNext, MonitorNext, TradeMonitorNext

(* A closed position stays closed and a deleted row stays deleted: what a  *)
(* session holds is never written over a later status.                     *)
THEOREM ClosedForGood == LedgerSpec => NeverReopened
<1> DEFINE Kept(t) == /\ status[t] = "CLOSED" => status'[t] \in {"CLOSED", "DELETED"}
                      /\ status[t] = "DELETED" => status'[t] = "DELETED"
<1>1. LedgerInv /\ [LedgerNext]_vars => \A u \in Trades : Kept(u)
  <2> SUFFICES ASSUME LedgerInv, [LedgerNext]_vars, NEW u \in Trades PROVE Kept(u)
    OBVIOUS
  <2> USE LedgerAssumption
  <2> USE DEF LedgerInv, LedgerTypeOK, TypeOK, ClaimsExclusive
  <2>1. ASSUME NEW s \in Workers, NEW t \in Trades, WorkerCount(s, t)
        PROVE  Kept(u)
    BY <2>1 DEF WorkerCount
  <2>2. ASSUME NEW s \in Workers, WorkerCheckDuplicate(s)
        PROVE  Kept(u)
    BY <2>2 DEF WorkerCheckDuplicate
  <2>3. ASSUME NEW s \in Workers, WorkerLock(s)
        PROVE  Kept(u)
    BY <2>3 DEF WorkerLock
  <2>4. ASSUME NEW s \in Workers, WorkerReject(s)
        PROVE  Kept(u)
    BY <2>4 DEF WorkerReject
  <2>5. ASSUME NEW s \in Workers, NEW t \in Trades, WorkerCommit(s, t)
        PROVE  Kept(u)
    BY <2>5 DEF WorkerCommit, OpenCommit
  <2>6. ASSUME NEW s \in Manuals, NEW t \in Trades, ManualRead(s, t)
        PROVE  Kept(u)
    BY <2>6 DEF ManualRead
  <2>7. ASSUME NEW s \in Manuals, NEW t \in Trades, ManualCommit(s, t)
        PROVE  Kept(u)
    BY <2>7 DEF ManualCommit, OpenCommit
  <2>8. ASSUME NEW s \in Closers, NEW t \in Trades, NEW p \in Pnls, CloseRead(s, t, p)
        PROVE  Kept(u)
    BY <2>8 DEF CloseRead
  <2>9. ASSUME NEW s \in Closers, NEW t \in Trades, CloseReadBalance(s, t)
        PROVE  Kept(u)
    BY <2>9 DEF CloseReadBalance
  <2>10. ASSUME NEW s \in Closers, CloseCommit(s)
         PROVE  Kept(u)
    BY <2>10 DEF CloseCommit, CommitReturns, CloseMarked, Closing, StaleRows, Touched
  <2>11. ASSUME NEW s \in Resets, ResetDelete(s)
         PROVE  Kept(u)
    BY <2>11 DEF ResetDelete
  <2>12. ASSUME NEW s \in Resets, ResetCommit(s)
         PROVE  Kept(u)
    BY <2>12 DEF ResetCommit
  <2>13. ASSUME NEW s \in KillSwitches, KillSwitchRead(s)
         PROVE  Kept(u)
    BY <2>13 DEF KillSwitchRead
  <2>14. ASSUME NEW s \in KillSwitches, KillSwitchCommit(s)
         PROVE  Kept(u)
    BY <2>14 DEF KillSwitchCommit, CloseMarked, Closing, StaleRows, Touched
  <2>15. ASSUME NEW s \in Monitors, MonitorRead(s)
         PROVE  Kept(u)
    BY <2>15 DEF MonitorRead
  <2>16. ASSUME NEW s \in Monitors, MonitorReadBalance(s)
         PROVE  Kept(u)
    BY <2>16 DEF MonitorReadBalance
  <2>17. ASSUME NEW s \in Monitors, NEW t \in Trades, NEW p \in Pnls, MonitorExit(s, t, p)
         PROVE  Kept(u)
    BY <2>17 DEF MonitorExit
  <2>18. ASSUME NEW s \in Monitors, NEW t \in Trades, MonitorTrail(s, t)
         PROVE  Kept(u)
    BY <2>18 DEF MonitorTrail
  <2>19. ASSUME NEW s \in Monitors, MonitorCommit(s)
         PROVE  Kept(u)
    BY <2>19 DEF MonitorCommit, CommitReturns, CloseMarked, Closing, StaleRows, Touched
  <2>20. ASSUME NEW s \in TradeMonitors, TradeMonitorRead(s)
         PROVE  Kept(u)
    BY <2>20 DEF TradeMonitorRead
  <2>21. ASSUME NEW s \in TradeMonitors, NEW t \in Trades, NEW p \in Pnls, TradeMonitorExit(s, t, p)
         PROVE  Kept(u)
    BY <2>21 DEF TradeMonitorExit
  <2>22. ASSUME NEW s \in TradeMonitors, NEW t \in Trades, NEW p \in Pnls, TradeMonitorSquareOff(s, t, p)
         PROVE  Kept(u)
    BY <2>22 DEF TradeMonitorSquareOff
  <2>23. ASSUME NEW s \in TradeMonitors, NEW t \in Trades, TradeMonitorTrail(s, t)
         PROVE  Kept(u)
    BY <2>23 DEF TradeMonitorTrail
  <2>24. ASSUME NEW s \in TradeMonitors, TradeMonitorCommit(s)
         PROVE  Kept(u)
    BY <2>24 DEF TradeMonitorCommit, CloseMarked, Closing, StaleRows, Touched
  <2>25. ASSUME NEW s \in Sessions, Abort(s)
         PROVE  Kept(u)
    BY <2>25 DEF Abort
  <2>26. ASSUME NEW t \in Trades, SquareOffExpires(t)
         PROVE  Kept(u)
    BY <2>26 DEF SquareOffExpires
  <2>27. CASE UNCHANGED vars
    BY <2>27
  <2> QED
    BY <2>1, <2>2, <2>3, <2>4, <2>5, <2>6, <2>7, <2>8, <2>9, <2>10, <2>11, <2>12, <2>13,
       <2>14, <2>15, <2>16, <2>17, <2>18, <2>19, <2>20, <2>21, <2>22, <2>23, <2>24, <2>25, <2>26, <2>27
    DEF LedgerNext, WorkerNext, ManualNext, CloserNext, MonitorNext, TradeMonitorNext
<1>2. LedgerInv /\ [LedgerNext]_vars => [\A t \in Trades : Kept(t)]_vars
  BY <1>1
<1> QED
  BY <1>2, LedgerInvariant, PTL DEF LedgerSpec, NeverReopened

-----------------------------------------------------------------------------
(* A worker's commit is an atomic open of PaperAccount: the balance it     *)
(* writes is the committed one less the margin.                            *)
LEMMA WorkerCommitOpens ==
    ASSUME LedgerInv, NEW s \in Workers, NEW t \in Trades, WorkerCommit(s, t)
    PROVE  Open(t)
<1>1. rowLock = s /\ mem[s] = balance
  BY DEF WorkerCommit, LedgerInv, LockHeld
<1>2. status[t] = "NEW"
  BY DEF WorkerCommit, OpenCommit, LedgerInv, ClaimsExclusive
<1> QED
  BY <1>1, <1>2 DEF WorkerCommit, OpenCommit, Open

(* Any number of autotrader workers, crashing anywhere, on an account that *)
(* nobody else writes: the ledger implements the atomic account.           *)
THEOREM WorkersImplementAccount == WorkersOnly => (LedgerSpec => ImplementsAccount)
<1> SUFFICES ASSUME WorkersOnly PROVE LedgerSpec => ImplementsAccount
  OBVIOUS
<1>1. LedgerInit => Init
  BY DEF LedgerInit
<1>2. LedgerInv /\ [LedgerNext]_vars => [Next]_account
  <2> SUFFICES ASSUME LedgerInv, LedgerNext PROVE Next \/ UNCHANGED account
    BY DEF Next
  <2>1. ASSUME NEW s \in Workers, NEW t \in Trades, WorkerCommit(s, t) PROVE Next
    BY <2>1, WorkerCommitOpens DEF Next
  <2>2. ASSUME NEW s \in Workers, NEW t \in Trades, WorkerCount(s, t)
        PROVE  UNCHANGED account
    BY <2>2 DEF WorkerCount
  <2>3. ASSUME NEW s \in Workers,
               WorkerCheckDuplicate(s) \/ WorkerLock(s) \/ WorkerReject(s)
        PROVE  UNCHANGED account
    BY <2>3 DEF WorkerCheckDuplicate, WorkerLock, WorkerReject
  <2>4. ASSUME NEW s \in Sessions, Abort(s) PROVE UNCHANGED account
    BY <2>4 DEF Abort
  <2>5. ASSUME NEW t \in Trades, SquareOffExpires(t) PROVE UNCHANGED account
    BY <2>5 DEF SquareOffExpires
  <2> QED
    BY <2>1, <2>2, <2>3, <2>4, <2>5 DEF LedgerNext, WorkerNext, WorkersOnly
<1> QED
  BY <1>1, <1>2, LedgerInvariant, PTL DEF LedgerSpec, ImplementsAccount, Spec

-----------------------------------------------------------------------------
(* The limits of one worker.  Closing a position keeps them; opening one   *)
(* keeps them because nobody else opened since the worker looked.          *)
LEMMA FewerOpen ==
    ASSUME LimitsInv, LedgerAssumption,
           WithStatus("OPEN")' \subseteq WithStatus("OPEN")
    PROVE  /\ IsFiniteSet(WithStatus("OPEN")')
           /\ Cardinality(WithStatus("OPEN")') \in Nat
           /\ Cardinality(WithStatus("OPEN")) \in Nat
           /\ Cardinality(WithStatus("OPEN")') <= Cardinality(WithStatus("OPEN"))
  BY FS_Subset, FS_CardinalityType DEF LimitsInv

(* The commit of the only worker adds one position, of an instrument that  *)
(* has none, to fewer than max_open_positions.                             *)
LEMMA OneMoreOpen ==
    ASSUME LedgerInv, LimitsInv, LedgerAssumption, SingleWorker,
           NEW s \in Workers, NEW t \in Trades, WorkerCommit(s, t)
    PROVE  LimitsInv'
<1>1. /\ t \in rows[s] /\ pc[s] = "locked" /\ pc' = [pc EXCEPT ![s] = "idle"]
      /\ status' = [status EXCEPT ![t] = "OPEN"] /\ status[t] = "NEW"
  BY DEF WorkerCommit, OpenCommit, Finish, Goto, LedgerInv, ClaimsExclusive
<1>2. WithStatus("OPEN")' = WithStatus("OPEN") \cup {t} /\ t \notin WithStatus("OPEN")
  BY <1>1 DEF WithStatus, LedgerInv, LedgerTypeOK, TypeOK
<1>3. /\ IsFiniteSet(WithStatus("OPEN")')
      /\ Cardinality(WithStatus("OPEN")') = Cardinality(WithStatus("OPEN")) + 1
      /\ Cardinality(WithStatus("OPEN")) \in Nat
  BY <1>2, FS_AddElement, FS_CardinalityType DEF LimitsInv
<1>4. Cardinality(WithStatus("OPEN")) < MaxOpenPositions
  BY <1>1 DEF LimitsInv
<1>5. OpenPositionsCap'
  BY <1>3, <1>4 DEF OpenPositionsCap, LedgerAssumption
<1>6. \A u \in WithStatus("OPEN") : Instrument[t] # Instrument[u]
  BY <1>1 DEF LimitsInv
<1>7. OnePositionPerInstrument'
  BY <1>2, <1>6 DEF LimitsInv, OnePositionPerInstrument
<1>8. \A w \in Workers : pc'[w] = "idle"
  BY <1>1 DEF SingleWorker, LedgerInv, LedgerTypeOK
<1> QED
  BY <1>3, <1>5, <1>7, <1>8 DEF LimitsInv

(* How a worker gets where it is: it looked at the open positions on the   *)
(* way, and kept its row.                                                  *)
Moved(w) ==
    /\ pc'[w] \in {"counted", "checked", "locked"} /\ pc[w] # pc'[w] =>
         \/ pc[w] \in {"counted", "checked"}
         \/ Cardinality(WithStatus("OPEN")) < MaxOpenPositions
    /\ pc'[w] \in {"checked", "locked"} =>
         /\ rows'[w] = rows[w]
         /\ \/ pc[w] \in {"checked", "locked"}
            \/ \A t \in rows[w], u \in WithStatus("OPEN") : Instrument[t] # Instrument[u]

LEMMA WorkerMoves == LedgerInv /\ [LedgerNext]_vars => \A w \in Workers : Moved(w)
<1> SUFFICES ASSUME LedgerInv, [LedgerNext]_vars, NEW w \in Workers PROVE Moved(w)
  OBVIOUS
<1> USE LedgerAssumption
<1> USE DEF Moved, LedgerInv, LedgerTypeOK, Goto
<1>1. ASSUME NEW s \in Workers, NEW t \in Trades, WorkerCount(s, t)
      PROVE  Moved(w)
  BY <1>1 DEF WorkerCount
<1>2. ASSUME NEW s \in Workers, WorkerCheckDuplicate(s)
      PROVE  Moved(w)
  BY <1>2 DEF WorkerCheckDuplicate, Finish
<1>3. ASSUME NEW s \in Workers, WorkerLock(s)
      PROVE  Moved(w)
  BY <1>3 DEF WorkerLock
<1>4. ASSUME NEW s \in Workers, WorkerReject(s)
      PROVE  Moved(w)
  BY <1>4 DEF WorkerReject, Finish
<1>5. ASSUME NEW s \in Workers, NEW t \in Trades, WorkerCommit(s, t)
      PROVE  Moved(w)
  BY <1>5 DEF WorkerCommit, OpenCommit, Finish
<1>6. ASSUME NEW s \in Manuals, NEW t \in Trades, ManualRead(s, t)
      PROVE  Moved(w)
  BY <1>6 DEF ManualRead
<1>7. ASSUME NEW s \in Manuals, NEW t \in Trades, ManualCommit(s, t)
      PROVE  Moved(w)
  BY <1>7 DEF ManualCommit, OpenCommit, Finish
<1>8. ASSUME NEW s \in Closers, NEW t \in Trades, NEW p \in Pnls, CloseRead(s, t, p)
      PROVE  Moved(w)
  BY <1>8 DEF CloseRead
<1>9. ASSUME NEW s \in Closers, NEW t \in Trades, CloseReadBalance(s, t)
      PROVE  Moved(w)
  BY <1>9 DEF CloseReadBalance
<1>10. ASSUME NEW s \in Closers, CloseCommit(s)
       PROVE  Moved(w)
  BY <1>10 DEF CloseCommit, CommitReturns, Finish
<1>11. ASSUME NEW s \in Resets, ResetDelete(s)
       PROVE  Moved(w)
  BY <1>11 DEF ResetDelete
<1>12. ASSUME NEW s \in Resets, ResetCommit(s)
       PROVE  Moved(w)
  BY <1>12 DEF ResetCommit, Finish
<1>13. ASSUME NEW s \in KillSwitches, KillSwitchRead(s)
       PROVE  Moved(w)
  BY <1>13 DEF KillSwitchRead
<1>14. ASSUME NEW s \in KillSwitches, KillSwitchCommit(s)
       PROVE  Moved(w)
  BY <1>14 DEF KillSwitchCommit, Finish
<1>15. ASSUME NEW s \in Monitors, MonitorRead(s)
       PROVE  Moved(w)
  BY <1>15 DEF MonitorRead
<1>16. ASSUME NEW s \in Monitors, MonitorReadBalance(s)
       PROVE  Moved(w)
  BY <1>16 DEF MonitorReadBalance
<1>17. ASSUME NEW s \in Monitors, NEW t \in Trades, NEW p \in Pnls, MonitorExit(s, t, p)
       PROVE  Moved(w)
  BY <1>17 DEF MonitorExit
<1>18. ASSUME NEW s \in Monitors, NEW t \in Trades, MonitorTrail(s, t)
       PROVE  Moved(w)
  BY <1>18 DEF MonitorTrail
<1>19. ASSUME NEW s \in Monitors, MonitorCommit(s)
       PROVE  Moved(w)
  BY <1>19 DEF MonitorCommit, CommitReturns, Finish
<1>20. ASSUME NEW s \in TradeMonitors, TradeMonitorRead(s)
       PROVE  Moved(w)
  BY <1>20 DEF TradeMonitorRead
<1>21. ASSUME NEW s \in TradeMonitors, NEW t \in Trades, NEW p \in Pnls, TradeMonitorExit(s, t, p)
       PROVE  Moved(w)
  BY <1>21 DEF TradeMonitorExit
<1>22. ASSUME NEW s \in TradeMonitors, NEW t \in Trades, NEW p \in Pnls, TradeMonitorSquareOff(s, t, p)
       PROVE  Moved(w)
  BY <1>22 DEF TradeMonitorSquareOff
<1>23. ASSUME NEW s \in TradeMonitors, NEW t \in Trades, TradeMonitorTrail(s, t)
       PROVE  Moved(w)
  BY <1>23 DEF TradeMonitorTrail
<1>24. ASSUME NEW s \in TradeMonitors, TradeMonitorCommit(s)
       PROVE  Moved(w)
  BY <1>24 DEF TradeMonitorCommit, Finish
<1>25. ASSUME NEW s \in Sessions, Abort(s)
       PROVE  Moved(w)
  BY <1>25 DEF Abort, Finish
<1>26. ASSUME NEW t \in Trades, SquareOffExpires(t)
       PROVE  Moved(w)
  BY <1>26 DEF SquareOffExpires
<1>27. CASE UNCHANGED vars
  BY <1>27
<1> QED
  BY <1>1, <1>2, <1>3, <1>4, <1>5, <1>6, <1>7, <1>8, <1>9, <1>10, <1>11, <1>12, <1>13,
     <1>14, <1>15, <1>16, <1>17, <1>18, <1>19, <1>20, <1>21, <1>22, <1>23, <1>24, <1>25, <1>26, <1>27
  DEF LedgerNext, WorkerNext, ManualNext, CloserNext, MonitorNext, TradeMonitorNext

(* Every other step of a one-worker deployment keeps LimitsInv.            *)
LEMMA LimitsStep == SingleWorker /\ LedgerInv /\ LimitsInv /\ [LedgerNext]_vars => LimitsInv'
<1> SUFFICES ASSUME SingleWorker, LedgerInv, LimitsInv, [LedgerNext]_vars
             PROVE  LimitsInv'
  OBVIOUS
<1>1. CASE \E s \in Workers, t \in Trades : WorkerCommit(s, t)
  BY <1>1, OneMoreOpen, LedgerAssumption
<1>2. CASE WithStatus("OPEN")' \subseteq WithStatus("OPEN")
  <2>1. /\ IsFiniteSet(WithStatus("OPEN")')
        /\ Cardinality(WithStatus("OPEN")') \in Nat
        /\ Cardinality(WithStatus("OPEN")) \in Nat
        /\ Cardinality(WithStatus("OPEN")') <= Cardinality(WithStatus("OPEN"))
    BY <1>2, FewerOpen, LedgerAssumption
  <2>2. OpenPositionsCap' /\ OnePositionPerInstrument'
    BY <1>2, <2>1, LedgerAssumption DEF LimitsInv, OpenPositionsCap, OnePositionPerInstrument
  <2>3. ASSUME NEW s \in Workers, pc'[s] \in {"counted", "checked", "locked"}
        PROVE  Cardinality(WithStatus("OPEN")) < MaxOpenPositions
    BY <2>3, WorkerMoves DEF LimitsInv, Moved
  <2>4. ASSUME NEW s \in Workers, pc'[s] \in {"checked", "locked"},
               NEW t \in rows'[s], NEW u \in WithStatus("OPEN")
        PROVE  Instrument[t] # Instrument[u]
    BY <2>4, WorkerMoves DEF LimitsInv, Moved
  <2> QED
    BY <1>2, <2>1, <2>2, <2>3, <2>4, LedgerAssumption DEF LimitsInv
<1> QED
  BY <1>1, <1>2, OnlyCommitsOpen DEF SingleWorker

(* With one autotrader worker and no manual opens, whatever closes         *)
(* positions meanwhile, max_open_positions and one position per symbol and *)
(* direction are respected.                                                *)
THEOREM SingleWorkerKeepsLimits ==
    SingleWorker => (LedgerSpec => [](OpenPositionsCap /\ OnePositionPerInstrument))
<1> SUFFICES ASSUME SingleWorker
             PROVE  LedgerSpec => [](OpenPositionsCap /\ OnePositionPerInstrument)
  OBVIOUS
<1>1. LedgerInit => LimitsInv
  <2> SUFFICES ASSUME LedgerInit PROVE LimitsInv
    OBVIOUS
  <2>1. WithStatus("OPEN") = {}
    BY DEF LedgerInit, Init, WithStatus
  <2> QED
    BY <2>1, FS_EmptySet, LedgerAssumption
    DEF LedgerInit, LimitsInv, OpenPositionsCap, OnePositionPerInstrument
<1>2. LedgerInv /\ LimitsInv /\ [LedgerNext]_vars => LimitsInv'
  BY LimitsStep
<1>3. LimitsInv => OpenPositionsCap /\ OnePositionPerInstrument
  BY DEF LimitsInv
<1> QED
  BY <1>1, <1>2, <1>3, LedgerInvariant, PTL DEF LedgerSpec

(* With one autotrader worker no two open positions share a symbol and a   *)
(* direction (_execute_paper_trade, "Check for duplicate open trades").    *)
THEOREM SingleWorkerNoDuplicates == SingleWorker => (LedgerSpec => []OnePositionPerInstrument)
  BY SingleWorkerKeepsLimits, PTL

-----------------------------------------------------------------------------
(* Sums.  MapThenSumSet is a recursive function on the subsets of its set, *)
(* whose value depends on no choice: what is proved of it here is proved   *)
(* by taking a smallest set for which it fails.                            *)

Chosen(s) == CHOOSE x \in s : TRUE

IsSum(g, f, S) ==
    g = [s \in SUBSET S |-> IF s = {} THEN 0 ELSE f[Chosen(s)] + g[s \ {Chosen(s)}]]

Sum(f, S) == (CHOOSE g : IsSum(g, f, S))[S]

LEMMA SumsOfTheModel ==
    /\ MarginHeld = Sum(Margin, WithStatus("OPEN"))
    /\ Realised = Sum(pnl, WithStatus("CLOSED"))
  BY DEF MarginHeld, Realised, MapThenSumSet, MapThenFoldSet, Sum, IsSum, Chosen

(* Of some sets, one has none of the others that lacks just one element.   *)
LEMMA SmallestSet ==
    ASSUME NEW S, IsFiniteSet(S), NEW B \in SUBSET SUBSET S, B # {}
    PROVE  \E T \in B : \A x \in T : T \ {x} \notin B
<1> DEFINE R == StrictSubsetOrdering(S)
<1>1. B \subseteq FiniteSubsetsOf(S)
  BY FS_Subset DEF FiniteSubsetsOf
<1>2. PICK T \in B : \A y \in B : <<y, T>> \notin R
  <2>1. IsWellFoundedOn(R, FiniteSubsetsOf(S))
    BY FS_StrictSubsetOrderingWellFounded
  <2> HIDE DEF R
  <2> QED
    BY <1>1, <2>1, WFMin
<1>3. ASSUME NEW x \in T, T \ {x} \in B PROVE FALSE
  <2>1. <<T \ {x}, T>> \notin R
    BY <1>2, <1>3
  <2>2. T \ {x} \in SUBSET S /\ T \in SUBSET S /\ T \ {x} # T /\ T \ {x} \subseteq T
    BY <1>3
  <2> QED
    BY <2>1, <2>2 DEF StrictSubsetOrdering
<1> QED
  BY <1>3

LEMMA ChosenIsIn == ASSUME NEW s, s # {} PROVE Chosen(s) \in s
  BY DEF Chosen

(* Two sums agree on the sets that they both know.                         *)
LEMMA SumsAgree ==
    ASSUME NEW S, IsFiniteSet(S), NEW T, S \subseteq T, NEW f,
           NEW g, IsSum(g, f, S), NEW h, IsSum(h, f, T)
    PROVE  \A s \in SUBSET S : g[s] = h[s]
<1> DEFINE B == {s \in SUBSET S : g[s] # h[s]}
<1> SUFFICES ASSUME B # {} PROVE FALSE
  OBVIOUS
<1>1. PICK s \in B : \A x \in s : s \ {x} \notin B
  <2>1. B \in SUBSET SUBSET S
    OBVIOUS
  <2> HIDE DEF B
  <2> QED
    BY <2>1, SmallestSet
<1>2. s \in SUBSET S /\ s \in SUBSET T /\ g[s] # h[s]
  BY <1>1
<1>3. /\ g[s] = IF s = {} THEN 0 ELSE f[Chosen(s)] + g[s \ {Chosen(s)}]
      /\ h[s] = IF s = {} THEN 0 ELSE f[Chosen(s)] + h[s \ {Chosen(s)}]
  BY <1>2 DEF IsSum
<1>4. CASE s = {}
  BY <1>2, <1>3, <1>4
<1>5. CASE s # {}
  <2>1. s \ {Chosen(s)} \in SUBSET S /\ s \ {Chosen(s)} \notin B
    BY <1>1, <1>2, <1>5, ChosenIsIn
  <2>2. g[s \ {Chosen(s)}] = h[s \ {Chosen(s)}]
    BY <2>1
  <2> QED
    BY <1>2, <1>3, <1>5, <2>2
<1> QED
  BY <1>4, <1>5

(* A sum can be computed over every finite set.                            *)
LEMMA SumExists ==
    ASSUME NEW S, IsFiniteSet(S), NEW f
    PROVE  IsSum(CHOOSE g : IsSum(g, f, S), f, S)
<1> DEFINE B == {s \in SUBSET S : ~\E g : IsSum(g, f, s)}
<1> SUFFICES ASSUME B # {} PROVE FALSE
  OBVIOUS
<1>1. PICK s \in B : \A x \in s : s \ {x} \notin B
  <2>1. B \in SUBSET SUBSET S
    OBVIOUS
  <2> HIDE DEF B
  <2> QED
    BY <2>1, SmallestSet
<1>2. s \in SUBSET S /\ IsFiniteSet(s)
  BY <1>1, FS_Subset
<1> DEFINE G(x) == CHOOSE g : IsSum(g, f, s \ {x})
           F(u, g) == IF u = {} THEN 0 ELSE f[Chosen(u)] + g[u \ {Chosen(u)}]
<1>3. \A x \in s : IsSum(G(x), f, s \ {x}) /\ IsFiniteSet(s \ {x})
  BY <1>1, <1>2, FS_Subset
<1>4. \A x, y \in s : \A u \in SUBSET (s \ {x, y}) : G(x)[u] = G(y)[u]
  <2> SUFFICES ASSUME NEW x \in s, NEW y \in s, NEW u \in SUBSET (s \ {x, y})
               PROVE  G(x)[u] = G(y)[u]
    OBVIOUS
  <2> DEFINE r == s \ {x, y}
             k == [v \in SUBSET r |-> G(x)[v]]
  <2>0. IsSum(G(x), f, s \ {x}) /\ IsSum(G(y), f, s \ {y}) /\ IsFiniteSet(r)
    BY <1>2, <1>3, FS_Subset
  <2> HIDE DEF G
  <2>1. IsSum(k, f, r)
    <3>1. \A v \in SUBSET r : G(x)[v] = F(v, G(x))
      BY <2>0 DEF IsSum
    <3>2. \A v \in SUBSET r : v # {} => v \ {Chosen(v)} \in SUBSET r
      OBVIOUS
    <3>3. \A v \in SUBSET r : F(v, G(x)) = F(v, k)
      BY <3>2
    <3>4. k = [v \in SUBSET r |-> F(v, k)]
      BY <3>1, <3>3
    <3> QED
      BY <3>4 DEF IsSum
  <2> HIDE DEF k
  <2>2. k[u] = G(x)[u] /\ k[u] = G(y)[u]
    <3>1. r \subseteq s \ {x} /\ r \subseteq s \ {y} /\ u \in SUBSET r
      OBVIOUS
    <3> HIDE DEF r
    <3> QED
      BY <2>0, <2>1, <3>1, SumsAgree
  <2> QED
    BY <2>2
<1> DEFINE At(u) == G(CHOOSE x \in s : x \notin u)[u]
           h == [u \in SUBSET s |-> IF u = s THEN (IF s = {} THEN 0 ELSE f[Chosen(s)] + At(s \ {Chosen(s)}))
                                    ELSE At(u)]
<1>5. IsSum(h, f, s)
  <2>1. \A u \in SUBSET s : \A x \in s \ u : At(u) = G(x)[u]
    <3> SUFFICES ASSUME NEW u \in SUBSET s, NEW x \in s \ u PROVE At(u) = G(x)[u]
      OBVIOUS
    <3> DEFINE y == CHOOSE z \in s : z \notin u
    <3>1. y \in s /\ y \notin u
      OBVIOUS
    <3> HIDE DEF y
    <3>2. u \in SUBSET (s \ {y, x})
      BY <3>1
    <3>3. G(y)[u] = G(x)[u]
      BY <1>4, <3>1, <3>2
    <3> QED
      BY <3>3 DEF y
  <2>2. \A u \in SUBSET s : u # s => h[u] = F(u, h)
    <3> SUFFICES ASSUME NEW u \in SUBSET s, NEW x \in s \ u PROVE h[u] = F(u, h)
      OBVIOUS
    <3>1. h[u] = G(x)[u]
      BY <2>1
    <3>2. G(x)[u] = F(u, G(x))
      <4>1. IsSum(G(x), f, s \ {x}) /\ u \in SUBSET (s \ {x})
        BY <1>3
      <4> HIDE DEF G, h, At
      <4> QED
        BY <4>1 DEF IsSum
    <3>3. u # {} => h[u \ {Chosen(u)}] = G(x)[u \ {Chosen(u)}]
      <4> SUFFICES ASSUME u # {} PROVE h[u \ {Chosen(u)}] = G(x)[u \ {Chosen(u)}]
        OBVIOUS
      <4> DEFINE v == u \ {Chosen(u)}
      <4>1. v \in SUBSET s /\ x \in s \ v
        OBVIOUS
      <4> HIDE DEF v
      <4>2. h[v] = At(v) /\ At(v) = G(x)[v]
        BY <2>1, <4>1
      <4> QED
        BY <4>2 DEF v
    <3> HIDE DEF h, G
    <3> QED
      BY <3>1, <3>2, <3>3
  <2>3. h[s] = F(s, h)
    <3>1. CASE s = {}
      BY <3>1
    <3>2. CASE s # {}
      <4>1. s \ {Chosen(s)} \in SUBSET s /\ s \ {Chosen(s)} # s
        BY <3>2, ChosenIsIn
      <4>2. h[s \ {Chosen(s)}] = At(s \ {Chosen(s)})
        BY <4>1
      <4>3. h[s] = f[Chosen(s)] + At(s \ {Chosen(s)})
        BY <3>2
      <4> HIDE DEF h, At
      <4> QED
        BY <3>2, <4>2, <4>3
    <3> QED
      BY <3>1, <3>2
  <2>4. h = [u \in SUBSET s |-> h[u]]
    OBVIOUS
  <2> HIDE DEF h
  <2>5. h = [u \in SUBSET s |-> F(u, h)]
    <3>1. \A u \in SUBSET s : h[u] = F(u, h)
      BY <2>2, <2>3
    <3> HIDE DEF F
    <3> QED
      BY <2>4, <3>1
  <2> QED
    BY <2>5 DEF IsSum
<1> HIDE DEF h
<1> QED
  BY <1>1, <1>5

(* What a sum is, whichever element comes first.                           *)
LEMMA SumStep ==
    ASSUME NEW S, IsFiniteSet(S), NEW f
    PROVE  /\ Sum(f, {}) = 0
           /\ S # {} => Sum(f, S) = f[Chosen(S)] + Sum(f, S \ {Chosen(S)})
<1> DEFINE G(s) == CHOOSE g : IsSum(g, f, s)
<1>1. IsSum(G({}), f, {}) /\ IsSum(G(S), f, S)
  BY SumExists, FS_EmptySet
<1>2. Sum(f, {}) = 0
  <2>1. G({})[{}] = 0
    <3> HIDE DEF G
    <3> QED
      BY <1>1 DEF IsSum
  <2> QED
    BY <2>1 DEF Sum
<1>3. ASSUME S # {} PROVE Sum(f, S) = f[Chosen(S)] + Sum(f, S \ {Chosen(S)})
  <2> DEFINE r == S \ {Chosen(S)}
  <2>1. IsFiniteSet(r) /\ r \subseteq S
    BY FS_Subset
  <2>2. IsSum(G(r), f, r)
    BY <2>1, SumExists
  <2> HIDE DEF G
  <2>3. G(S)[S] = f[Chosen(S)] + G(S)[r]
    BY <1>1, <1>3 DEF IsSum
  <2> HIDE DEF r
  <2>4. G(r)[r] = G(S)[r]
    BY <1>1, <2>1, <2>2, SumsAgree
  <2> QED
    BY <2>3, <2>4 DEF Sum, G, r
<1> QED
  BY <1>2, <1>3

LEMMA SumIsInt ==
    ASSUME NEW S, IsFiniteSet(S), NEW f, \A x \in S : f[x] \in Int
    PROVE  Sum(f, S) \in Int
<1> DEFINE B == {s \in SUBSET S : Sum(f, s) \notin Int}
<1> SUFFICES ASSUME B # {} PROVE FALSE
  OBVIOUS
<1>1. PICK s \in B : \A x \in s : s \ {x} \notin B
  <2>1. B \in SUBSET SUBSET S
    OBVIOUS
  <2> HIDE DEF B
  <2> QED
    BY <2>1, SmallestSet
<1>2. s \in SUBSET S /\ IsFiniteSet(s) /\ Sum(f, s) \notin Int
  BY <1>1, FS_Subset
<1>3. s # {}
  <2>1. Sum(f, {}) = 0
    BY SumStep, FS_EmptySet
  <2> QED
    BY <1>2, <2>1
<1>4. Chosen(s) \in s /\ Sum(f, s \ {Chosen(s)}) \in Int
  BY <1>1, <1>2, <1>3, ChosenIsIn
<1>5. Sum(f, s) = f[Chosen(s)] + Sum(f, s \ {Chosen(s)})
  BY <1>2, <1>3, SumStep
<1>6. f[Chosen(s)] \in Int
  BY <1>2, <1>4
<1> QED
  BY <1>2, <1>4, <1>5, <1>6

LEMMA SumWithout ==
    ASSUME NEW S, IsFiniteSet(S), NEW f, \A x \in S : f[x] \in Int, NEW t \in S
    PROVE  Sum(f, S) = f[t] + Sum(f, S \ {t})
<1> DEFINE B == {s \in SUBSET S : \E x \in s : Sum(f, s) # f[x] + Sum(f, s \ {x})}
<1> SUFFICES ASSUME B # {} PROVE FALSE
  OBVIOUS
<1>1. PICK s \in B : \A x \in s : s \ {x} \notin B
  <2>1. B \in SUBSET SUBSET S
    OBVIOUS
  <2> HIDE DEF B
  <2> QED
    BY <2>1, SmallestSet
<1>2. PICK x \in s : Sum(f, s) # f[x] + Sum(f, s \ {x})
  BY <1>1
<1> DEFINE c == Chosen(s)
           r == s \ {c}
           q == s \ {x}
           b == s \ {c, x}
<1>3. s \in SUBSET S /\ IsFiniteSet(s) /\ s # {} /\ c \in s
  BY <1>1, <1>2, FS_Subset, ChosenIsIn
<1>4. Sum(f, s) = f[c] + Sum(f, r)
  BY <1>3, SumStep
<1>5. c # x
  BY <1>2, <1>4
<1>6. /\ r \in SUBSET S /\ r \notin B /\ x \in r /\ r \ {x} = b
      /\ q \in SUBSET S /\ q \notin B /\ c \in q /\ q \ {c} = b
      /\ b \in SUBSET S
  BY <1>1, <1>2, <1>3, <1>5
<1>7. Sum(f, b) \in Int
  BY <1>6, SumIsInt, FS_Subset
<1>8. f[c] \in Int /\ f[x] \in Int
  BY <1>3
<1> HIDE DEF c, r, q, b
<1>9. Sum(f, r) = f[x] + Sum(f, b)
  BY <1>6
<1>10. Sum(f, q) = f[c] + Sum(f, b)
  BY <1>6
<1>11. Sum(f, s) # f[x] + Sum(f, q)
  BY <1>2 DEF q
<1> QED
  BY <1>4, <1>7, <1>8, <1>9, <1>10, <1>11

(* Two functions that agree on a set have the same sum over it.            *)
LEMMA SumOfEqual ==
    ASSUME NEW S, IsFiniteSet(S), NEW f, NEW g, \A x \in S : f[x] = g[x]
    PROVE  Sum(f, S) = Sum(g, S)
<1> DEFINE B == {s \in SUBSET S : Sum(f, s) # Sum(g, s)}
<1> SUFFICES ASSUME B # {} PROVE FALSE
  OBVIOUS
<1>1. PICK s \in B : \A x \in s : s \ {x} \notin B
  <2>1. B \in SUBSET SUBSET S
    OBVIOUS
  <2> HIDE DEF B
  <2> QED
    BY <2>1, SmallestSet
<1>2. s \in SUBSET S /\ IsFiniteSet(s) /\ Sum(f, s) # Sum(g, s)
  BY <1>1, FS_Subset
<1>3. s # {}
  BY <1>2, SumStep, FS_EmptySet
<1>4. Chosen(s) \in s /\ Sum(f, s \ {Chosen(s)}) = Sum(g, s \ {Chosen(s)})
  BY <1>1, <1>2, <1>3, ChosenIsIn
<1>5. /\ Sum(f, s) = f[Chosen(s)] + Sum(f, s \ {Chosen(s)})
      /\ Sum(g, s) = g[Chosen(s)] + Sum(g, s \ {Chosen(s)})
  BY <1>2, <1>3, SumStep
<1> QED
  BY <1>2, <1>4, <1>5

-----------------------------------------------------------------------------
(* Conservation.                                                           *)

AccountInv ==
    /\ TypeOK
    /\ IsFiniteSet(WithStatus("OPEN")) /\ IsFiniteSet(WithStatus("CLOSED"))
    /\ Conservation

(* The sums before and after a step.                                       *)
LEMMA SumsAfter ==
    ASSUME TypeOK, TypeOK', AccountAssumption
    PROVE  /\ MarginHeld = Sum(Margin, WithStatus("OPEN"))
           /\ Realised = Sum(pnl, WithStatus("CLOSED"))
           /\ MarginHeld' = Sum(Margin, WithStatus("OPEN")')
           /\ Realised' = Sum(pnl', WithStatus("CLOSED")')
           /\ \A t \in Trades : Margin[t] \in Int /\ pnl[t] \in Int /\ pnl'[t] \in Int
           /\ balance \in Int /\ Capital \in Int
<1>1. \A t \in Trades : Margin[t] \in Int /\ pnl[t] \in Int /\ pnl'[t] \in Int
  BY AccountAssumption DEF TypeOK
<1>2. MarginHeld = Sum(Margin, WithStatus("OPEN")) /\ Realised = Sum(pnl, WithStatus("CLOSED"))
  BY SumsOfTheModel
<1>3. MarginHeld' = Sum(Margin, WithStatus("OPEN")') /\ Realised' = Sum(pnl', WithStatus("CLOSED")')
  BY DEF MarginHeld, Realised, MapThenSumSet, MapThenFoldSet, Sum, IsSum, Chosen
<1> QED
  BY <1>1, <1>2, <1>3, AccountAssumption DEF TypeOK

LEMMA AccountStep == AccountInv /\ [Next]_account => AccountInv'
<1> SUFFICES ASSUME AccountInv, [Next]_account PROVE AccountInv'
  OBVIOUS
<1> DEFINE open == WithStatus("OPEN")
           closed == WithStatus("CLOSED")
<1>1. TypeOK'
  BY AccountAssumption DEF AccountInv, TypeOK, Next, Open, Close, Reset
<1>2. /\ IsFiniteSet(open) /\ IsFiniteSet(closed) /\ open \in SUBSET Trades
      /\ closed \in SUBSET Trades
      /\ balance + Sum(Margin, open) = Capital + Sum(pnl, closed)
  BY <1>1, SumsAfter, AccountAssumption DEF AccountInv, Conservation, WithStatus
<1>3. /\ \A t \in Trades : Margin[t] \in Int /\ pnl[t] \in Int /\ pnl'[t] \in Int
      /\ balance \in Int /\ Capital \in Int
  BY <1>1, SumsAfter, AccountAssumption DEF AccountInv
<1> DEFINE Kept == /\ IsFiniteSet(open') /\ IsFiniteSet(closed')
                   /\ balance' + Sum(Margin, open') = Capital + Sum(pnl', closed')
<1>4. ASSUME NEW t \in Trades, Open(t) PROVE Kept
  <2>1. /\ balance' = balance - Margin[t] /\ pnl' = pnl
        /\ open' = open \cup {t} /\ closed' = closed /\ t \notin open
    BY <1>4 DEF Open, WithStatus, AccountInv, TypeOK
  <2>2. IsFiniteSet(open')
    BY <1>2, <2>1, FS_AddElement
  <2>3. Sum(Margin, open') = Margin[t] + Sum(Margin, open)
    <3> PICK o : o = open
      OBVIOUS
    <3> PICK n : n = o \cup {t}
      OBVIOUS
    <3>1. IsFiniteSet(n) /\ t \in n /\ n \ {t} = o /\ \A x \in n : Margin[x] \in Int
      BY <1>2, <1>3, <2>1, <2>2
    <3>2. Sum(Margin, n) = Margin[t] + Sum(Margin, n \ {t})
      BY <3>1, SumWithout
    <3> QED
      BY <2>1, <3>1, <3>2
  <2>4. Sum(Margin, open) \in Int /\ Sum(pnl, closed) \in Int
    BY <1>2, <1>3, SumIsInt
  <2> HIDE DEF open, closed
  <2> QED
    BY <1>2, <1>3, <2>1, <2>2, <2>3, <2>4
<1>5. ASSUME NEW t \in Trades, NEW p \in Pnls, Close(t, p) PROVE Kept
  <2>1. /\ balance' = balance + Margin[t] + p /\ pnl' = [pnl EXCEPT ![t] = p]
        /\ open' = open \ {t} /\ t \in open
        /\ closed' = closed \cup {t} /\ t \notin closed
    BY <1>5 DEF Close, WithStatus, AccountInv, TypeOK
  <2>2. IsFiniteSet(open') /\ IsFiniteSet(closed')
    BY <1>2, <2>1, FS_AddElement, FS_Subset
  <2>3. Sum(Margin, open) = Margin[t] + Sum(Margin, open')
    <3> PICK o : o = open
      OBVIOUS
    <3>1. IsFiniteSet(o) /\ t \in o /\ \A x \in o : Margin[x] \in Int
      BY <1>2, <1>3, <2>1
    <3>2. Sum(Margin, o) = Margin[t] + Sum(Margin, o \ {t})
      BY <3>1, SumWithout
    <3> QED
      BY <2>1, <3>2
  <2>4. Sum(pnl', closed') = p + Sum(pnl, closed)
    <3> PICK c : c = closed
      OBVIOUS
    <3> PICK n : n = c \cup {t}
      OBVIOUS
    <3> PICK f : f = pnl
      OBVIOUS
    <3> PICK g : g = [f EXCEPT ![t] = p]
      OBVIOUS
    <3>1. /\ IsFiniteSet(n) /\ IsFiniteSet(c) /\ t \in n /\ n \ {t} = c /\ t \notin c
          /\ g = pnl' /\ n = closed'
      BY <1>2, <2>1, <2>2
    <3>2. (\A x \in n : g[x] \in Int) /\ (\A x \in c : f[x] = g[x]) /\ g[t] = p
      BY <1>2, <1>3, <2>1, <3>1 DEF AccountInv, TypeOK
    <3>3. Sum(g, n) = g[t] + Sum(g, n \ {t})
      BY <3>1, <3>2, SumWithout
    <3>4. Sum(f, c) = Sum(g, c)
      BY <3>1, <3>2, SumOfEqual
    <3> QED
      BY <3>1, <3>2, <3>3, <3>4
  <2>5. Sum(Margin, open') \in Int /\ Sum(pnl, closed) \in Int
    <3> PICK o : o = open'
      OBVIOUS
    <3>1. IsFiniteSet(o) /\ \A x \in o : Margin[x] \in Int
      BY <1>2, <1>3, <2>1, <2>2
    <3>2. Sum(Margin, o) \in Int
      BY <3>1, SumIsInt
    <3>3. Sum(pnl, closed) \in Int
      BY <1>2, <1>3, SumIsInt
    <3> QED
      BY <3>2, <3>3
  <2>6. p \in Int
    BY AccountAssumption
  <2> HIDE DEF open, closed
  <2> QED
    BY <1>2, <1>3, <2>1, <2>2, <2>3, <2>4, <2>5, <2>6
<1>6. ASSUME Reset PROVE Kept
  <2>1. balance' = Capital /\ open' = {} /\ closed' = {}
    BY <1>6 DEF Reset, WithStatus
  <2>2. IsFiniteSet({})
    BY FS_EmptySet
  <2>3. Sum(Margin, open') = 0 /\ Sum(pnl', closed') = 0
    <3> PICK g : g = pnl'
      OBVIOUS
    <3>1. Sum(Margin, {}) = 0 /\ Sum(g, {}) = 0
      BY <2>2, SumStep
    <3> QED
      BY <2>1, <3>1
  <2> HIDE DEF open, closed
  <2>4. IsFiniteSet(open') /\ IsFiniteSet(closed')
    BY <2>1, <2>2
  <2>5. balance' + Sum(Margin, open') = Capital + Sum(pnl', closed')
    BY <1>3, <2>1, <2>3
  <2> QED
    BY <2>4, <2>5
<1>7. ASSUME UNCHANGED account PROVE Kept
  <2>1. open' = open /\ closed' = closed /\ pnl' = pnl /\ balance' = balance
    BY <1>7 DEF WithStatus
  <2>2. Sum(Margin, open') = Sum(Margin, open) /\ Sum(pnl', closed') = Sum(pnl, closed)
    BY <2>1, Zenon
  <2> HIDE DEF open, closed
  <2>3. IsFiniteSet(open') /\ IsFiniteSet(closed')
    BY <1>2, <2>1
  <2>4. balance' + Sum(Margin, open') = Capital + Sum(pnl', closed')
    BY <1>2, <1>3, <2>1, <2>2
  <2> QED
    BY <2>3, <2>4
<1>8. Kept
  <2> HIDE DEF Kept
  <2> QED
    BY <1>4, <1>5, <1>6, <1>7 DEF Next
<1>9. MarginHeld' = Sum(Margin, open') /\ Realised' = Sum(pnl', closed')
  BY <1>1, SumsAfter, AccountAssumption DEF AccountInv
<1> HIDE DEF open, closed
<1>10. Conservation'
  BY <1>8, <1>9 DEF Conservation
<1> QED
  BY <1>1, <1>8, <1>10 DEF AccountInv, open, closed

(* The abstract account creates and destroys no money, whatever opens,     *)
(* closes and resets it sees, for any rows, margins and profits.           *)
THEOREM AccountConserves == Spec => []Conservation
<1>1. Init => AccountInv
  <2> SUFFICES ASSUME Init PROVE AccountInv
    OBVIOUS
  <2>1. TypeOK
    BY AccountAssumption DEF Init, TypeOK
  <2>2. WithStatus("OPEN") = {} /\ WithStatus("CLOSED") = {} /\ IsFiniteSet({})
    BY FS_EmptySet DEF Init, WithStatus
  <2>3. Sum(Margin, {}) = 0
    BY <2>2, SumStep
  <2>4. Sum(pnl, {}) = 0
    BY <2>2, SumStep
  <2>5. MarginHeld = 0 /\ Realised = 0
    BY <2>2, <2>3, <2>4, SumsOfTheModel
  <2>6. Conservation
    BY <2>5 DEF Init, Conservation
  <2> QED
    BY <2>1, <2>2, <2>6 DEF AccountInv
<1>2. AccountInv => Conservation
  BY DEF AccountInv
<1> QED
  BY <1>1, <1>2, AccountStep, PTL DEF Spec

(* So do any number of autotrader workers on the rows of the database: no  *)
(* debit is lost between their sessions (_execute_paper_trade, FOR UPDATE).*)
THEOREM WorkersConserve == WorkersOnly => (LedgerSpec => []Conservation)
  BY AccountConserves, WorkersImplementAccount, PTL DEF ImplementsAccount
=============================================================================
