-------------------------- MODULE LiveOrdersProofs --------------------------
(***************************************************************************)
(* Proofs about LiveOrders for every number of monitors, market orders and *)
(* shares.  LiveInv says what every session rests on: the status a session *)
(* is about to write was earned when it asked the broker, and what was     *)
(* earned stays earned (WritesEarned), so the row may be written late.     *)
(* LocksCounted adds up, per lock, the sessions that believe to hold it,   *)
(* the confirmed orders and the free key: only a TTL adds one.  QtysBought *)
(* follows the quantity from the broker through the row and the sessions   *)
(* into the closing orders.                                                *)
(***************************************************************************)
EXTENDS LiveOrders, TLAPS, FiniteSetTheorems

LEMMA Names ==
  /\ Entry # SlLeg /\ Entry # TpLeg /\ SlLeg # TpLeg
  /\ NoId # Entry /\ NoId # SlLeg /\ NoId # TpLeg
  /\ Entry \notin Markets /\ SlLeg \notin Markets /\ TpLeg \notin Markets /\ NoId \notin Markets
  /\ "reconciler" \notin Monitors /\ "timeouts" \notin Monitors
  /\ Qty \in Nat /\ Qty >= 1 /\ MaxExpiries \in Nat /\ MaxCrashes \in Nat
<1> DEFINE S == {Entry, SlLeg, TpLeg, NoId}
<1>1. \A a, b, c : IsFiniteSet({a, b, c}) /\ Cardinality({a, b, c}) <= 3
  <2> SUFFICES ASSUME NEW a, NEW b, NEW c
               PROVE IsFiniteSet({a, b, c}) /\ Cardinality({a, b, c}) <= 3
    OBVIOUS
  <2>1. IsFiniteSet({}) /\ Cardinality({}) = 0
    BY FS_EmptySet, Zenon
  <2>2. IsFiniteSet({} \cup {a}) /\ Cardinality({} \cup {a}) \in Nat /\ Cardinality({} \cup {a}) <= 1
    <3>1. IsFiniteSet({} \cup {a}) /\ Cardinality({} \cup {a}) = (IF a \in {} THEN 0 ELSE 0 + 1)
      BY <2>1, FS_AddElement, Zenon
    <3> QED BY <3>1
  <2>3. IsFiniteSet({} \cup {a} \cup {b}) /\ Cardinality({} \cup {a} \cup {b}) \in Nat /\ Cardinality({} \cup {a} \cup {b}) <= 2
    <3> DEFINE T == {} \cup {a}
    <3>1. IsFiniteSet(T \cup {b}) /\ Cardinality(T \cup {b}) = (IF b \in T THEN Cardinality(T) ELSE Cardinality(T) + 1)
      BY <2>2, FS_AddElement, Zenon
    <3> QED BY <3>1, <2>2
  <2>4. IsFiniteSet({} \cup {a} \cup {b} \cup {c}) /\ Cardinality({} \cup {a} \cup {b} \cup {c}) <= 3
    <3> DEFINE T == {} \cup {a} \cup {b}
    <3>1. IsFiniteSet(T \cup {c}) /\ Cardinality(T \cup {c}) = (IF c \in T THEN Cardinality(T) ELSE Cardinality(T) + 1)
      BY <2>3, FS_AddElement, Zenon
    <3> QED BY <3>1, <2>3
  <2>5. {} \cup {a} \cup {b} \cup {c} = {a, b, c}
    OBVIOUS
  <2> QED
    BY <2>4, <2>5
<1>2. Entry # SlLeg /\ Entry # TpLeg /\ SlLeg # TpLeg /\ NoId # Entry /\ NoId # SlLeg /\ NoId # TpLeg
  <2>1. ASSUME \E a, b, c : S = {a, b, c}
        PROVE FALSE
    <3>1. PICK a, b, c : S = {a, b, c}
      BY <2>1
    <3>2. Cardinality(S) <= 3
      BY <1>1, <3>1, Zenon
    <3> QED
      BY <3>2, OrdersAssumption
  <2>2. Entry = SlLeg => S = {Entry, TpLeg, NoId}
    OBVIOUS
  <2>3. Entry = TpLeg => S = {Entry, SlLeg, NoId}
    OBVIOUS
  <2>4. SlLeg = TpLeg => S = {Entry, SlLeg, NoId}
    OBVIOUS
  <2>5. NoId = Entry => S = {Entry, SlLeg, TpLeg}
    OBVIOUS
  <2>6. NoId = SlLeg => S = {Entry, SlLeg, TpLeg}
    OBVIOUS
  <2>7. NoId = TpLeg => S = {Entry, SlLeg, TpLeg}
    OBVIOUS
  <2> QED
    BY <2>1, <2>2, <2>3, <2>4, <2>5, <2>6, <2>7, Zenon
<1>3. "reconciler" \notin Monitors /\ "timeouts" \notin Monitors
  BY OrdersAssumption DEF Jobs
<1> QED
  BY <1>2, <1>3, OrdersAssumption

LEMMA RowsMerge ==
  ASSUME NEW db \in Rows, NEW old \in Rows, NEW new \in Rows
  PROVE  /\ Merge(db, old, new) \in Rows
         /\ Merge(db, old, new).status \in {db.status, new.status}
         /\ new.status = old.status => Merge(db, old, new).status = db.status
<1> DEFINE C(c) == IF new[c] # old[c] THEN new[c] ELSE db[c]
<1>1. DOMAIN db = {"status", "qty", "entry", "sl", "tgt"}
  BY DEF Rows
<1>2. Merge(db, old, new) = [status |-> C("status"), qty |-> C("qty"), entry |-> C("entry"),
                             sl |-> C("sl"), tgt |-> C("tgt")]
  BY <1>1 DEF Merge
<1> QED
  BY <1>2 DEF Rows

LEMMA StartRowsType ==
  /\ StartRows \subseteq Rows /\ Blank \in Rows
  /\ \A r \in StartRows : r.status \in {"PENDING", "OPEN"}
  BY Names DEF StartRows, Blank, PendingRow, OpenRow, Rows, Statuses

LEMMA InitType == Init => TypeOK
<1> SUFFICES ASSUME Init PROVE TypeOK
  OBVIOUS
<1>1. row \in StartRows /\ up \subseteq {Api} \cup Monitors
  BY OrdersAssumption DEF Init
<1>2. row \in Rows /\ Blank \in Rows
  BY <1>1, StartRowsType
<1>3. state \in [Orders -> States]
  BY DEF Init, States
<1>4. size \in [Orders -> 1..Qty] /\ filled \in [Orders -> 0..Qty]
  BY Names DEF Init
<1>5. why \in [Markets -> Reasons \cup {"naked", "unsent"}] /\ lost \subseteq Markets
  BY DEF Init
<1>6. lock \in [Reasons -> BOOLEAN] /\ expired \in [Reasons -> 0..MaxExpiries] /\ crashes \in 0..MaxCrashes
  BY Names DEF Init
<1>7. at \in [Sessions -> {"idle", "asking", "cancelling", "checking", "sending", "commit"}]
      /\ seen \in [Sessions -> Rows] /\ now \in [Sessions -> Rows]
      /\ todo \in [Sessions -> SUBSET (Orders \cup Reasons)]
  BY <1>2 DEF Init
<1> QED
  BY <1>1, <1>2, <1>3, <1>4, <1>5, <1>6, <1>7 DEF Init, TypeOK

(* One case per action of Next: the shape every step proof below has.      *)
LEMMA NextCases ==
  ASSUME NEW P,
         \A o \in Orders : Fill(o) \/ Die(o) => P,
         \A u \in Updates : Webhook(u) => P,
         Reconcile => P, AskBroker => P,
         FindStale => P, CancelStale => P, CancelFails => P,
         \A s \in Sessions : Commit(s) \/ Crash(s) => P,
         \A m \in Monitors : StartPass(m) \/ Skip(m) \/ NakedStop(m) \/ CloseRefused(m) => P,
         \A m \in Monitors, r \in Reasons : TakeLock(m, r) => P,
         \A m \in Monitors, k \in Markets : CloseSent(m, k) \/ CloseLost(m, k) => P,
         \A r \in Reasons : Expire(r) => P,
         Halt \/ SquareOffTime => P,
         UNCHANGED vars => P,
         [Next]_vars
  PROVE  P
  BY Zenon DEF Next, Exchange, Reconciliation, TimeOuts, Pass, Faults, Sessions, Jobs

LEMMA WebhookRow ==
  ASSUME TypeOK, OrdersKnown, WritesEarned, NEW u \in Updates, Webhook(u)
  PROVE  /\ row' \in Rows
         /\ row'.status = "PENDING" => row.status = "PENDING"
         /\ row'.status # row.status => Earned(row'.status)
<1> USE Names DEF Rows
<1>0. \/ \E o \in Orders : \E n \in (1..filled[o]) \ {size[o]} : u = Update(o, "open", n)
      \/ \E o \in Orders : state[o] = "complete" /\ u = Update(o, "complete", filled[o])
      \/ \E o \in Orders : state[o] = "dead" /\ u = Update(o, "cancelled", filled[o])
  BY DEF Updates
<1>1. /\ u.id \in Orders /\ u.filled \in 0..Qty
      /\ u.status = "open" => u.filled >= 1 /\ state[u.id] # "unsent" /\ filled[u.id] >= 1
      /\ u.status = "complete" => u.filled >= 1 /\ state[u.id] = "complete" /\ filled[u.id] >= 1
      /\ u.status = "cancelled" => state[u.id] = "dead" /\ u.filled = filled[u.id]
      /\ u.status \in {"open", "complete", "cancelled"}
  BY <1>0 DEF Update, TypeOK, OrdersKnown
<1>2. /\ row \in Rows
      /\ row.sl # NoId => row.sl \in Exits
      /\ row.tgt # NoId => row.tgt \in Exits
  BY DEF TypeOK, Exits, Legs
<1>3. u.id # NoId
  BY <1>1 DEF Orders, Exits, Legs
<1>4. ASSUME u.filled >= 1, OpenWith(u.filled)
      PROVE  row' \in Rows /\ row'.status = "OPEN"
  <2>1. Unprotected(row) \in Rows
    BY <1>2 DEF Unprotected
  <2>2. row' = [Unprotected(row) EXCEPT !.status = "OPEN", !.qty = u.filled]
    BY <1>4 DEF OpenWith
  <2>3. u.filled \in 1..Qty
    BY <1>1, <1>4
  <2> QED
    BY <2>1, <2>2, <2>3 DEF Statuses
<1>5. CASE u.status = "complete" /\ IsLeg(u)
  <2>1. row' = [row EXCEPT !.status = "CLOSED"]
    BY <1>5 DEF Webhook, LegComplete, EntryComplete, PartialFill, LegCancelled, EntryCancelled
  <2>2. ExitDone
    BY <1>1, <1>2, <1>3, <1>5 DEF IsLeg, ExitDone
  <2> QED
    BY <2>1, <2>2, <1>2 DEF Earned, Statuses
<1>6. CASE u.status = "complete" /\ ~IsLeg(u)
  <2>1. u.id = Entry /\ filled[Entry] > 0
    BY <1>1, <1>2, <1>3, <1>6 DEF Webhook, Matches, IsLeg, TypeOK
  <2>2. UNCHANGED row \/ OpenWith(u.filled)
    BY <1>6 DEF Webhook, LegComplete, EntryComplete, PartialFill, LegCancelled, EntryCancelled
  <2> QED
    BY <2>1, <2>2, <1>1, <1>2, <1>4, <1>6 DEF Earned
<1>7. CASE u.status = "open"
  <2>1. OpenWith(u.filled)
    BY <1>7 DEF Webhook, LegComplete, EntryComplete, PartialFill, LegCancelled, EntryCancelled
  <2>2. filled[Entry] > 0
    BY <1>1, <1>7 DEF OrdersKnown, Orders, TypeOK
  <2> QED
    BY <2>1, <2>2, <1>1, <1>4, <1>7 DEF Earned
<1>8. CASE u.status = "cancelled" /\ IsLeg(u)
  <2>1. row' = [row EXCEPT !.sl = IF @ = u.id THEN NoId ELSE @,
                           !.tgt = IF @ = u.id THEN NoId ELSE @]
    BY <1>8 DEF Webhook, LegComplete, EntryComplete, PartialFill, LegCancelled, EntryCancelled
  <2> QED
    BY <2>1, <1>2
<1>9. CASE u.status = "cancelled" /\ ~IsLeg(u)
  <2>1. u.id = Entry
    BY <1>1, <1>2, <1>3, <1>9 DEF Webhook, Matches, IsLeg, TypeOK
  <2>2. CASE u.filled > 0
    <3>1. OpenWith(u.filled)
      BY <1>9, <2>2 DEF Webhook, LegComplete, EntryComplete, PartialFill, LegCancelled, EntryCancelled
    <3> QED
      BY <3>1, <2>1, <2>2, <1>1, <1>4, <1>9 DEF Earned
  <2>3. CASE u.filled = 0
    <3>1. row' = [row EXCEPT !.status = "CLOSED"]
      BY <1>9, <2>3 DEF Webhook, LegComplete, EntryComplete, PartialFill, LegCancelled, EntryCancelled
    <3> QED
      BY <3>1, <2>1, <2>3, <1>1, <1>2, <1>9 DEF Earned, Statuses
  <2> QED
    BY <2>2, <2>3, <1>1
<1> QED
  BY <1>5, <1>6, <1>7, <1>8, <1>9, <1>1

LEMMA TypeStep ==
  ASSUME LiveInv, [Next]_vars
  PROVE  TypeOK'
<1> USE Names DEF LiveInv
<1> DEFINE Pcs == {"idle", "asking", "cancelling", "checking", "sending", "commit"}
<1>1. ASSUME NEW o \in Orders, Fill(o) \/ Die(o)
      PROVE  TypeOK'
  <2>1. filled' \in [Orders -> 0..Qty] /\ state' \in [Orders -> States]
    BY <1>1 DEF Fill, Die, TypeOK, OrdersKnown, States
  <2> QED
    BY <2>1, <1>1 DEF Fill, Die, TypeOK, sessions, locks, world
<1>2. ASSUME NEW u \in Updates, Webhook(u)
      PROVE  TypeOK'
  <2>1. row' \in Rows
    BY <1>2, WebhookRow
  <2> QED
    BY <2>1, <1>2 DEF Webhook, TypeOK, broker, sessions, locks, world
<1>3. ASSUME NEW s \in Sessions, NEW next \in Pcs, NEW what \in SUBSET (Orders \cup Reasons),
             Load(s, next, what), TypeOK
      PROVE  /\ at' \in [Sessions -> Pcs] /\ seen' \in [Sessions -> Rows]
             /\ now' \in [Sessions -> Rows] /\ todo' \in [Sessions -> SUBSET (Orders \cup Reasons)]
  BY <1>3 DEF Load, TypeOK
<1>4. ASSUME NEW s \in Sessions, NEW next \in Pcs, NEW r \in Rows, Goto(s, next, r), TypeOK
      PROVE  /\ at' \in [Sessions -> Pcs] /\ seen' \in [Sessions -> Rows]
             /\ now' \in [Sessions -> Rows] /\ todo' \in [Sessions -> SUBSET (Orders \cup Reasons)]
  BY <1>4 DEF Goto, TypeOK
<1>5. ASSUME NEW s \in Sessions, Leave(s), TypeOK
      PROVE  /\ at' \in [Sessions -> Pcs] /\ seen' \in [Sessions -> Rows]
             /\ now' \in [Sessions -> Rows] /\ todo' \in [Sessions -> SUBSET (Orders \cup Reasons)]
  BY <1>5, StartRowsType DEF Leave, TypeOK
<1>6. Reconcile => TypeOK'
  <2> SUFFICES ASSUME Reconcile PROVE TypeOK'
    OBVIOUS
  <2>1. Ids(row) \in SUBSET Orders /\ {Entry} \in SUBSET Orders /\ "reconciler" \in Sessions
    BY DEF Ids, TypeOK, Rows, Orders, Exits, Legs, Sessions, Jobs
  <2>2. PICK what \in SUBSET (Orders \cup Reasons) : Load("reconciler", "asking", what)
    BY <2>1 DEF Reconcile
  <2> QED
    BY <2>1, <2>2, <1>3 DEF Reconcile, TypeOK, broker, locks, world
<1>7. AskBroker => TypeOK'
  <2> SUFFICES ASSUME AskBroker PROVE TypeOK'
    OBVIOUS
  <2>1. "reconciler" \in Sessions /\ Entry \in Orders
    BY DEF Sessions, Jobs, Orders
  <2>2. \A r \in Rows : /\ [r EXCEPT !.status = "OPEN"] \in Rows
                        /\ [r EXCEPT !.status = "CLOSED"] \in Rows
                        /\ \A n \in 1..Qty : [r EXCEPT !.status = "OPEN", !.qty = n] \in Rows
    BY DEF Rows, Statuses
  <2>3. filled[Entry] > 0 => filled[Entry] \in 1..Qty
    BY <2>1 DEF TypeOK
  <2>4. UNCHANGED <<at, seen>>
    BY DEF AskBroker, Asked, AskEntry, AskLeg
  <2>5. todo' \in [Sessions -> SUBSET (Orders \cup Reasons)]
    BY <2>1 DEF AskBroker, Asked, AskEntry, AskLeg, TypeOK
  <2>6. now' \in [Sessions -> Rows]
    <3>1. now["reconciler"] \in Rows
      BY <2>1 DEF TypeOK
    <3>2. UNCHANGED now \/ \E r \in Rows : now' = [now EXCEPT !["reconciler"] = r]
      <4>1. CASE AskEntry
        BY <4>1, <2>2, <2>3, <3>1 DEF AskEntry
      <4>2. CASE \E o : AskLeg(o)
        BY <4>2, <2>2, <3>1 DEF AskLeg
      <4>3. CASE \E o : Asked(o)
        BY <4>3 DEF Asked
      <4> QED
        BY <4>1, <4>2, <4>3 DEF AskBroker
    <3> QED
      BY <3>2, <2>1 DEF TypeOK
  <2> QED
    BY <2>4, <2>5, <2>6 DEF AskBroker, TypeOK, broker, locks, world
<1>8. FindStale => TypeOK'
  <2>1. "timeouts" \in Sessions /\ {} \in SUBSET (Orders \cup Reasons)
    BY DEF Sessions, Jobs
  <2> QED
    BY <2>1, <1>3 DEF FindStale, TypeOK, broker, locks, world
<1>9. CancelStale => TypeOK'
  <2>1. "timeouts" \in Sessions
    BY DEF Sessions, Jobs
  <2>2. [now["timeouts"] EXCEPT !.status = "CANCELLED"] \in Rows
    BY <2>1 DEF TypeOK, Rows, Statuses
  <2> QED
    BY <2>1, <2>2, <1>4 DEF CancelStale, TypeOK, locks, world
<1>10. CancelFails => TypeOK'
  <2>1. "timeouts" \in Sessions
    BY DEF Sessions, Jobs
  <2>2. CancelFails => asked' \in BOOLEAN
    BY DEF CancelFails, TypeOK
  <2> QED
    BY <2>1, <2>2, <1>5 DEF CancelFails, TypeOK, locks, world
<1>11. ASSUME NEW s \in Sessions, Commit(s) \/ Crash(s)
       PROVE  TypeOK'
  <2>1. CASE Commit(s)
    <3>1. row' \in Rows
      BY <2>1, RowsMerge DEF Commit, TypeOK
    <3> QED
      BY <3>1, <2>1, <1>5 DEF Commit, TypeOK, broker, locks, world
  <2>2. CASE Crash(s)
    <3>1. crashes' \in 0..MaxCrashes
      BY <2>2 DEF Crash, TypeOK
    <3> QED
      BY <3>1, <2>2, <1>5 DEF Crash, TypeOK, broker, locks, world
  <2> QED
    BY <1>11, <2>1, <2>2
<1>12. ASSUME NEW m \in Monitors, StartPass(m) \/ Skip(m) \/ NakedStop(m) \/ CloseRefused(m)
       PROVE  TypeOK'
  <2>1. m \in Sessions /\ now[m] \in Rows
    BY DEF Sessions, TypeOK
  <2>2. CASE StartPass(m)
    <3>1. Reason \in SUBSET (Orders \cup Reasons)
      BY DEF Reason, Reasons
    <3> QED
      BY <3>1, <2>1, <2>2, <1>3 DEF StartPass, TypeOK, broker, locks, world
  <2>3. CASE Skip(m)
    BY <2>1, <2>3, <1>5 DEF Skip, TypeOK, broker, locks, world
  <2>4. CASE NakedStop(m)
    BY <2>1, <2>4, <1>4 DEF NakedStop, TypeOK, broker, locks, world
  <2>5. CASE CloseRefused(m)
    <3>1. lock' \in [Reasons -> BOOLEAN]
      BY <2>5 DEF CloseRefused, FreeLock, TypeOK
    <3>2. Unprotected(now[m]) \in Rows
      BY <2>1 DEF Unprotected, Rows
    <3> QED
      BY <3>1, <3>2, <2>1, <2>5, <1>4 DEF CloseRefused, TypeOK, broker, locks, world
  <2> QED
    BY <1>12, <2>2, <2>3, <2>4, <2>5
<1>13. ASSUME NEW m \in Monitors, NEW r \in Reasons, TakeLock(m, r)
       PROVE  TypeOK'
  <2>1. m \in Sessions /\ now[m] \in Rows
    BY DEF Sessions, TypeOK
  <2>2. lock' \in [Reasons -> BOOLEAN]
    BY <1>13 DEF TakeLock, TypeOK
  <2> QED
    BY <2>1, <2>2, <1>13, <1>4 DEF TakeLock, TypeOK, broker, world
<1>14. ASSUME NEW m \in Monitors, NEW k \in Markets, CloseSent(m, k) \/ CloseLost(m, k)
       PROVE  TypeOK'
  <2>1. m \in Sessions /\ now[m] \in Rows /\ k \in Orders /\ now[m].qty \in 1..Qty
    BY DEF Sessions, TypeOK, Orders, Exits, Rows
  <2>2. Unprotected(now[m]) \in Rows /\ [Unprotected(now[m]) EXCEPT !.tgt = k] \in Rows
    BY <2>1 DEF Unprotected, Rows
  <2>3. WhyOf(m) \in Reasons \cup {"naked"}
    <3>1. m \in Monitors /\ todo[m] \in {{}, {"eod"}, {"emergency"}}
      BY DEF SessionsKnown
    <3> QED
      BY <3>1 DEF WhyOf, Reasons
  <2>4. /\ state' \in [Orders -> States] /\ size' \in [Orders -> 1..Qty]
        /\ why' \in [Markets -> Reasons \cup {"naked", "unsent"}]
        /\ UNCHANGED <<filled, asked>>
    BY <2>1, <2>3, <1>14 DEF CloseSent, CloseLost, SendMarket, TypeOK, States
  <2>5. CASE CloseSent(m, k)
    BY <2>1, <2>2, <2>4, <2>5, <1>4 DEF CloseSent, TypeOK, locks, world
  <2>6. CASE CloseLost(m, k)
    <3>1. lock' \in [Reasons -> BOOLEAN] /\ lost' \subseteq Markets
      BY <2>6 DEF CloseLost, FreeLock, TypeOK
    <3> QED
      BY <3>1, <2>1, <2>2, <2>4, <2>6, <1>4 DEF CloseLost, TypeOK, world
  <2> QED
    BY <1>14, <2>5, <2>6
<1>15. ASSUME NEW r \in Reasons, Expire(r)
       PROVE  TypeOK'
  <2>1. "eod" \in Reasons /\ "emergency" \in Reasons /\ r \in {"eod", "emergency"}
    BY DEF Reasons
  <2>2. expired["eod"] \in 0..MaxExpiries /\ expired["emergency"] \in 0..MaxExpiries
    BY <2>1 DEF TypeOK
  <2>3. expired[r] + 1 \in 0..MaxExpiries
    BY <2>1, <2>2, <1>15 DEF Expire
  <2>4. lock' \in [Reasons -> BOOLEAN] /\ expired' \in [Reasons -> 0..MaxExpiries]
    BY <1>15, <2>3 DEF Expire, TypeOK
  <2> QED
    BY <2>4, <1>15 DEF Expire, TypeOK, broker, sessions, world
<1>16. Halt \/ SquareOffTime => TypeOK'
  BY DEF Halt, SquareOffTime, TypeOK, broker, sessions, locks
<1>17. UNCHANGED vars => TypeOK'
  BY DEF vars, TypeOK, broker, sessions, locks, world
<1> HIDE DEF LiveInv
<1> QED
  BY NextCases, <1>1, <1>2, <1>6, <1>7, <1>8, <1>9, <1>10, <1>11, <1>12, <1>13, <1>14, <1>15,
     <1>16, <1>17, Zenon

(* Facts about the broker never go away.                                   *)
(* What the broker did is never undone.                                    *)
LEMMA BrokerMonotone ==
  ASSUME LiveInv, [Next]_vars
  PROVE  /\ \A o \in Exits : state[o] = "complete" => state'[o] = "complete"
         /\ filled[Entry] > 0 => filled'[Entry] > 0
         /\ state[Entry] = "dead" => state'[Entry] = "dead" /\ filled'[Entry] = filled[Entry]
         /\ asked => asked'
<1> USE Names DEF LiveInv
<1> DEFINE P == /\ \A o \in Exits : state[o] = "complete" => state'[o] = "complete"
                /\ filled[Entry] > 0 => filled'[Entry] > 0
                /\ state[Entry] = "dead" => state'[Entry] = "dead" /\ filled'[Entry] = filled[Entry]
                /\ asked => asked'
<1>0. Entry \in Orders /\ Exits \subseteq Orders
  BY DEF Orders
<1>1. UNCHANGED <<state, filled, asked>> => P
  OBVIOUS
<1>2. ASSUME NEW o \in Orders, Fill(o) \/ Die(o) PROVE P
  BY <1>0, <1>2 DEF Fill, Die, TypeOK
<1>4. CancelStale => P
  BY DEF CancelStale
<1>5. CancelFails => P
  <2> SUFFICES ASSUME CancelFails PROVE P
    OBVIOUS
  <2>1. UNCHANGED <<state, filled>> /\ (asked => asked')
    BY DEF CancelFails, TypeOK
  <2> QED
    BY <2>1
<1>6. ASSUME NEW m \in Monitors, NEW k \in Markets, CloseSent(m, k) \/ CloseLost(m, k) PROVE P
  <2>1. /\ state[k] = "unsent" /\ state' = [state EXCEPT ![k] = "open"]
        /\ UNCHANGED <<filled, asked>>
    BY <1>6 DEF CloseSent, CloseLost, SendMarket, Unsent
  <2>2. k # Entry
    OBVIOUS
  <2> QED
    BY <2>1, <2>2, <1>0 DEF TypeOK
<1>7. \A u \in Updates : Webhook(u) => P
  BY <1>1 DEF Webhook, broker
<1>8. (Reconcile => P) /\ (AskBroker => P) /\ (FindStale => P)
  BY <1>1 DEF Reconcile, AskBroker, FindStale, broker
<1>9. \A s \in Sessions : Commit(s) \/ Crash(s) => P
  BY <1>1 DEF Commit, Crash, broker
<1>10. \A m \in Monitors : StartPass(m) \/ Skip(m) \/ NakedStop(m) \/ CloseRefused(m) => P
  BY <1>1 DEF StartPass, Skip, NakedStop, CloseRefused, broker
<1>11. \A m \in Monitors, r \in Reasons : TakeLock(m, r) => P
  BY <1>1 DEF TakeLock, broker
<1>12. (\A r \in Reasons : Expire(r) => P) /\ (Halt \/ SquareOffTime => P) /\ (UNCHANGED vars => P)
  BY <1>1 DEF Expire, Halt, SquareOffTime, vars, broker
<1> HIDE DEF P, LiveInv
<1>13. P
  BY NextCases, <1>2, <1>4, <1>5, <1>6, <1>7, <1>8, <1>9, <1>10, <1>11, <1>12, Zenon
<1> QED
  BY <1>13 DEF P

LEMMA EarnedStays ==
  ASSUME LiveInv, [Next]_vars, NEW st \in Statuses, Earned(st)
  PROVE  Earned(st)'
  BY BrokerMonotone DEF Earned, ExitDone, Statuses

LEMMA OrdersStep ==
  ASSUME LiveInv, [Next]_vars
  PROVE  OrdersKnown'
<1> USE Names DEF LiveInv
<1> DEFINE P == OrdersKnown'
<1>0. Entry \in Orders /\ Exits \subseteq Orders /\ Markets \subseteq Exits
      /\ Exits \cap {Entry} = {}
  BY DEF Orders, Exits, Legs
<1>1. UNCHANGED <<state, size, filled, why, lost>> => P
  BY DEF OrdersKnown
<1>2. ASSUME NEW o \in Orders, Fill(o) \/ Die(o) PROVE P
  BY <1>0, <1>2 DEF Fill, Die, TypeOK, OrdersKnown
<1>3. (CancelStale => P) /\ (CancelFails => P)
  BY <1>1 DEF CancelStale, CancelFails
<1>4. ASSUME NEW m \in Monitors, NEW k \in Markets, CloseSent(m, k) \/ CloseLost(m, k) PROVE P
  <2>1. /\ state[k] = "unsent" /\ state' = [state EXCEPT ![k] = "open"]
        /\ size' = [size EXCEPT ![k] = now[m].qty] /\ filled' = filled
        /\ \A j \in Markets : j # k => why'[j] = why[j] /\ (j \in lost' => j \in lost)
        /\ at[m] = "sending"
    BY <1>4 DEF CloseSent, CloseLost, SendMarket, Unsent, TypeOK
  <2>2. k # Entry /\ k \in Orders
    BY <1>0
  <2>3. filled[Entry] > 0
    BY <2>1 DEF SessionsKnown
  <2>4. filled[k] = 0 /\ now[m].qty \in 1..Qty
    <3>1. m \in Sessions
      BY DEF Sessions
    <3> QED
      BY <3>1, <2>1, <2>2 DEF OrdersKnown, TypeOK, Rows
  <2> QED
    BY <2>1, <2>2, <2>3, <2>4, <1>0 DEF OrdersKnown, TypeOK
<1>5. \A u \in Updates : Webhook(u) => P
  BY <1>1 DEF Webhook, broker
<1>6. (Reconcile => P) /\ (AskBroker => P) /\ (FindStale => P)
  BY <1>1 DEF Reconcile, AskBroker, FindStale, broker
<1>7. \A s \in Sessions : Commit(s) \/ Crash(s) => P
  BY <1>1 DEF Commit, Crash, broker
<1>8. \A m \in Monitors : StartPass(m) \/ Skip(m) \/ NakedStop(m) \/ CloseRefused(m) => P
  BY <1>1 DEF StartPass, Skip, NakedStop, CloseRefused, broker
<1>9. \A m \in Monitors, r \in Reasons : TakeLock(m, r) => P
  BY <1>1 DEF TakeLock, broker
<1>10. (\A r \in Reasons : Expire(r) => P) /\ (Halt \/ SquareOffTime => P) /\ (UNCHANGED vars => P)
  BY <1>1 DEF Expire, Halt, SquareOffTime, vars, broker
<1> HIDE DEF P, LiveInv
<1>11. P
  BY NextCases, <1>2, <1>3, <1>4, <1>5, <1>6, <1>7, <1>8, <1>9, <1>10, Zenon
<1> QED
  BY <1>11 DEF P

LEMMA SessionsStep ==
  ASSUME LiveInv, [Next]_vars
  PROVE  SessionsKnown'
<1> USE Names DEF LiveInv
<1> DEFINE P == SessionsKnown'
<1> DEFINE R == /\ at["reconciler"] \in {"idle", "asking"} /\ todo["reconciler"] \subseteq Orders
           T == at["timeouts"] \in {"idle", "cancelling", "commit"}
           M(m) == /\ at[m] \in {"idle", "checking", "sending", "commit"}
                   /\ todo[m] \in {{}, {"eod"}, {"emergency"}}
                   /\ at[m] # "idle" => now[m].status = seen[m].status /\ filled[Entry] > 0
<1>0. /\ "reconciler" \in Sessions /\ "timeouts" \in Sessions /\ Monitors \subseteq Sessions
      /\ "reconciler" # "timeouts" /\ Entry \in Orders
  BY DEF Sessions, Jobs, Orders
<1>1. R /\ T /\ (\A m \in Monitors : M(m))
  BY DEF SessionsKnown
<1>2. filled[Entry] > 0 => filled'[Entry] > 0
  <2>1. filled[Entry] > 0 => Earned("OPEN")
    BY DEF Earned
  <2>2. Earned("OPEN")' => filled'[Entry] > 0
    BY DEF Earned
  <2> QED
    BY <2>1, <2>2, EarnedStays DEF Statuses
<1>3. UNCHANGED sessions => P
  BY <1>1, <1>2 DEF SessionsKnown, sessions
<1>4. ASSUME NEW s \in Sessions, Leave(s) PROVE P
  BY <1>0, <1>1, <1>2, <1>4 DEF Leave, SessionsKnown, TypeOK
<1>5. Reconcile => P
  <2>1. Ids(row) \subseteq Orders
    BY DEF Ids, TypeOK, Rows, Orders, Exits, Legs
  <2> QED
    BY <2>1, <1>0, <1>1, <1>2 DEF Reconcile, Load, SessionsKnown, TypeOK
<1>6. AskBroker => P
  <2> SUFFICES ASSUME AskBroker PROVE P
    OBVIOUS
  <2>1. UNCHANGED <<at, seen>> /\ todo'["reconciler"] \subseteq todo["reconciler"]
        /\ \A m \in Monitors : todo'[m] = todo[m] /\ now'[m] = now[m]
    BY <1>0 DEF AskBroker, Asked, AskEntry, AskLeg, TypeOK
  <2> QED
    BY <2>1, <1>0, <1>1, <1>2 DEF SessionsKnown
<1>7. FindStale => P
  BY <1>0, <1>1, <1>2 DEF FindStale, Load, SessionsKnown, TypeOK
<1>8. CancelStale => P
  BY <1>0, <1>1, <1>2 DEF CancelStale, Goto, SessionsKnown, TypeOK
<1>9. CancelFails => P
  BY <1>0, <1>4 DEF CancelFails
<1>10. ASSUME NEW s \in Sessions, Commit(s) \/ Crash(s) PROVE P
  BY <1>4, <1>10 DEF Commit, Crash
<1>11. ASSUME NEW m \in Monitors, StartPass(m) \/ Skip(m) \/ NakedStop(m) \/ CloseRefused(m) PROVE P
  <2>1. CASE StartPass(m)
    <3>1. Reason \in {{}, {"eod"}, {"emergency"}}
      BY DEF Reason
    <3>2. filled[Entry] > 0
      BY <2>1 DEF StartPass, WritesEarned, Earned
    <3> QED
      BY <2>1, <3>1, <3>2, <1>0, <1>1, <1>2 DEF StartPass, Load, SessionsKnown, TypeOK
  <2>2. CASE Skip(m)
    BY <2>2, <1>0, <1>4 DEF Skip
  <2>3. CASE NakedStop(m)
    BY <2>3, <1>0, <1>1, <1>2 DEF NakedStop, Goto, SessionsKnown, TypeOK
  <2>4. CASE CloseRefused(m)
    <3>1. at[m] # "idle" /\ Unprotected(now[m]).status = now[m].status
      BY <2>4, <1>0 DEF CloseRefused, Unprotected, TypeOK, Rows
    <3> QED
      BY <3>1, <2>4, <1>0, <1>1, <1>2 DEF CloseRefused, Goto, SessionsKnown, TypeOK
  <2> QED
    BY <1>11, <2>1, <2>2, <2>3, <2>4
<1>12. ASSUME NEW m \in Monitors, NEW r \in Reasons, TakeLock(m, r) PROVE P
  BY <1>12, <1>0, <1>1, <1>2 DEF TakeLock, Goto, SessionsKnown, TypeOK
<1>13. ASSUME NEW m \in Monitors, NEW k \in Markets, CloseSent(m, k) \/ CloseLost(m, k) PROVE P
  <2>1. PICK r : /\ r \in {Unprotected(now[m]), [Unprotected(now[m]) EXCEPT !.tgt = k]}
                 /\ Goto(m, "commit", r) /\ at[m] # "idle"
    BY <1>13 DEF CloseSent, CloseLost
  <2>2. r.status = now[m].status
    BY <2>1, <1>0 DEF Unprotected, TypeOK, Rows
  <2> QED
    BY <2>1, <2>2, <1>0, <1>1, <1>2 DEF Goto, SessionsKnown, TypeOK
<1>14. (\A u \in Updates : Webhook(u) => P) /\ (\A o \in Orders : Fill(o) \/ Die(o) => P)
  BY <1>3 DEF Webhook, Fill, Die
<1>15. (\A r \in Reasons : Expire(r) => P) /\ (Halt \/ SquareOffTime => P) /\ (UNCHANGED vars => P)
  BY <1>3 DEF Expire, Halt, SquareOffTime, vars
<1> HIDE DEF P, LiveInv
<1>16. P
  BY NextCases, <1>5, <1>6, <1>7, <1>8, <1>9, <1>10, <1>11, <1>12, <1>13, <1>14, <1>15, Zenon
<1> QED
  BY <1>16 DEF P

(* A session writes a status only once the broker earned it.               *)
LEMMA WritesStep ==
  ASSUME LiveInv, [Next]_vars
  PROVE  WritesEarned'
<1> USE Names DEF LiveInv
<1> DEFINE P == WritesEarned'
           N(st) == CASE st = "OPEN" -> filled'[Entry] > 0
                      [] st = "CLOSED" -> ExitDone' \/ (state'[Entry] = "dead" /\ filled'[Entry] = 0)
                      [] st = "CANCELLED" -> asked'
                      [] OTHER -> FALSE
<1>0. /\ "reconciler" \in Sessions /\ "timeouts" \in Sessions /\ Monitors \subseteq Sessions
      /\ \A s \in Sessions : now[s] \in Rows /\ seen[s] \in Rows
      /\ \A r \in Rows : r.status \in Statuses
      /\ row \in Rows /\ Entry \in Orders
  BY DEF Sessions, Jobs, TypeOK, Rows, Orders
<1>1. /\ row.status = "PENDING" \/ Earned(row.status)
      /\ \A s \in Sessions : now[s].status = seen[s].status \/ Earned(now[s].status)
  BY DEF WritesEarned
<1>2. \A st \in Statuses : Earned(st) => N(st)
  <2> SUFFICES ASSUME NEW st \in Statuses, Earned(st) PROVE N(st)
    OBVIOUS
  <2>1. Earned(st)'
    BY EarnedStays
  <2> QED
    BY <2>1 DEF Earned
<1>3. ASSUME row'.status = "PENDING" \/ N(row'.status),
             \A s \in Sessions : now'[s].status = seen'[s].status \/ N(now'[s].status)
      PROVE  P
  BY <1>3 DEF WritesEarned, Earned
<1> HIDE DEF P, N, LiveInv
<1>4. row'.status = row.status => row'.status = "PENDING" \/ N(row'.status)
  BY <1>0, <1>1, <1>2
<1>5. ASSUME NEW s \in Sessions, now'[s] = now[s], seen'[s] = seen[s]
      PROVE  now'[s].status = seen'[s].status \/ N(now'[s].status)
  BY <1>0, <1>1, <1>2, <1>5
<1>6. ASSUME NEW s \in Sessions,
             \A z \in Sessions \ {s} : now'[z] = now[z] /\ seen'[z] = seen[z],
             now'[s].status = seen'[s].status \/ N(now'[s].status),
             row'.status = "PENDING" \/ N(row'.status)
      PROVE  P
  BY <1>3, <1>5, <1>6
<1>7. UNCHANGED <<row, now, seen>> => P
  BY <1>3, <1>4, <1>5
<1>8. ASSUME NEW s \in Sessions, Leave(s), row'.status = "PENDING" \/ N(row'.status) PROVE P
  <2>1. /\ \A z \in Sessions \ {s} : now'[z] = now[z] /\ seen'[z] = seen[z]
        /\ now'[s] = Blank /\ seen'[s] = Blank
    BY <1>8 DEF Leave, LiveInv, TypeOK
  <2> QED
    BY <2>1, <1>6, <1>8
<1>9. ASSUME NEW s \in Sessions, NEW next, NEW what, Load(s, next, what), row' = row PROVE P
  <2>1. /\ \A z \in Sessions \ {s} : now'[z] = now[z] /\ seen'[z] = seen[z]
        /\ now'[s] = seen'[s]
    BY <1>9 DEF Load, LiveInv, TypeOK
  <2> QED
    BY <2>1, <1>4, <1>6, <1>9
<1>10. ASSUME NEW s \in Sessions, NEW next, NEW r, Goto(s, next, r), row' = row,
              r.status = now[s].status \/ N(r.status)
       PROVE  P
  <2>1. /\ \A z \in Sessions \ {s} : now'[z] = now[z] /\ seen'[z] = seen[z]
        /\ now'[s] = r /\ seen'[s] = seen[s]
    BY <1>10 DEF Goto, LiveInv, TypeOK
  <2>2. now'[s].status = seen'[s].status \/ N(now'[s].status)
    BY <2>1, <1>0, <1>1, <1>2, <1>10
  <2> QED
    BY <2>1, <2>2, <1>4, <1>6, <1>10
<1>11. ASSUME NEW u \in Updates, Webhook(u) PROVE P
  <2>1. row'.status = "PENDING" \/ N(row'.status)
    <3>1. row' \in Rows /\ (row'.status # row.status => Earned(row'.status))
      BY <1>11, WebhookRow DEF LiveInv
    <3> QED
      BY <3>1, <1>0, <1>2, <1>4
  <2>2. UNCHANGED <<now, seen>>
    BY <1>11 DEF Webhook, sessions
  <2> QED
    BY <2>1, <2>2, <1>3, <1>5
<1>12. (Reconcile => P) /\ (FindStale => P)
  BY <1>0, <1>9 DEF Reconcile, FindStale
<1>13. AskBroker => P
  <2> SUFFICES ASSUME AskBroker PROVE P
    OBVIOUS
  <2>1. UNCHANGED <<row, seen>>
    BY DEF AskBroker, Asked, AskEntry, AskLeg
  <2>2. CASE UNCHANGED now
    BY <2>1, <2>2, <1>7
  <2>3. ASSUME NEW r \in Rows, now' = [now EXCEPT !["reconciler"] = r], N(r.status) PROVE P
    <3>1. /\ \A z \in Sessions \ {"reconciler"} : now'[z] = now[z] /\ seen'[z] = seen[z]
          /\ now'["reconciler"] = r
      BY <2>1, <2>3, <1>0 DEF LiveInv, TypeOK
    <3> QED
      BY <3>1, <2>1, <2>3, <1>0, <1>4, <1>6
  <2>4. UNCHANGED now \/ \E r \in Rows : now' = [now EXCEPT !["reconciler"] = r] /\ Earned(r.status)
    <3> DEFINE r0 == now["reconciler"]
    <3>1. /\ r0 \in Rows
          /\ [r0 EXCEPT !.status = "OPEN"] \in Rows /\ [r0 EXCEPT !.status = "OPEN"].status = "OPEN"
          /\ [r0 EXCEPT !.status = "CLOSED"] \in Rows /\ [r0 EXCEPT !.status = "CLOSED"].status = "CLOSED"
      BY <1>0 DEF Rows, Statuses
    <3>2. filled[Entry] > 0 => /\ [r0 EXCEPT !.status = "OPEN", !.qty = filled[Entry]] \in Rows
                              /\ [r0 EXCEPT !.status = "OPEN", !.qty = filled[Entry]].status = "OPEN"
      <4>1. filled[Entry] > 0 => filled[Entry] \in 1..Qty
        BY <1>0, Names DEF LiveInv, TypeOK
      <4>2. \A n \in 1..Qty : /\ [r0 EXCEPT !.status = "OPEN", !.qty = n] \in Rows
                              /\ [r0 EXCEPT !.status = "OPEN", !.qty = n].status = "OPEN"
        <5> HIDE DEF r0
        <5> QED
          BY <3>1 DEF Rows, Statuses
      <4> QED
        BY <4>1, <4>2
    <3>3. CASE \E o : Asked(o)
      BY <3>3 DEF Asked
    <3>4. CASE AskEntry
      <4>1. state[Entry] = "complete" => filled[Entry] > 0
        BY <1>0, Names DEF LiveInv, OrdersKnown, TypeOK
      <4>2. \/ filled[Entry] > 0 /\ now' = [now EXCEPT !["reconciler"] = [r0 EXCEPT !.status = "OPEN"]]
            \/ filled[Entry] > 0 /\ now' = [now EXCEPT !["reconciler"] =
                                               [r0 EXCEPT !.status = "OPEN", !.qty = filled[Entry]]]
            \/ /\ state[Entry] = "dead" /\ filled[Entry] = 0
               /\ now' = [now EXCEPT !["reconciler"] = [r0 EXCEPT !.status = "CLOSED"]]
        BY <3>4, <4>1 DEF AskEntry
      <4>3. /\ filled[Entry] > 0 => Earned("OPEN")
            /\ state[Entry] = "dead" /\ filled[Entry] = 0 => Earned("CLOSED")
        BY DEF Earned
      <4> HIDE DEF r0
      <4> QED
        BY <4>2, <4>3, <3>1, <3>2
    <3>5. CASE \E o : o # Entry /\ o \in todo["reconciler"] /\ AskLeg(o)
      <4>1. PICK o : o # Entry /\ o \in todo["reconciler"] /\ AskLeg(o)
        BY <3>5
      <4>2. o \in Exits /\ state[o] = "complete"
        BY <4>1 DEF LiveInv, SessionsKnown, Orders, AskLeg
      <4>3. Earned("CLOSED")
        BY <4>2 DEF Earned, ExitDone
      <4>4. now' = [now EXCEPT !["reconciler"] = [r0 EXCEPT !.status = "CLOSED"]]
        BY <4>1 DEF AskLeg
      <4> HIDE DEF r0
      <4> QED
        BY <4>3, <4>4, <3>1
    <3>6. NextToAsk \in todo["reconciler"]
      <4>1. todo["reconciler"] # {}
        BY DEF AskBroker
      <4> QED
        BY <4>1 DEF NextToAsk
    <3> QED
      BY <3>3, <3>4, <3>5, <3>6 DEF AskBroker
  <2> QED
    BY <2>2, <2>3, <2>4, <1>0, <1>2
<1>14. CancelStale => P
  <2> SUFFICES ASSUME CancelStale PROVE P
    OBVIOUS
  <2>1. N("CANCELLED")
    BY DEF CancelStale, N
  <2>2. [now["timeouts"] EXCEPT !.status = "CANCELLED"].status = "CANCELLED"
    BY <1>0 DEF Rows
  <2> QED
    BY <2>1, <2>2, <1>0, <1>10 DEF CancelStale
<1>15. CancelFails => P
  BY <1>0, <1>4, <1>8 DEF CancelFails
<1>16. ASSUME NEW s \in Sessions, Commit(s) \/ Crash(s) PROVE P
  <2>1. CASE Commit(s)
    <3>1. /\ row' = Merge(row, seen[s], now[s])
          /\ row'.status \in {row.status, now[s].status}
          /\ now[s].status = seen[s].status => row'.status = row.status
      BY <2>1, <1>0, RowsMerge DEF Commit
    <3>2. row'.status = "PENDING" \/ N(row'.status)
      BY <3>1, <1>0, <1>1, <1>2, <1>4
    <3> QED
      BY <3>2, <2>1, <1>8 DEF Commit
  <2>2. CASE Crash(s)
    BY <2>2, <1>4, <1>8 DEF Crash
  <2> QED
    BY <1>16, <2>1, <2>2
<1>17. ASSUME NEW m \in Monitors, StartPass(m) \/ Skip(m) \/ NakedStop(m) \/ CloseRefused(m) PROVE P
  <2>1. Unprotected(now[m]).status = now[m].status
    BY <1>0 DEF Unprotected, Rows
  <2>2. CASE StartPass(m)
    BY <2>2, <1>0, <1>9 DEF StartPass
  <2>3. CASE Skip(m)
    BY <2>3, <1>0, <1>4, <1>8 DEF Skip
  <2>4. CASE NakedStop(m)
    BY <2>4, <1>0, <1>10 DEF NakedStop
  <2>5. CASE CloseRefused(m)
    BY <2>1, <2>5, <1>0, <1>10 DEF CloseRefused
  <2> QED
    BY <1>17, <2>2, <2>3, <2>4, <2>5
<1>18. ASSUME NEW m \in Monitors, NEW r \in Reasons, TakeLock(m, r) PROVE P
  BY <1>18, <1>0, <1>10 DEF TakeLock
<1>19. ASSUME NEW m \in Monitors, NEW k \in Markets, CloseSent(m, k) \/ CloseLost(m, k) PROVE P
  <2>1. /\ Unprotected(now[m]).status = now[m].status
        /\ [Unprotected(now[m]) EXCEPT !.tgt = k].status = now[m].status
    BY <1>0 DEF Unprotected, Rows
  <2> QED
    BY <2>1, <1>19, <1>0, <1>10 DEF CloseSent, CloseLost
<1>20. (\A o \in Orders : Fill(o) \/ Die(o) => P) /\ (\A r \in Reasons : Expire(r) => P)
       /\ (Halt \/ SquareOffTime => P) /\ (UNCHANGED vars => P)
  BY <1>7 DEF Fill, Die, Expire, Halt, SquareOffTime, vars, sessions
<1>21. P
  BY NextCases, <1>11, <1>12, <1>13, <1>14, <1>15, <1>16, <1>17, <1>18, <1>19, <1>20, Zenon
<1> QED
  BY <1>21 DEF P

LEMMA InitInv == Init => LiveInv
<1> SUFFICES ASSUME Init PROVE LiveInv
  OBVIOUS
<1> USE Names
<1>1. TypeOK
  BY InitType
<1>2. /\ row \in StartRows
      /\ Entry \in Orders /\ Exits \subseteq Orders /\ Entry \notin Exits
  BY OrdersAssumption DEF Init, Orders, Exits, Legs
<1>3. /\ row.status \in {"PENDING", "OPEN"}
      /\ row.status = "PENDING" => row.sl = NoId /\ row.tgt = NoId
      /\ row.sl \notin Markets /\ row.tgt \notin Markets
  BY <1>2 DEF StartRows, PendingRow, OpenRow
<1>4. /\ state[Entry] = IF row.status = "OPEN" THEN "complete" ELSE "open"
      /\ \A o \in Exits : state[o] = IF o \in {row.sl, row.tgt} THEN "open" ELSE "unsent"
      /\ \A o \in Orders : size[o] = Qty /\ filled[o] = IF state[o] = "complete" THEN Qty ELSE 0
  <2>1. state = [o \in Orders |->
         CASE o = Entry -> IF row.status = "OPEN" THEN "complete" ELSE "open"
           [] o \in {row.sl, row.tgt} -> "open"
           [] OTHER -> "unsent"]
    BY DEF Init
  <2>2. state[Entry] = IF row.status = "OPEN" THEN "complete" ELSE "open"
    BY <2>1, <1>2, <1>3, StartRowsType DEF StartRows, PendingRow, OpenRow
  <2>3. \A o \in Exits : o # Entry
    BY <1>2
  <2>4. ASSUME NEW o \in Exits
        PROVE  state[o] = IF o \in {row.sl, row.tgt} THEN "open" ELSE "unsent"
    BY <2>1, <2>3, <1>2
  <2>5. \A o \in Orders : size[o] = Qty /\ filled[o] = IF state[o] = "complete" THEN Qty ELSE 0
    BY DEF Init
  <2> QED
    BY <2>2, <2>4, <2>5
<1>5. OrdersKnown
  <2>1. \A o \in Exits : state[o] # "unsent" => filled[Entry] > 0
    BY <1>2, <1>3, <1>4 DEF Exits, Legs
  <2>2. \A k \in Markets : why[k] = "unsent" /\ k \notin lost
    BY DEF Init
  <2>3. \A o \in Orders : o = Entry \/ o \in Exits
    BY DEF Orders
  <2> QED
    BY <1>2, <1>4, <2>1, <2>2, <2>3 DEF OrdersKnown
<1>6. SessionsKnown
  <2>1. \A s \in Sessions : at[s] = "idle" /\ todo[s] = {} /\ now[s] = Blank /\ seen[s] = Blank
    BY DEF Init
  <2> QED
    BY <2>1 DEF SessionsKnown, Sessions, Jobs
<1>7. WritesEarned
  <2>1. \A s \in Sessions : now[s] = seen[s]
    BY DEF Init
  <2> QED
    BY <2>1, <1>2, <1>3, <1>4 DEF WritesEarned, Earned
<1> QED
  BY <1>1, <1>5, <1>6, <1>7 DEF LiveInv

LEMMA InvStep == LiveInv /\ [Next]_vars => LiveInv'
<1>1. LiveInv /\ [Next]_vars => TypeOK'
  BY TypeStep
<1>2. LiveInv /\ [Next]_vars => OrdersKnown' /\ SessionsKnown' /\ WritesEarned'
  BY OrdersStep, SessionsStep, WritesStep
<1> QED
  BY <1>1, <1>2 DEF LiveInv

LEMMA Invariance == Spec => []LiveInv
  BY InitInv, InvStep, PTL DEF Spec

(* Rows, orders, locks and what sessions hold keep their types             *)
(* (models/live_trade.py and the sessions that load its rows).             *)
THEOREM LiveTypeCorrect == Spec => []TypeOK
<1>1. LiveInv => TypeOK
  BY DEF LiveInv
<1> QED
  BY <1>1, Invariance, PTL

-----------------------------------------------------------------------------
(* Counting the holders of a lock and the orders sent under it.            *)
LEMMA CountsFinite ==
  ASSUME NEW r \in Reasons
  PROVE  /\ IsFiniteSet(Holders(r)) /\ Cardinality(Holders(r)) \in Nat
         /\ IsFiniteSet(Confirmed(r)) /\ Cardinality(Confirmed(r)) \in Nat
         /\ IsFiniteSet(Holders(r)') /\ Cardinality(Holders(r)') \in Nat
         /\ IsFiniteSet(Confirmed(r)') /\ Cardinality(Confirmed(r)') \in Nat
<1>1. IsFiniteSet(Monitors) /\ IsFiniteSet(Markets)
  BY OrdersAssumption
<1>2. Holders(r) \subseteq Monitors /\ Holders(r)' \subseteq Monitors
  BY DEF Holders
<1>3. Confirmed(r) \subseteq Markets /\ Confirmed(r)' \subseteq Markets
  BY DEF Confirmed
<1> QED
  BY <1>1, <1>2, <1>3, FS_Subset, FS_CardinalityType

LEMMA Fewer ==
  ASSUME NEW S, NEW T, IsFiniteSet(T), S \subseteq T
  PROVE  Cardinality(S) <= Cardinality(T)
  BY FS_Subset

LEMMA OneFewer ==
  ASSUME NEW T, IsFiniteSet(T), NEW m \in T, NEW S, S \subseteq T \ {m}
  PROVE  Cardinality(S) <= Cardinality(T) - 1
<1>1. IsFiniteSet(T \ {m}) /\ Cardinality(T \ {m}) = Cardinality(T) - 1
  BY FS_RemoveElement
<1> QED
  BY <1>1, FS_Subset

LEMMA OneMore ==
  ASSUME NEW T, IsFiniteSet(T), NEW m, NEW S, S \subseteq T \cup {m}
  PROVE  Cardinality(S) <= Cardinality(T) + 1
<1>1. /\ IsFiniteSet(T \cup {m}) /\ Cardinality(T) \in Nat
      /\ Cardinality(T \cup {m}) = IF m \in T THEN Cardinality(T) ELSE Cardinality(T) + 1
  BY FS_AddElement, FS_CardinalityType, Zenon
<1>2. Cardinality(S) <= Cardinality(T \cup {m}) /\ Cardinality(S) \in Nat
  BY <1>1, FS_Subset, FS_CardinalityType
<1> QED
  BY <1>1, <1>2

LEMMA LocksStep ==
  ASSUME LiveInv, LocksCounted, [Next]_vars
  PROVE  LocksCounted'
<1> USE DEF LiveInv
<1> DEFINE P == LocksCounted'
           H(r) == Cardinality(Holders(r))
           C(r) == Cardinality(Confirmed(r))
           F(r) == IF lock[r] THEN 0 ELSE 1
<1>0. /\ "reconciler" \in Sessions /\ "timeouts" \in Sessions /\ Monitors \subseteq Sessions
      /\ "reconciler" \notin Monitors /\ "timeouts" \notin Monitors
      /\ \A r \in Reasons : expired[r] \in Nat
  BY Names DEF Sessions, Jobs, TypeOK
<1>1. \A r \in Reasons : H(r) + C(r) + F(r) <= 1 + expired[r]
  BY DEF LocksCounted
<1>2. \A r \in Reasons : /\ H(r) \in Nat /\ C(r) \in Nat /\ H(r)' \in Nat /\ C(r)' \in Nat
                         /\ IsFiniteSet(Holders(r)) /\ IsFiniteSet(Confirmed(r))
  BY CountsFinite
\* Nobody starts to hold a lock, nothing is sent, no lock changes.
<1>3. ASSUME UNCHANGED <<why, lost, locks>>,
             \A m \in Monitors : at'[m] = "sending" => at[m] = "sending" /\ todo'[m] = todo[m]
      PROVE  P
  <2> SUFFICES ASSUME NEW r \in Reasons PROVE H(r)' + C(r)' + F(r)' <= 1 + expired'[r]
    BY DEF LocksCounted
  <2>0. /\ H(r) \in Nat /\ C(r) \in Nat /\ H(r)' \in Nat /\ C(r)' \in Nat
        /\ F(r) \in {0, 1} /\ F(r)' \in {0, 1} /\ expired[r] \in Nat
        /\ H(r) + C(r) + F(r) <= 1 + expired[r]
    BY <1>0, <1>1, <1>2
  <2>1. Holders(r)' \subseteq Holders(r) /\ Confirmed(r)' = Confirmed(r)
    BY <1>3 DEF Holders, Confirmed
  <2>2. H(r)' <= H(r)
    BY <2>1, <1>2, Fewer
  <2>3. C(r)' = C(r) /\ F(r)' = F(r) /\ expired' = expired
    BY <2>1, <1>3 DEF locks
  <2> HIDE DEF H, C, F
  <2> QED
    BY <2>2, <2>3, <2>0
<1>4. ASSUME NEW s \in Sessions, Leave(s), UNCHANGED <<why, lost, locks>> PROVE P
  <2>1. \A m \in Monitors : at'[m] = "sending" => at[m] = "sending" /\ todo'[m] = todo[m]
    BY <1>0, <1>4 DEF Leave, TypeOK
  <2> QED
    BY <2>1, <1>3, <1>4
<1>5. ASSUME NEW s \in Sessions, NEW next, next # "sending", NEW what, Load(s, next, what),
             UNCHANGED <<why, lost, locks>>
      PROVE  P
  <2>1. \A m \in Monitors : at'[m] = "sending" => at[m] = "sending" /\ todo'[m] = todo[m]
    BY <1>0, <1>5 DEF Load, TypeOK
  <2> QED
    BY <2>1, <1>3, <1>5
\* The holder m of the locks in todo[m] is done with its order.
<1>6. ASSUME NEW m \in Monitors, at[m] = "sending", NEW r, Goto(m, "commit", r)
      PROVE  \A x \in Reasons : Holders(x)' \subseteq Holders(x) \ {m}
  BY <1>0, <1>6 DEF Goto, Holders, TypeOK
<1>7. ASSUME NEW m \in Monitors, at[m] = "sending", NEW r, Goto(m, "commit", r),
             \A x \in Reasons : Confirmed(x)' \subseteq Confirmed(x),
             FreeLock(m), expired' = expired
      PROVE  P
  <2> SUFFICES ASSUME NEW x \in Reasons PROVE H(x)' + C(x)' + F(x)' <= 1 + expired'[x]
    BY DEF LocksCounted
  <2>0. /\ H(x) \in Nat /\ C(x) \in Nat /\ H(x)' \in Nat /\ C(x)' \in Nat
        /\ F(x) \in {0, 1} /\ F(x)' \in {0, 1} /\ expired[x] \in Nat
        /\ H(x) + C(x) + F(x) <= 1 + expired[x]
    BY <1>0, <1>1, <1>2
  <2>1. Holders(x)' \subseteq Holders(x) \ {m}
    BY <1>6, <1>7
  <2>2. C(x)' <= C(x)
    BY <1>2, <1>7, Fewer
  <2>3. CASE x \in todo[m]
    <3>1. m \in Holders(x)
      BY <2>3, <1>7 DEF Holders
    <3>2. H(x)' <= H(x) - 1
      BY <3>1, <2>1, <1>2, OneFewer
    <3>3. F(x)' \in {0, 1} /\ F(x) \in {0, 1}
      OBVIOUS
    <3> HIDE DEF H, C, F
    <3> QED
      BY <3>2, <3>3, <2>2, <2>0, <1>7
  <2>4. CASE x \notin todo[m]
    <3>1. H(x)' <= H(x)
      BY <2>1, <1>2, Fewer
    <3>2. F(x)' = F(x)
      BY <2>4, <1>7 DEF FreeLock, TypeOK
    <3> HIDE DEF H, C, F
    <3> QED
      BY <3>1, <3>2, <2>2, <2>0, <1>7
  <2> QED
    BY <2>3, <2>4
<1>8. ASSUME NEW m \in Monitors, NEW k \in Markets, CloseSent(m, k) PROVE P
  <2> SUFFICES ASSUME NEW x \in Reasons PROVE H(x)' + C(x)' + F(x)' <= 1 + expired'[x]
    BY DEF LocksCounted
  <2>0. /\ H(x) \in Nat /\ C(x) \in Nat /\ H(x)' \in Nat /\ C(x)' \in Nat
        /\ F(x) \in {0, 1} /\ F(x)' \in {0, 1} /\ expired[x] \in Nat
        /\ H(x) + C(x) + F(x) <= 1 + expired[x]
    BY <1>0, <1>1, <1>2
  <2>1. /\ at[m] = "sending" /\ why' = [why EXCEPT ![k] = WhyOf(m)]
        /\ UNCHANGED <<lost, locks>>
        /\ Goto(m, "commit", [Unprotected(now[m]) EXCEPT !.tgt = k])
    BY <1>8 DEF CloseSent, SendMarket
  <2>2. Holders(x)' \subseteq Holders(x) \ {m}
    BY <2>1, <1>6
  <2>3. F(x)' = F(x) /\ expired' = expired
    BY <2>1 DEF locks
  <2>4. CASE x \in todo[m]
    <3>1. m \in Holders(x)
      BY <2>1, <2>4 DEF Holders
    <3>2. H(x)' <= H(x) - 1
      BY <3>1, <2>2, <1>2, OneFewer
    <3>3. Confirmed(x)' \subseteq Confirmed(x) \cup {k}
      BY <2>1 DEF Confirmed, TypeOK
    <3>4. C(x)' <= C(x) + 1
      BY <3>3, <1>2, OneMore
    <3> HIDE DEF H, C, F
    <3> QED
      BY <3>2, <3>4, <2>3, <2>0
  <2>5. CASE x \notin todo[m]
    <3>1. WhyOf(m) # x
      <4>1. todo[m] \in {{}, {"eod"}, {"emergency"}} /\ x # "naked"
        BY DEF SessionsKnown, Reasons
      <4> QED
        BY <4>1, <2>5 DEF WhyOf
    <3>2. Confirmed(x)' \subseteq Confirmed(x)
      BY <2>1, <3>1 DEF Confirmed, TypeOK
    <3>3. C(x)' <= C(x) /\ H(x)' <= H(x)
      BY <3>2, <2>2, <1>2, Fewer
    <3> HIDE DEF H, C, F
    <3> QED
      BY <3>3, <2>3, <2>0
  <2> QED
    BY <2>4, <2>5
<1>9. ASSUME NEW m \in Monitors, NEW k \in Markets, CloseLost(m, k) PROVE P
  <2>1. /\ at[m] = "sending" /\ why' = [why EXCEPT ![k] = WhyOf(m)] /\ lost' = lost \cup {k}
        /\ Goto(m, "commit", Unprotected(now[m])) /\ FreeLock(m) /\ expired' = expired
    BY <1>9 DEF CloseLost, SendMarket
  <2>2. \A x \in Reasons : Confirmed(x)' \subseteq Confirmed(x)
    BY <2>1 DEF Confirmed, TypeOK
  <2> QED
    BY <2>1, <2>2, <1>7
<1>10. ASSUME NEW m \in Monitors, StartPass(m) \/ Skip(m) \/ NakedStop(m) \/ CloseRefused(m) PROVE P
  <2>1. CASE StartPass(m)
    BY <2>1, <1>0, <1>5 DEF StartPass, broker
  <2>2. CASE Skip(m)
    BY <2>2, <1>0, <1>4 DEF Skip, broker
  <2>3. CASE NakedStop(m)
    <3> SUFFICES ASSUME NEW x \in Reasons PROVE H(x)' + C(x)' + F(x)' <= 1 + expired'[x]
      BY DEF LocksCounted
    <3>0. /\ H(x) \in Nat /\ C(x) \in Nat /\ H(x)' \in Nat /\ C(x)' \in Nat
          /\ F(x) \in {0, 1} /\ F(x)' \in {0, 1} /\ expired[x] \in Nat
          /\ H(x) + C(x) + F(x) <= 1 + expired[x]
      BY <1>0, <1>1, <1>2
    <3>1. Holders(x)' \subseteq Holders(x) /\ Confirmed(x)' = Confirmed(x)
      BY <2>3, <1>0 DEF NakedStop, Goto, Holders, Confirmed, TypeOK, broker
    <3>2. H(x)' <= H(x)
      BY <3>1, <1>2, Fewer
    <3>3. C(x)' = C(x) /\ F(x)' = F(x) /\ expired' = expired
      BY <3>1, <2>3 DEF NakedStop, locks
    <3> HIDE DEF H, C, F
    <3> QED
      BY <3>2, <3>3, <3>0
  <2>4. CASE CloseRefused(m)
    <3>1. \A x \in Reasons : Confirmed(x)' \subseteq Confirmed(x)
      BY <2>4 DEF CloseRefused, broker, Confirmed
    <3> QED
      BY <3>1, <2>4, <1>7 DEF CloseRefused
  <2> QED
    BY <1>10, <2>1, <2>2, <2>3, <2>4
<1>11. ASSUME NEW m \in Monitors, NEW r \in Reasons, TakeLock(m, r) PROVE P
  <2> SUFFICES ASSUME NEW x \in Reasons PROVE H(x)' + C(x)' + F(x)' <= 1 + expired'[x]
    BY DEF LocksCounted
  <2>0. /\ H(x) \in Nat /\ C(x) \in Nat /\ H(x)' \in Nat /\ C(x)' \in Nat
        /\ F(x) \in {0, 1} /\ F(x)' \in {0, 1} /\ expired[x] \in Nat
        /\ H(x) + C(x) + F(x) <= 1 + expired[x]
    BY <1>0, <1>1, <1>2
  <2>1. /\ ~lock[r] /\ lock' = [lock EXCEPT ![r] = TRUE] /\ expired' = expired
        /\ Confirmed(x)' = Confirmed(x) /\ at[m] = "checking" /\ r \in todo[m]
        /\ Goto(m, "sending", now[m])
    BY <1>11 DEF TakeLock, broker, Confirmed
  <2>2. Holders(x)' \subseteq Holders(x) \cup {m}
    BY <2>1, <1>0 DEF Goto, Holders, TypeOK
  <2>3. CASE x = r
    <3>1. H(x)' <= H(x) + 1
      BY <2>2, <1>2, OneMore
    <3>2. F(x) = 1 /\ F(x)' = 0 /\ C(x)' = C(x)
      BY <2>1, <2>3 DEF TypeOK
    <3> HIDE DEF H, C, F
    <3> QED
      BY <3>1, <3>2, <2>1, <2>0
  <2>4. CASE x # r
    <3>1. x \notin todo[m]
      BY <2>1, <2>4 DEF SessionsKnown
    <3>2. Holders(x)' \subseteq Holders(x)
      BY <3>1, <2>1, <1>0 DEF Goto, Holders, TypeOK
    <3>3. H(x)' <= H(x)
      BY <3>2, <1>2, Fewer
    <3>4. F(x)' = F(x) /\ C(x)' = C(x)
      BY <2>1, <2>4 DEF TypeOK
    <3> HIDE DEF H, C, F
    <3> QED
      BY <3>3, <3>4, <2>1, <2>0
  <2> QED
    BY <2>3, <2>4
<1>12. ASSUME NEW r \in Reasons, Expire(r) PROVE P
  <2> SUFFICES ASSUME NEW x \in Reasons PROVE H(x)' + C(x)' + F(x)' <= 1 + expired'[x]
    BY DEF LocksCounted
  <2>0. /\ H(x) \in Nat /\ C(x) \in Nat /\ H(x)' \in Nat /\ C(x)' \in Nat
        /\ F(x) \in {0, 1} /\ F(x)' \in {0, 1} /\ expired[x] \in Nat
        /\ H(x) + C(x) + F(x) <= 1 + expired[x]
    BY <1>0, <1>1, <1>2
  <2>1. H(x)' = H(x) /\ C(x)' = C(x)
    BY <1>12 DEF Expire, Holders, Confirmed, broker, sessions
  <2>2. F(x)' + expired[x] <= F(x) + expired'[x] /\ F(x)' \in {0, 1} /\ expired'[x] \in Nat
    BY <1>12, <1>0 DEF Expire, TypeOK
  <2>3. F(x) \in {0, 1}
    OBVIOUS
  <2> HIDE DEF H, C, F
  <2> QED
    BY <2>1, <2>2, <2>3, <2>0
<1>13. (Reconcile => P) /\ (FindStale => P)
  BY <1>0, <1>5 DEF Reconcile, FindStale, broker
<1>14. AskBroker => P
  <2> SUFFICES ASSUME AskBroker PROVE P
    OBVIOUS
  <2>1. UNCHANGED <<at, why, lost, locks>> /\ \A m \in Monitors : todo'[m] = todo[m]
    BY <1>0 DEF AskBroker, Asked, AskEntry, AskLeg, broker, TypeOK
  <2> QED
    BY <2>1, <1>3
<1>15. CancelStale => P
  <2> SUFFICES ASSUME CancelStale PROVE P
    OBVIOUS
  <2>1. UNCHANGED <<why, lost, locks, todo>> /\ \A m \in Monitors : at'[m] = at[m]
    BY <1>0 DEF CancelStale, Goto, TypeOK
  <2> QED
    BY <2>1, <1>3
<1>16. CancelFails => P
  BY <1>0, <1>4 DEF CancelFails
<1>17. \A s \in Sessions : Commit(s) \/ Crash(s) => P
  BY <1>4 DEF Commit, Crash, broker
<1>18. (\A o \in Orders : Fill(o) \/ Die(o) => P) /\ (\A u \in Updates : Webhook(u) => P)
       /\ (Halt \/ SquareOffTime => P) /\ (UNCHANGED vars => P)
  BY <1>3 DEF Fill, Die, Webhook, Halt, SquareOffTime, vars, sessions, broker
<1> HIDE DEF P, LiveInv
<1>19. P
  BY NextCases, <1>8, <1>9, <1>10, <1>11, <1>12, <1>13, <1>14, <1>15, <1>16, <1>17, <1>18, Zenon
<1> QED
  BY <1>19 DEF P

(* A lock lets one closing order through, and one more per expiry, for any *)
(* number of monitors, crashes, refusals and lost answers                  *)
(* (trade_monitor_worker._check_live_trades).                              *)
THEOREM ClosesOncePerLock == Spec => []OneClosePerLock
<1>1. Init => LocksCounted
  <2> SUFFICES ASSUME Init, NEW r \in Reasons
               PROVE Cardinality(Holders(r)) + Cardinality(Confirmed(r)) + (IF lock[r] THEN 0 ELSE 1)
                       <= 1 + expired[r]
    BY DEF LocksCounted
  <2>1. \A m \in Monitors : at[m] = "idle"
    BY DEF Init, Sessions
  <2>2. \A k \in Markets : why[k] # r
    BY DEF Init, Reasons
  <2>3. Holders(r) = {} /\ Confirmed(r) = {}
    BY <2>1, <2>2 DEF Holders, Confirmed
  <2>4. Cardinality({}) = 0 /\ ~lock[r] /\ expired[r] = 0
    BY FS_EmptySet DEF Init
  <2> QED
    BY <2>3, <2>4
<1>2. LiveInv /\ LocksCounted /\ [Next]_vars => LocksCounted'
  BY LocksStep
<1>3. LiveInv /\ LocksCounted => OneClosePerLock
  <2> SUFFICES ASSUME LiveInv, LocksCounted, NEW r \in Reasons
               PROVE Cardinality(Confirmed(r)) <= 1 + expired[r]
    BY DEF OneClosePerLock
  <2>1. expired[r] \in Nat /\ Cardinality(Holders(r)) \in Nat /\ Cardinality(Confirmed(r)) \in Nat
    BY CountsFinite DEF LiveInv, TypeOK
  <2>2. Cardinality(Holders(r)) + Cardinality(Confirmed(r)) + (IF lock[r] THEN 0 ELSE 1) <= 1 + expired[r]
    BY DEF LocksCounted
  <2> QED
    BY <2>1, <2>2
<1> QED
  BY <1>1, <1>2, <1>3, Invariance, PTL DEF Spec

-----------------------------------------------------------------------------
(* A step writes the row or moves the broker, never both.                  *)
LEMMA RowOrBroker ==
  ASSUME LiveInv, [Next]_vars
  PROVE  \/ row' = row
         \/ /\ UNCHANGED broker
            /\ row'.status = row.status \/ (row'.status # "PENDING" /\ Earned(row'.status))
<1> USE DEF LiveInv
<1> DEFINE P == \/ row' = row
                \/ /\ UNCHANGED broker
                   /\ row'.status = row.status \/ (row'.status # "PENDING" /\ Earned(row'.status))
<1>1. row' = row => P
  OBVIOUS
<1>2. ASSUME NEW u \in Updates, Webhook(u) PROVE P
  BY <1>2, WebhookRow DEF Webhook
<1>3. ASSUME NEW s \in Sessions, Commit(s) \/ Crash(s) PROVE P
  <2>1. CASE Commit(s)
    <3>1. row \in Rows /\ seen[s] \in Rows /\ now[s] \in Rows
      BY DEF TypeOK
    <3>2. row' = Merge(row, seen[s], now[s]) /\ UNCHANGED broker
      BY <2>1 DEF Commit
    <3>3. now[s].status = seen[s].status \/ Earned(now[s].status)
      BY DEF WritesEarned
    <3>4. row'.status = row.status \/ (row'.status = now[s].status /\ Earned(now[s].status))
      BY <3>1, <3>2, <3>3, RowsMerge
    <3>5. ~Earned("PENDING")
      BY DEF Earned
    <3> QED
      BY <3>2, <3>4, <3>5
  <2>2. CASE Crash(s)
    BY <2>2 DEF Crash
  <2> QED
    BY <1>3, <2>1, <2>2
<1>4. (\A o \in Orders : Fill(o) \/ Die(o) => P)
      /\ (Reconcile => P) /\ (AskBroker => P)
      /\ (FindStale => P) /\ (CancelStale => P) /\ (CancelFails => P)
  BY <1>1 DEF Fill, Die, Reconcile, AskBroker, FindStale, CancelStale, CancelFails
<1>5. (\A m \in Monitors : StartPass(m) \/ Skip(m) \/ NakedStop(m) \/ CloseRefused(m) => P)
      /\ (\A m \in Monitors, r \in Reasons : TakeLock(m, r) => P)
      /\ (\A m \in Monitors, k \in Markets : CloseSent(m, k) \/ CloseLost(m, k) => P)
  BY <1>1 DEF StartPass, Skip, NakedStop, CloseRefused, TakeLock, CloseSent, CloseLost
<1>6. (\A r \in Reasons : Expire(r) => P) /\ (Halt \/ SquareOffTime => P) /\ (UNCHANGED vars => P)
  BY <1>1 DEF Expire, Halt, SquareOffTime, vars
<1> HIDE DEF P, LiveInv
<1>7. P
  BY NextCases, <1>2, <1>3, <1>4, <1>5, <1>6, Zenon
<1> QED
  BY <1>7 DEF P

(* The rows follow the broker: LiveOrders implements LiveTradeLife, for any *)
(* number of monitors, shares and market orders, with every job, webhook    *)
(* and pass writing late what it read or was told early                     *)
(* (execution_manager.reconcile_orders, handle_webhook,                     *)
(* cancel_stale_pending_orders).                                            *)
THEOREM RowsFollowTheBroker == Spec => ImplementsLife
<1> DEFINE L == CASE row.status = "PENDING" -> "waiting"
                  [] row.status = "OPEN" -> "holding"
                  [] row.status = "CLOSED" -> "closed"
                  [] row.status = "CANCELLED" -> "cancelled"
           B == filled[Entry] > 0
           D == state[Entry] = "dead"
<1>1. Init => Life!Init
  <2> SUFFICES ASSUME Init PROVE Life!Init
    OBVIOUS
  <2>1. LiveInv /\ row.status \in {"PENDING", "OPEN"}
    BY InitInv, OrdersAssumption, StartRowsType DEF Init
  <2>2. row.status = "OPEN" => B
    BY <2>1 DEF LiveInv, WritesEarned, Earned
  <2>3. B \in BOOLEAN /\ D \in BOOLEAN /\ ExitDone \in BOOLEAN /\ asked \in BOOLEAN
    BY <2>1 DEF LiveInv, TypeOK, ExitDone
  <2> QED
    BY <2>1, <2>2, <2>3 DEF Life!Init
<1>2. LiveInv /\ [Next]_vars => [Life!Next]_(Life!trade)
  <2> SUFFICES ASSUME LiveInv, [Next]_vars PROVE [Life!Next]_(Life!trade)
    OBVIOUS
  <2>1. CASE row' = row
    <3>1. /\ B => B'
          /\ D => D' /\ B' = B
          /\ ExitDone => ExitDone'
          /\ asked => asked'
      BY BrokerMonotone DEF ExitDone
    <3>2. B' \in BOOLEAN /\ D' \in BOOLEAN /\ ExitDone' \in BOOLEAN /\ asked' \in BOOLEAN
      BY TypeStep DEF TypeOK, ExitDone
    <3>3. L' = L
      BY <2>1
    <3> QED
      BY <3>1, <3>2, <3>3 DEF Life!Next, Life!Broker
  <2>2. CASE UNCHANGED broker /\ row'.status = row.status
    <3>1. L' = L /\ B' = B /\ D' = D /\ ExitDone' = ExitDone /\ asked' = asked
      BY <2>2 DEF broker, ExitDone
    <3> QED
      BY <3>1 DEF Life!trade
  <2>3. CASE UNCHANGED broker /\ row'.status # "PENDING" /\ Earned(row'.status)
    <3>1. B' = B /\ D' = D /\ ExitDone' = ExitDone /\ asked' = asked
      BY <2>3 DEF broker, ExitDone
    <3>2. \/ row'.status = "OPEN" /\ B
          \/ row'.status = "CLOSED" /\ (ExitDone \/ (D /\ ~B))
          \/ row'.status = "CANCELLED" /\ asked
      <4>1. filled[Entry] = 0 => ~B
        OBVIOUS
      <4> QED
        BY <2>3, <4>1 DEF Earned
    <3>3. \/ L' = "holding" /\ B
          \/ L' = "closed" /\ (ExitDone \/ (D /\ ~B))
          \/ L' = "cancelled" /\ asked
      BY <3>2
    <3> QED
      BY <3>1, <3>3 DEF Life!Next, Life!Hold, Life!Close, Life!Cancel, Life!Write
  <2> QED
    BY <2>1, <2>2, <2>3, RowOrBroker
<1> QED
  BY <1>1, <1>2, Invariance, PTL DEF Spec, ImplementsLife, Life!Spec

-----------------------------------------------------------------------------
(* What is sold is bought.  A closing order is as large as the quantity    *)
(* its pass read in the row, and the quantity of an OPEN row was bought,   *)
(* unless it is that of a protection order (PartialFill).  The quantity    *)
(* travels: from the broker or an update into the row, from the row into a *)
(* session, from a session into an order, and from the reconciler into the *)
(* row again, later and over whatever was written in between.              *)

LegFilled == \E o \in Legs : filled[o] > 0
Bought(n) == n <= filled[Entry] \/ LegFilled

RowBought ==
    /\ row.status = "PENDING" => row.qty = Qty
    /\ row.status = "OPEN" => Bought(row.qty)
SessionsBought ==
    /\ \A s \in Sessions \ {"reconciler"} : now[s].qty = seen[s].qty
    /\ now["timeouts"].status \in {seen["timeouts"].status, "CANCELLED"}
    /\ \A m \in Monitors : at[m] # "idle" => Bought(now[m].qty)

\* d and l are the row as the reconciler holds it and as it was loaded.
Answered(d, l) ==
    \/ d.qty = l.qty /\ (d.status \in {l.status, "CLOSED"} \/ filled[Entry] = Qty)
    \/ d.qty # l.qty /\ d.status = "OPEN" /\ l.status = "PENDING" /\ d.qty <= filled[Entry]
ReconcilerBought ==
    /\ seen["reconciler"].status = "PENDING" => seen["reconciler"].qty = Qty
    /\ Entry \in todo["reconciler"] => seen["reconciler"].status = "PENDING"
    /\ todo["reconciler"] # {} => now["reconciler"] = seen["reconciler"]
    /\ Answered(now["reconciler"], seen["reconciler"])
OrdersBought ==
    /\ size[Entry] = Qty
    /\ \A k \in Markets : filled[k] <= size[k]
    /\ \A k \in Markets : state[k] # "unsent" => Bought(size[k]) /\ why[k] # "unsent"

QtysBought == RowBought /\ SessionsBought /\ ReconcilerBought /\ OrdersBought

LEMMA FilledGrows ==
  ASSUME LiveInv, [Next]_vars
  PROVE  \A o \in Orders : filled[o] \in Nat /\ filled'[o] \in Nat /\ filled[o] <= filled'[o]
<1> USE Names DEF LiveInv
<1> DEFINE P == \A o \in Orders : filled[o] <= filled'[o]
<1>0. \A o \in Orders : filled[o] \in Nat
  BY DEF TypeOK
<1>1. filled' = filled => P
  BY <1>0
<1>2. ASSUME NEW o \in Orders, Fill(o) \/ Die(o) PROVE P
  BY <1>0, <1>2 DEF Fill, Die, TypeOK
<1>3. (CancelStale => P) /\ (CancelFails => P)
  BY <1>1 DEF CancelStale, CancelFails
<1>4. ASSUME NEW m \in Monitors, NEW k \in Markets, CloseSent(m, k) \/ CloseLost(m, k) PROVE P
  BY <1>1, <1>4 DEF CloseSent, CloseLost, SendMarket
<1>5. \A u \in Updates : Webhook(u) => P
  BY <1>1 DEF Webhook, broker
<1>6. (Reconcile => P) /\ (AskBroker => P) /\ (FindStale => P)
  BY <1>1 DEF Reconcile, AskBroker, FindStale, broker
<1>7. \A s \in Sessions : Commit(s) \/ Crash(s) => P
  BY <1>1 DEF Commit, Crash, broker
<1>8. \A m \in Monitors : StartPass(m) \/ Skip(m) \/ NakedStop(m) \/ CloseRefused(m) => P
  BY <1>1 DEF StartPass, Skip, NakedStop, CloseRefused, broker
<1>9. \A m \in Monitors, r \in Reasons : TakeLock(m, r) => P
  BY <1>1 DEF TakeLock, broker
<1>10. (\A r \in Reasons : Expire(r) => P) /\ (Halt \/ SquareOffTime => P) /\ (UNCHANGED vars => P)
  BY <1>1 DEF Expire, Halt, SquareOffTime, vars, broker
<1>11. P
  <2> HIDE DEF P, LiveInv
  <2> QED
    BY NextCases, <1>2, <1>3, <1>4, <1>5, <1>6, <1>7, <1>8, <1>9, <1>10, Zenon
<1>12. \A o \in Orders : filled'[o] \in Nat
  BY TypeStep DEF TypeOK
<1> QED
  BY <1>0, <1>11, <1>12

\* What was bought stays bought.
LEMMA BoughtStays ==
  ASSUME LiveInv, [Next]_vars, NEW n \in Int, Bought(n)
  PROVE  n <= filled'[Entry] \/ LegFilled'
<1>1. Entry \in Orders /\ Legs \subseteq Orders
  BY DEF Orders, Exits
<1> QED
  BY <1>1, FilledGrows DEF Bought, LegFilled

LEMMA OrdersBoughtStep ==
  ASSUME LiveInv, QtysBought, [Next]_vars
  PROVE  OrdersBought'
<1> USE Names
<1> DEFINE P == OrdersBought'
<1>0. Entry \in Orders /\ Markets \subseteq Orders /\ Entry \notin Markets
  BY DEF Orders, Exits
<1>1. \A k \in Markets : size[k] \in Int
  BY <1>0 DEF LiveInv, TypeOK
<1>2. ASSUME size' = size, why' = why, \A k \in Markets : state'[k] # "unsent" => state[k] # "unsent",
             \A k \in Markets : filled'[k] <= size[k]
      PROVE  P
  BY <1>1, <1>2, BoughtStays DEF QtysBought, OrdersBought, Bought
<1>3. UNCHANGED <<state, size, filled, why>> => P
  BY <1>2 DEF QtysBought, OrdersBought
<1>4. ASSUME NEW o \in Orders, Fill(o) \/ Die(o) PROVE P
  <2>1. \A k \in Markets : state'[k] # "unsent" => state[k] # "unsent"
    BY <1>0, <1>4 DEF Fill, Die, LiveInv, TypeOK
  <2>2. \A k \in Markets : filled'[k] <= size[k]
    BY <1>0, <1>1, <1>4 DEF Fill, Die, LiveInv, TypeOK, OrdersKnown, QtysBought, OrdersBought
  <2> QED
    BY <1>2, <1>4, <2>1, <2>2 DEF Fill, Die
<1>5. ASSUME NEW m \in Monitors, NEW k \in Markets, CloseSent(m, k) \/ CloseLost(m, k) PROVE P
  <2>1. /\ state[k] = "unsent" /\ state' = [state EXCEPT ![k] = "open"]
        /\ size' = [size EXCEPT ![k] = now[m].qty] /\ filled' = filled
        /\ at[m] = "sending" /\ why' = [why EXCEPT ![k] = WhyOf(m)]
    BY <1>5 DEF CloseSent, CloseLost, SendMarket, Unsent
  <2>2. m \in Sessions /\ now[m].qty \in 1..Qty
    BY DEF Sessions, LiveInv, TypeOK, Rows
  <2>3. now[m].qty <= filled'[Entry] \/ LegFilled'
    BY <2>1, <2>2, BoughtStays DEF QtysBought, SessionsBought
  <2>4. ASSUME NEW j \in Markets
        PROVE  /\ filled'[j] <= size'[j]
               /\ state'[j] # "unsent" => size'[j] <= filled'[Entry] \/ LegFilled'
               /\ state'[j] # "unsent" => why'[j] # "unsent"
    <3>1. CASE j = k
      <4>1. size'[j] = now[m].qty /\ filled[j] = 0
        BY <1>0, <2>1, <3>1 DEF LiveInv, TypeOK, OrdersKnown
      <4>2. why'[j] = WhyOf(m)
        BY <2>1, <3>1 DEF LiveInv, TypeOK
      <4>3. WhyOf(m) # "unsent"
        BY DEF WhyOf, LiveInv, SessionsKnown
      <4> QED
        BY <4>1, <4>2, <4>3, <2>1, <2>2, <2>3
    <3>2. CASE j # k
      <4>1. state'[j] = state[j] /\ size'[j] = size[j] /\ why'[j] = why[j]
        BY <1>0, <2>1, <3>2 DEF LiveInv, TypeOK
      <4> QED
        BY <1>1, <2>1, <4>1, BoughtStays DEF QtysBought, OrdersBought
    <3> QED
      BY <3>1, <3>2
  <2>5. size'[Entry] = Qty
    BY <1>0, <2>1 DEF LiveInv, TypeOK, QtysBought, OrdersBought
  <2> QED
    BY <2>4, <2>5 DEF OrdersBought, Bought
<1>6. (CancelStale => P) /\ (CancelFails => P)
  BY <1>3 DEF CancelStale, CancelFails
<1>7. \A u \in Updates : Webhook(u) => P
  BY <1>3 DEF Webhook, broker
<1>8. (Reconcile => P) /\ (AskBroker => P) /\ (FindStale => P)
  BY <1>3 DEF Reconcile, AskBroker, FindStale, broker
<1>9. \A s \in Sessions : Commit(s) \/ Crash(s) => P
  BY <1>3 DEF Commit, Crash, broker
<1>10. \A m \in Monitors : StartPass(m) \/ Skip(m) \/ NakedStop(m) \/ CloseRefused(m) => P
  BY <1>3 DEF StartPass, Skip, NakedStop, CloseRefused, broker
<1>11. \A m \in Monitors, r \in Reasons : TakeLock(m, r) => P
  BY <1>3 DEF TakeLock, broker
<1>12. (\A r \in Reasons : Expire(r) => P) /\ (Halt \/ SquareOffTime => P) /\ (UNCHANGED vars => P)
  BY <1>3 DEF Expire, Halt, SquareOffTime, vars, broker
<1> HIDE DEF P
<1>13. P
  BY NextCases, <1>4, <1>5, <1>6, <1>7, <1>8, <1>9, <1>10, <1>11, <1>12, Zenon
<1> QED
  BY <1>13 DEF P

\* What an update says of the entry or of a closing order was bought.
LEMMA UpdateBought ==
  ASSUME LiveInv, QtysBought, NEW u \in Updates
  PROVE  u.filled \in Int /\ Bought(u.filled)
<1> USE Names
<1>1. PICK o \in Orders : u.filled <= filled[o] /\ u.filled \in Int
  BY DEF Updates, Update, LiveInv, TypeOK
<1>2. filled[o] \in Nat /\ filled[Entry] \in Nat
  BY DEF LiveInv, TypeOK, Orders
<1>3. CASE u.filled <= 0
  BY <1>1, <1>2, <1>3 DEF Bought
<1>4. CASE u.filled > 0 /\ o = Entry
  BY <1>1, <1>2, <1>4 DEF Bought
<1>5. CASE u.filled > 0 /\ o \in Legs
  BY <1>1, <1>2, <1>5 DEF Bought, LegFilled
<1>6. CASE u.filled > 0 /\ o \in Markets
  <2>1. filled[o] > 0 /\ state[o] # "unsent" /\ size[o] \in Int
    BY <1>1, <1>2, <1>6 DEF LiveInv, OrdersKnown, TypeOK
  <2>2. Bought(size[o]) /\ filled[o] <= size[o]
    BY <1>6, <2>1 DEF QtysBought, OrdersBought
  <2> QED
    BY <1>1, <1>2, <2>1, <2>2 DEF Bought
<1> QED
  BY <1>1, <1>3, <1>4, <1>5, <1>6 DEF Orders, Exits

\* A commit writes the quantity and the status, each only if it changed.
LEMMA MergedColumns ==
  ASSUME NEW db \in Rows, NEW old \in Rows, NEW new \in Rows
  PROVE  /\ Merge(db, old, new).qty = IF new.qty # old.qty THEN new.qty ELSE db.qty
         /\ Merge(db, old, new).status = IF new.status # old.status THEN new.status ELSE db.status
<1>1. DOMAIN db = {"status", "qty", "entry", "sl", "tgt"}
  BY DEF Rows
<1> QED
  BY <1>1 DEF Merge

LEMMA RowBoughtStep ==
  ASSUME LiveInv, QtysBought, [Next]_vars
  PROVE  RowBought'
<1> USE Names
<1> DEFINE P == RowBought'
<1>0. /\ row \in Rows /\ row.qty \in 1..Qty /\ row' \in Rows /\ row'.qty \in 1..Qty
      /\ filled[Entry] \in Nat
  BY TypeStep DEF LiveInv, TypeOK, Rows, Orders
<1>1. ASSUME row'.qty = row.qty,
             row'.status = "PENDING" => row.status = "PENDING",
             row'.status = "OPEN" => row.status = "OPEN"
      PROVE  P
  BY <1>0, <1>1, BoughtStays DEF QtysBought, RowBought, Bought
<1>2. ASSUME row'.status = "OPEN", Bought(row'.qty) PROVE P
  <2>1. PICK n \in Int : n = row'.qty
    BY <1>0
  <2>2. n <= filled'[Entry] \/ LegFilled'
    BY <2>1, <1>2, BoughtStays
  <2> QED
    BY <1>2, <2>1, <2>2 DEF RowBought, Bought
<1>3. row' = row => P
  BY <1>1
<1>4. ASSUME NEW u \in Updates, Webhook(u) PROVE P
  <2>1. CASE OpenWith(u.filled)
    <3>1. row'.status = "OPEN" /\ row'.qty = u.filled
      <4>1. Unprotected(row) \in [status : Statuses, qty : 1..Qty, entry : {Entry, NoId},
                                  sl : {NoId}, tgt : {NoId}]
        BY <1>0 DEF Unprotected, Rows
      <4> QED
        BY <2>1, <4>1 DEF OpenWith
    <3> QED
      BY <3>1, <1>2, UpdateBought
  <2>2. CASE row' = [row EXCEPT !.status = "CLOSED"]
    <3>1. row'.status = "CLOSED"
      BY <1>0, <2>2 DEF Rows
    <3> QED
      BY <3>1 DEF RowBought
  <2>3. CASE LegCancelled(u)
    <3>1. row'.status = row.status /\ row'.qty = row.qty
      BY <1>0, <2>3 DEF LegCancelled, Rows
    <3> QED
      BY <3>1, <1>1
  <2>4. CASE row' = row
    BY <2>4, <1>3
  <2> QED
    BY <1>4, <2>1, <2>2, <2>3, <2>4
       DEF Webhook, LegComplete, EntryComplete, PartialFill, EntryCancelled
<1>5. ASSUME NEW s \in Sessions, Commit(s) \/ Crash(s) PROVE P
  <2>1. CASE Crash(s)
    BY <2>1, <1>3 DEF Crash
  <2>2. CASE Commit(s)
    <3>1. PICK n \in Rows, l \in Rows : n = now[s] /\ l = seen[s]
      BY DEF LiveInv, TypeOK
    <3>2. /\ row'.qty = IF n.qty # l.qty THEN n.qty ELSE row.qty
          /\ row'.status = IF n.status # l.status THEN n.status ELSE row.status
      BY <2>2, <3>1, <1>0, MergedColumns DEF Commit
    <3>3. n.status # l.status => n.status # "PENDING"
      <4>1. n.status = l.status \/ Earned(n.status)
        BY <3>1 DEF LiveInv, WritesEarned
      <4> QED
        BY <4>1 DEF Earned
    <3>4. CASE s \in Monitors
      <4>1. s # "reconciler" /\ at[s] # "idle"
        BY <2>2, <3>4 DEF Commit
      <4>2. n.qty = l.qty /\ n.status = l.status
        BY <3>1, <3>4, <4>1 DEF LiveInv, SessionsKnown, QtysBought, SessionsBought
      <4> QED
        BY <3>2, <4>2, <1>1
    <3>5. CASE s = "timeouts"
      <4>1. n.qty = l.qty /\ n.status \in {l.status, "CANCELLED"}
        BY <3>1, <3>5 DEF QtysBought, SessionsBought
      <4> QED
        BY <3>2, <4>1, <1>1
    <3>6. CASE s = "reconciler"
      <4>1. Answered(n, l)
        BY <3>1, <3>6 DEF QtysBought, ReconcilerBought
      <4>2. CASE n.qty = l.qty /\ n.status \in {l.status, "CLOSED"}
        BY <3>2, <4>2, <1>1
      <4>3. CASE n.qty = l.qty /\ filled[Entry] = Qty
        <5>1. row'.qty = row.qty /\ Bought(row'.qty)
          BY <3>2, <4>3, <1>0 DEF Bought
        <5>2. CASE row'.status = "OPEN"
          BY <5>1, <5>2, <1>2
        <5>3. CASE row'.status # "OPEN"
          BY <3>2, <3>3, <5>1, <5>3, <1>1
        <5> QED
          BY <5>2, <5>3
      <4>4. CASE n.qty # l.qty /\ n.status = "OPEN" /\ l.status = "PENDING"
                 /\ n.qty <= filled[Entry]
        BY <3>2, <4>4, <1>2 DEF Bought
      <4> QED
        BY <4>1, <4>2, <4>3, <4>4 DEF Answered
    <3> QED
      BY <3>4, <3>5, <3>6 DEF Sessions, Jobs
  <2> QED
    BY <1>5, <2>1, <2>2
<1>6. (\A o \in Orders : Fill(o) \/ Die(o) => P)
      /\ (Reconcile => P) /\ (AskBroker => P)
      /\ (FindStale => P) /\ (CancelStale => P) /\ (CancelFails => P)
  BY <1>3 DEF Fill, Die, Reconcile, AskBroker, FindStale, CancelStale, CancelFails
<1>7. (\A m \in Monitors : StartPass(m) \/ Skip(m) \/ NakedStop(m) \/ CloseRefused(m) => P)
      /\ (\A m \in Monitors, r \in Reasons : TakeLock(m, r) => P)
      /\ (\A m \in Monitors, k \in Markets : CloseSent(m, k) \/ CloseLost(m, k) => P)
  BY <1>3 DEF StartPass, Skip, NakedStop, CloseRefused, TakeLock, CloseSent, CloseLost
<1>8. (\A r \in Reasons : Expire(r) => P) /\ (Halt \/ SquareOffTime => P) /\ (UNCHANGED vars => P)
  BY <1>3 DEF Expire, Halt, SquareOffTime, vars
<1> HIDE DEF P
<1>9. P
  BY NextCases, <1>4, <1>5, <1>6, <1>7, <1>8, Zenon
<1> QED
  BY <1>9 DEF P

\* A step gives at most one session another row to hold.
LEMMA SessionsBoughtStep ==
  ASSUME LiveInv, QtysBought, [Next]_vars
  PROVE  SessionsBought'
<1> USE Names
<1> DEFINE P == SessionsBought'
           G(n) == n <= filled'[Entry] \/ LegFilled'
<1>0. /\ "reconciler" \in Sessions /\ "timeouts" \in Sessions /\ Monitors \subseteq Sessions
      /\ "reconciler" # "timeouts" /\ Entry \in Orders
      /\ \A s \in Sessions : now[s] \in Rows /\ seen[s] \in Rows
      /\ Blank \in Rows
      /\ \A r \in Rows : r.qty \in Int
      /\ row \in Rows
  BY StartRowsType DEF Sessions, Jobs, Orders, LiveInv, TypeOK, Rows
<1>1. \A n \in Int : Bought(n) => G(n)
  BY BoughtStays
<1> HIDE DEF G
\* What has to be said of one session.
<1> DEFINE K(s) == /\ s # "reconciler" => now'[s].qty = seen'[s].qty
                   /\ s = "timeouts" => now'[s].status \in {seen'[s].status, "CANCELLED"}
                   /\ s \in Monitors => at'[s] = "idle" \/ G(now'[s].qty)
<1>2. (\A s \in Sessions : K(s)) => P
  BY <1>0 DEF SessionsBought, Bought, G
<1>3. ASSUME NEW s \in Sessions, at'[s] = at[s], now'[s] = now[s], seen'[s] = seen[s] PROVE K(s)
  BY <1>0, <1>1, <1>3 DEF QtysBought, SessionsBought
<1> HIDE DEF K, P
<1>4. UNCHANGED <<at, now, seen>> => P
  BY <1>2, <1>3
<1>5. ASSUME NEW s \in Sessions, K(s),
             \A z \in Sessions \ {s} : at'[z] = at[z] /\ now'[z] = now[z] /\ seen'[z] = seen[z]
      PROVE  P
  BY <1>2, <1>3, <1>5
<1>6. ASSUME NEW s \in Sessions, Leave(s) PROVE P
  <2>1. /\ \A z \in Sessions \ {s} : at'[z] = at[z] /\ now'[z] = now[z] /\ seen'[z] = seen[z]
        /\ at'[s] = "idle" /\ now'[s] = Blank /\ seen'[s] = Blank
    BY <1>6 DEF Leave, LiveInv, TypeOK
  <2> QED
    BY <2>1, <1>5 DEF K
<1>7. ASSUME NEW s \in Sessions, NEW next, NEW what, Load(s, next, what),
             s \in Monitors => row.status = "OPEN"
      PROVE  P
  <2>1. /\ \A z \in Sessions \ {s} : at'[z] = at[z] /\ now'[z] = now[z] /\ seen'[z] = seen[z]
        /\ now'[s] = row /\ seen'[s] = row
    BY <1>7 DEF Load, LiveInv, TypeOK
  <2>2. s \in Monitors => G(row.qty)
    BY <1>0, <1>1, <1>7 DEF QtysBought, RowBought
  <2> QED
    BY <2>1, <2>2, <1>5 DEF K
<1>8. ASSUME NEW s \in Sessions, NEW next, NEW r \in Rows, Goto(s, next, r), at[s] # "idle",
             r.qty = now[s].qty, r.status = now[s].status \/ r.status = "CANCELLED"
      PROVE  P
  <2>1. /\ \A z \in Sessions \ {s} : at'[z] = at[z] /\ now'[z] = now[z] /\ seen'[z] = seen[z]
        /\ now'[s] = r /\ seen'[s] = seen[s]
    BY <1>8 DEF Goto, LiveInv, TypeOK
  <2>2. K(s)
    BY <2>1, <1>0, <1>1, <1>8 DEF K, QtysBought, SessionsBought
  <2> QED
    BY <2>1, <2>2, <1>5
<1>9. (\A o \in Orders : Fill(o) \/ Die(o) => P) /\ (\A u \in Updates : Webhook(u) => P)
      /\ (\A r \in Reasons : Expire(r) => P) /\ (Halt \/ SquareOffTime => P) /\ (UNCHANGED vars => P)
  BY <1>4 DEF Fill, Die, Webhook, Expire, Halt, SquareOffTime, vars, sessions
<1>10. (Reconcile => P) /\ (FindStale => P)
  BY <1>0, <1>7 DEF Reconcile, FindStale
<1>11. AskBroker => P
  <2> SUFFICES ASSUME AskBroker PROVE P
    OBVIOUS
  <2>1. UNCHANGED <<at, seen>> /\ \A z \in Sessions \ {"reconciler"} : now'[z] = now[z]
    BY <1>0 DEF AskBroker, Asked, AskEntry, AskLeg, LiveInv, TypeOK
  <2>2. K("reconciler")
    BY <1>0 DEF K
  <2> QED
    BY <2>1, <2>2, <1>0, <1>5
<1>12. CancelStale => P
  <2> SUFFICES ASSUME CancelStale PROVE P
    OBVIOUS
  <2>1. PICK r \in Rows : r = [now["timeouts"] EXCEPT !.status = "CANCELLED"]
    BY <1>0 DEF Rows, Statuses
  <2>2. r.qty = now["timeouts"].qty /\ r.status = "CANCELLED"
    BY <1>0, <2>1 DEF Rows
  <2> QED
    BY <2>1, <2>2, <1>0, <1>8 DEF CancelStale
<1>13. CancelFails => P
  BY <1>0, <1>6 DEF CancelFails
<1>14. \A s \in Sessions : Commit(s) \/ Crash(s) => P
  BY <1>6 DEF Commit, Crash
<1>15. ASSUME NEW m \in Monitors
       PROVE  /\ Unprotected(now[m]) \in Rows
              /\ Unprotected(now[m]).qty = now[m].qty
              /\ Unprotected(now[m]).status = now[m].status
              /\ \A k \in Markets :
                   /\ [Unprotected(now[m]) EXCEPT !.tgt = k] \in Rows
                   /\ [Unprotected(now[m]) EXCEPT !.tgt = k].qty = now[m].qty
                   /\ [Unprotected(now[m]) EXCEPT !.tgt = k].status = now[m].status
  BY <1>0 DEF Unprotected, Rows
<1>16. ASSUME NEW m \in Monitors, StartPass(m) \/ Skip(m) \/ NakedStop(m) \/ CloseRefused(m) PROVE P
  <2>1. CASE StartPass(m)
    BY <2>1, <1>0, <1>7 DEF StartPass
  <2>2. CASE Skip(m)
    BY <2>2, <1>0, <1>6 DEF Skip
  <2>3. CASE NakedStop(m)
    BY <2>3, <1>0, <1>8 DEF NakedStop
  <2>4. CASE CloseRefused(m)
    BY <2>4, <1>0, <1>8, <1>15 DEF CloseRefused
  <2> QED
    BY <1>16, <2>1, <2>2, <2>3, <2>4
<1>17. ASSUME NEW m \in Monitors, NEW r \in Reasons, TakeLock(m, r) PROVE P
  BY <1>17, <1>0, <1>8 DEF TakeLock
<1>18. ASSUME NEW m \in Monitors, NEW k \in Markets, CloseSent(m, k) \/ CloseLost(m, k) PROVE P
  <2>1. PICK r \in Rows : /\ Goto(m, "commit", r) /\ at[m] = "sending"
                          /\ r.qty = now[m].qty /\ r.status = now[m].status
    BY <1>15, <1>18 DEF CloseSent, CloseLost
  <2> QED
    BY <2>1, <1>0, <1>8
<1>19. P
  BY NextCases, <1>9, <1>10, <1>11, <1>12, <1>13, <1>14, <1>16, <1>17, <1>18, Zenon
<1> QED
  BY <1>19 DEF P

LEMMA ReconcilerBoughtStep ==
  ASSUME LiveInv, QtysBought, [Next]_vars
  PROVE  ReconcilerBought'
<1> USE Names
<1> DEFINE P == ReconcilerBought'
<1>0. /\ "reconciler" \in Sessions /\ "timeouts" \in Sessions /\ Monitors \subseteq Sessions
      /\ "reconciler" # "timeouts" /\ Entry \in Orders
      /\ \A s \in Sessions : now[s] \in Rows /\ seen[s] \in Rows
      /\ Blank \in Rows /\ Blank.qty = Qty
      /\ \A r \in Rows : r.qty \in Int
      /\ row \in Rows /\ filled[Entry] \in 0..Qty
  BY StartRowsType DEF Sessions, Jobs, Orders, LiveInv, TypeOK, Rows, Blank, PendingRow
<1>1. filled[Entry] <= filled'[Entry] /\ filled'[Entry] \in 0..Qty
  BY <1>0, FilledGrows, TypeStep DEF TypeOK
<1>2. ASSUME NEW d \in Rows, NEW l \in Rows, Answered(d, l) PROVE Answered(d, l)'
  BY <1>0, <1>1, <1>2 DEF Answered
<1>3. ASSUME now'["reconciler"] = now["reconciler"], seen'["reconciler"] = seen["reconciler"],
             todo'["reconciler"] \subseteq todo["reconciler"]
      PROVE  P
  <2>1. PICK d \in Rows, l \in Rows : d = now["reconciler"] /\ l = seen["reconciler"]
    BY <1>0
  <2>2. d = now'["reconciler"] /\ l = seen'["reconciler"]
    BY <1>3, <2>1
  <2>3. \/ d.qty = l.qty /\ (d.status \in {l.status, "CLOSED"} \/ filled'[Entry] = Qty)
        \/ d.qty # l.qty /\ d.status = "OPEN" /\ l.status = "PENDING" /\ d.qty <= filled'[Entry]
    <3>1. Answered(d, l)
      BY <2>1 DEF QtysBought, ReconcilerBought
    <3>2. PICK a \in 0..Qty, b \in 0..Qty : a = filled[Entry] /\ b = filled'[Entry] /\ a <= b
      BY <1>0, <1>1
    <3>3. d.qty \in Int
      BY <1>0
    <3>4. d.qty <= a => d.qty <= b
      BY <3>2, <3>3
    <3>5. a = Qty => b = Qty
      BY <3>2
    <3>6. \/ d.qty = l.qty /\ (d.status \in {l.status, "CLOSED"} \/ a = Qty)
          \/ d.qty # l.qty /\ d.status = "OPEN" /\ l.status = "PENDING" /\ d.qty <= a
      BY <3>1, <3>2 DEF Answered
    <3>7. \/ d.qty = l.qty /\ (d.status \in {l.status, "CLOSED"} \/ b = Qty)
          \/ d.qty # l.qty /\ d.status = "OPEN" /\ l.status = "PENDING" /\ d.qty <= b
      BY <3>4, <3>5, <3>6
    <3> QED
      BY <3>2, <3>7
  <2>4. Answered(now["reconciler"], seen["reconciler"])'
    BY <2>2, <2>3 DEF Answered
  <2> QED
    BY <1>3, <2>4 DEF QtysBought, ReconcilerBought
<1>4. UNCHANGED sessions => P
  BY <1>3 DEF sessions
\* The reconciler holds what it loaded.
<1>5. ASSUME now'["reconciler"] = seen'["reconciler"],
             seen'["reconciler"].status = "PENDING" => seen'["reconciler"].qty = Qty,
             Entry \in todo'["reconciler"] => seen'["reconciler"].status = "PENDING"
      PROVE  P
  BY <1>5 DEF ReconcilerBought, Answered
<1>6. ASSUME NEW s \in Sessions, Leave(s) PROVE P
  <2>1. CASE s = "reconciler"
    <3>1. now'["reconciler"] = Blank /\ seen'["reconciler"] = Blank /\ todo'["reconciler"] = {}
      BY <1>6, <2>1, <1>0 DEF Leave, LiveInv, TypeOK
    <3> QED
      BY <3>1, <1>0, <1>5
  <2>2. CASE s # "reconciler"
    BY <1>6, <2>2, <1>0, <1>3 DEF Leave, LiveInv, TypeOK
  <2> QED
    BY <2>1, <2>2
<1>7. ASSUME NEW s \in Sessions, s # "reconciler", NEW next, NEW what, Load(s, next, what) PROVE P
  BY <1>0, <1>3, <1>7 DEF Load, LiveInv, TypeOK
<1>8. ASSUME NEW s \in Sessions, s # "reconciler", NEW next, NEW r, Goto(s, next, r) PROVE P
  BY <1>0, <1>3, <1>8 DEF Goto, LiveInv, TypeOK
<1>9. Reconcile => P
  <2> SUFFICES ASSUME Reconcile PROVE P
    OBVIOUS
  <2>1. /\ now'["reconciler"] = row /\ seen'["reconciler"] = row
        /\ todo'["reconciler"] = IF row.status = "OPEN" THEN Ids(row) ELSE {Entry}
        /\ row.status \in {"PENDING", "OPEN"}
    BY <1>0 DEF Reconcile, Load, LiveInv, TypeOK
  <2>2. Entry \notin Ids(row)
    BY <1>0 DEF Ids, Rows
  <2>3. row.status = "PENDING" => row.qty = Qty
    BY DEF QtysBought, RowBought
  <2> QED
    BY <2>1, <2>2, <2>3, <1>5
<1>10. AskBroker => P
  <2> SUFFICES ASSUME AskBroker PROVE P
    OBVIOUS
  <2>1. PICK l \in Rows : l = seen["reconciler"] /\ l = now["reconciler"] /\ l = seen'["reconciler"]
    <3>1. seen' = seen /\ now["reconciler"] = seen["reconciler"]
      BY DEF AskBroker, Asked, AskEntry, AskLeg, QtysBought, ReconcilerBought
    <3> QED
      BY <3>1, <1>0
  <2>2. l.status = "PENDING" => l.qty = Qty
    BY <2>1 DEF QtysBought, ReconcilerBought
  <2>3. NextToAsk \in todo["reconciler"]
    BY DEF AskBroker, NextToAsk
  <2>4. CASE \E o : Asked(o)
    <3>1. now' = now /\ seen' = seen /\ todo'["reconciler"] \subseteq todo["reconciler"]
      BY <2>4, <1>0 DEF Asked, LiveInv, TypeOK
    <3> QED
      BY <3>1, <1>3
  <2>5. ASSUME NEW d, now'["reconciler"] = d, todo'["reconciler"] = {},
               \/ d.qty = l.qty /\ (d.status \in {l.status, "CLOSED"} \/ filled'[Entry] = Qty)
               \/ /\ d.qty # l.qty /\ d.status = "OPEN" /\ l.status = "PENDING"
                  /\ d.qty <= filled'[Entry]
        PROVE  P
    <3>1. Answered(now["reconciler"], seen["reconciler"])'
      BY <2>1, <2>5 DEF Answered
    <3> QED
      BY <2>1, <2>2, <2>5, <3>1 DEF ReconcilerBought
  <2>6. ASSUME NEW new, now' = [now EXCEPT !["reconciler"] = new]
        PROVE  now'["reconciler"] = new
    BY <2>6, <1>0 DEF LiveInv, TypeOK
  <2> DEFINE closed == [l EXCEPT !.status = "CLOSED"]
             opened == [l EXCEPT !.status = "OPEN"]
             part == [l EXCEPT !.status = "OPEN", !.qty = filled[Entry]]
  <2>7. closed.qty = l.qty /\ closed.status = "CLOSED" /\ opened.qty = l.qty
        /\ part.qty = filled[Entry] /\ part.status = "OPEN"
    BY DEF Rows
  <2>8. CASE Entry \in todo["reconciler"] /\ AskEntry
    <3>1. todo'["reconciler"] = {} /\ filled' = filled /\ l.status = "PENDING"
      BY <2>1, <2>8, <1>0 DEF AskEntry, AskBroker, broker, LiveInv, TypeOK, QtysBought, ReconcilerBought
    <3>2. \/ state[Entry] = "complete" /\ now' = [now EXCEPT !["reconciler"] = opened]
          \/ /\ state[Entry] = "open" /\ filled[Entry] > 0
             /\ now' = [now EXCEPT !["reconciler"] = part]
          \/ now' = [now EXCEPT !["reconciler"] = closed]
      BY <2>1, <2>8 DEF AskEntry
    <3> HIDE DEF closed, opened, part
    <3>3. CASE state[Entry] = "complete" /\ now' = [now EXCEPT !["reconciler"] = opened]
      <4>1. filled[Entry] = Qty
        BY <3>3, <1>0 DEF LiveInv, OrdersKnown, QtysBought, OrdersBought
      <4>2. now'["reconciler"] = opened
        BY <3>3, <2>6
      <4> QED
        BY <3>1, <4>1, <4>2, <2>5, <2>7
    <3>4. CASE /\ state[Entry] = "open" /\ filled[Entry] > 0
               /\ now' = [now EXCEPT !["reconciler"] = part]
      <4>1. filled[Entry] < Qty
        BY <3>4, <1>0 DEF LiveInv, OrdersKnown, QtysBought, OrdersBought
      <4>2. part.qty # l.qty /\ part.qty <= filled'[Entry]
        BY <3>1, <4>1, <2>2, <2>7, <1>0
      <4>3. now'["reconciler"] = part
        BY <3>4, <2>6
      <4> QED
        BY <3>1, <4>2, <4>3, <2>5, <2>7
    <3>5. CASE now' = [now EXCEPT !["reconciler"] = closed]
      <4>1. now'["reconciler"] = closed
        BY <3>5, <2>6
      <4> QED
        BY <3>1, <4>1, <2>5, <2>7
    <3> QED
      BY <3>2, <3>3, <3>4, <3>5
  <2>9. CASE \E o : AskLeg(o)
    <3>1. now' = [now EXCEPT !["reconciler"] = closed] /\ todo' = [todo EXCEPT !["reconciler"] = {}]
      BY <2>1, <2>9 DEF AskLeg
    <3>2. todo'["reconciler"] = {}
      BY <3>1, <1>0 DEF LiveInv, TypeOK
    <3> HIDE DEF closed
    <3>3. now'["reconciler"] = closed
      BY <3>1, <2>6
    <3> QED
      BY <3>2, <3>3, <2>5, <2>7
  <2> QED
    BY <2>3, <2>4, <2>8, <2>9 DEF AskBroker
<1>11. FindStale => P
  BY <1>0, <1>7 DEF FindStale
<1>12. (CancelStale => P) /\ (CancelFails => P)
  BY <1>0, <1>6, <1>8 DEF CancelStale, CancelFails
<1>13. \A s \in Sessions : Commit(s) \/ Crash(s) => P
  BY <1>6 DEF Commit, Crash
<1>14. \A m \in Monitors : StartPass(m) \/ Skip(m) \/ NakedStop(m) \/ CloseRefused(m) => P
  BY <1>0, <1>6, <1>7, <1>8 DEF StartPass, Skip, NakedStop, CloseRefused
<1>15. \A m \in Monitors, r \in Reasons : TakeLock(m, r) => P
  BY <1>0, <1>8 DEF TakeLock
<1>16. \A m \in Monitors, k \in Markets : CloseSent(m, k) \/ CloseLost(m, k) => P
  BY <1>0, <1>8 DEF CloseSent, CloseLost
<1>17. (\A o \in Orders : Fill(o) \/ Die(o) => P) /\ (\A u \in Updates : Webhook(u) => P)
       /\ (\A r \in Reasons : Expire(r) => P) /\ (Halt \/ SquareOffTime => P) /\ (UNCHANGED vars => P)
  BY <1>4 DEF Fill, Die, Webhook, Expire, Halt, SquareOffTime, vars
<1> HIDE DEF P
<1>18. P
  BY NextCases, <1>9, <1>10, <1>11, <1>12, <1>13, <1>14, <1>15, <1>16, <1>17, Zenon
<1> QED
  BY <1>18 DEF P

LEMMA InitBought == Init => QtysBought
<1> SUFFICES ASSUME Init PROVE QtysBought
  OBVIOUS
<1> USE Names
<1>1. LiveInv
  BY InitInv
<1>2. row \in StartRows /\ row.qty = Qty /\ row.sl \notin Markets /\ row.tgt \notin Markets
  BY OrdersAssumption DEF Init, StartRows, PendingRow, OpenRow
<1>3. Entry \in Orders /\ Markets \subseteq Orders
  BY DEF Orders, Exits
<1>4. \A o \in Orders : size[o] = Qty /\ filled[o] <= Qty
  BY <1>1 DEF Init, LiveInv, TypeOK
<1>5. \A k \in Markets : state[k] = "unsent"
  BY <1>2, <1>3 DEF Init
<1>6. row.status = "OPEN" => filled[Entry] = Qty
  <2>1. row.sl # Entry /\ row.tgt # Entry
    BY <1>2 DEF StartRows, PendingRow, OpenRow
  <2>2. row.status = "OPEN" => state[Entry] = "complete"
    BY <1>3, <2>1 DEF Init
  <2> QED
    BY <1>1, <1>3, <1>4, <2>2 DEF LiveInv, OrdersKnown
<1>7. \A s \in Sessions : at[s] = "idle" /\ todo[s] = {} /\ now[s] = Blank /\ seen[s] = Blank
  BY DEF Init
<1>8. /\ "reconciler" \in Sessions /\ "timeouts" \in Sessions /\ Monitors \subseteq Sessions
      /\ Blank.qty = Qty
  BY DEF Sessions, Jobs, Blank, PendingRow
<1>9. RowBought /\ OrdersBought
  BY <1>2, <1>3, <1>4, <1>5, <1>6 DEF RowBought, OrdersBought, Bought
<1>10. SessionsBought /\ ReconcilerBought
  BY <1>7, <1>8 DEF SessionsBought, ReconcilerBought, Answered
<1> QED
  BY <1>9, <1>10 DEF QtysBought

(* The quantity a pass sends was bought, however late it was read, unless  *)
(* a protection order filled (handle_webhook, reconcile_orders,            *)
(* place_market_close_order).                                              *)
THEOREM QuantitiesAreBought == Spec => []QtysBought
<1>1. LiveInv /\ QtysBought /\ [Next]_vars => QtysBought'
  <2> SUFFICES ASSUME LiveInv, QtysBought, [Next]_vars PROVE QtysBought'
    OBVIOUS
  <2>1. RowBought' /\ SessionsBought' /\ ReconcilerBought' /\ OrdersBought'
    BY RowBoughtStep, SessionsBoughtStep, ReconcilerBoughtStep, OrdersBoughtStep
  <2> QED
    BY <2>1 DEF QtysBought
<1> QED
  BY <1>1, InitBought, Invariance, PTL DEF Spec

\* Two orders sent under one lock are two confirmed ones.
LEMMA OneConfirmed ==
  ASSUME LiveInv, OneClosePerLock, NEW r \in Reasons, expired[r] = 0,
         NEW j \in Confirmed(r), NEW k \in Confirmed(r)
  PROVE  j = k
<1>1. IsFiniteSet(Confirmed(r)) /\ Cardinality(Confirmed(r)) \in Nat
  BY CountsFinite
<1>2. Cardinality(Confirmed(r)) <= 1
  BY DEF OneClosePerLock
<1>3. Cardinality(Confirmed(r)) = 1
  BY <1>1, <1>2, FS_EmptySet
<1>4. \E x : Confirmed(r) = {x}
  BY <1>1, <1>3, FS_Singleton
<1> QED
  BY <1>4

\* Shares sold by one order alone.
LEMMA SoldByOne ==
  ASSUME TypeOK, NEW k \in Exits, \A o \in Exits : filled[o] > 0 => o = k
  PROVE  Sold <= filled[k]
<1> USE Names
<1> DEFINE S == {x \in Exits \X (1..Qty) : x[2] <= filled[x[1]]}
           n == filled[k]
<1>1. n \in 0..Qty /\ \A o \in Exits : filled[o] \in 0..Qty
  BY DEF TypeOK, Orders
<1>2. S \subseteq {k} \X (1..n)
  <2> SUFFICES ASSUME NEW o \in Exits, NEW i \in 1..Qty, i <= filled[o]
               PROVE  o = k /\ i \in 1..n
    OBVIOUS
  <2>1. filled[o] > 0
    BY <1>1
  <2> QED
    BY <1>1, <2>1
<1>3. IsFiniteSet({k}) /\ Cardinality({k}) = 1
  BY FS_Singleton
<1>4. IsFiniteSet(1..n) /\ Cardinality(1..n) = n
  <2> HIDE DEF n
  <2>1. IsFiniteSet(1..n) /\ Cardinality(1..n) = IF 1 > n THEN 0 ELSE n - 1 + 1
    BY <1>1, FS_Interval
  <2> QED
    BY <1>1, <2>1
<1>5. IsFiniteSet({k} \X (1..n)) /\ Cardinality({k} \X (1..n)) = n
  <2> HIDE DEF n
  <2>1. IsFiniteSet({k} \X (1..n)) /\ Cardinality({k} \X (1..n)) = 1 * n
    <3>1. PICK T, U : T = {k} /\ U = 1..n
      OBVIOUS
    <3>2. IsFiniteSet(T) /\ IsFiniteSet(U) /\ Cardinality(T) = 1 /\ Cardinality(U) = n
      BY <1>3, <1>4, <3>1
    <3>3. IsFiniteSet(T \X U) /\ Cardinality(T \X U) = Cardinality(T) * Cardinality(U)
      BY <3>2, FS_Product
    <3> QED
      BY <3>1, <3>2, <3>3
  <2> QED
    BY <1>1, <2>1
<1>6. Cardinality(S) <= Cardinality({k} \X (1..n))
  BY <1>2, <1>5, FS_Subset
<1> QED
  BY <1>1, <1>5, <1>6 DEF Sold

LEMMA SoldNothing ==
  ASSUME TypeOK, \A o \in Exits : ~(filled[o] > 0)
  PROVE  Sold = 0
<1>1. {x \in Exits \X (1..Qty) : x[2] <= filled[x[1]]} = {}
  BY Names DEF TypeOK, Orders
<1> QED
  BY <1>1, FS_EmptySet DEF Sold

(* A position is turned around only where no lock forbids it, for any      *)
(* number of monitors, orders and shares: what is sold under one lock is   *)
(* one order of the quantity that was bought (place_market_close_order,    *)
(* trade_monitor_worker "square_off_lock").                                *)
THEOREM TurnedOnlyByTwoExits == Spec => []TurnedOnlyBy
<1>1. LiveInv /\ QtysBought /\ OneClosePerLock => TurnedOnlyBy
  <2> SUFFICES ASSUME LiveInv, QtysBought, OneClosePerLock,
                      \A o \in Legs : ~(filled[o] > 0),
                      \A k \in Markets : why[k] = "naked" => ~(filled[k] > 0),
                      \A k \in lost : ~(filled[k] > 0),
                      \A r \in Reasons : ~(expired[r] > 0),
                      NEW r \in Reasons, \A k \in Confirmed(r) : ~(filled[k] > 0)
               PROVE  ~(Held < 0)
    BY DEF TurnedOnlyBy
  <2> USE Names
  <2>0. TypeOK /\ filled[Entry] \in Nat /\ \A o \in Exits : filled[o] \in Nat /\ size[o] \in Nat
    BY DEF LiveInv, TypeOK, Orders
  <2>1. ASSUME NEW o \in Exits, filled[o] > 0
        PROVE  /\ o \in Markets /\ state[o] # "unsent"
               /\ \E q \in Reasons \ {r} : o \in Confirmed(q)
    <3>1. o \in Markets
      BY <2>1 DEF Exits
    <3>2. state[o] # "unsent"
      BY <2>1, <3>1 DEF LiveInv, OrdersKnown, Orders
    <3>3. o \notin lost /\ why[o] # "naked"
      BY <2>1, <3>1
    <3>4. why[o] # "unsent"
      BY <3>1, <3>2 DEF QtysBought, OrdersBought
    <3>5. why[o] \in Reasons
      BY <3>1, <3>3, <3>4 DEF LiveInv, TypeOK
    <3>6. o \in Confirmed(why[o])
      BY <3>1, <3>3 DEF Confirmed
    <3>7. why[o] # r
      BY <2>1, <3>6
    <3> QED
      BY <3>1, <3>2, <3>5, <3>6, <3>7
  <2>2. CASE \A o \in Exits : ~(filled[o] > 0)
    BY <2>0, <2>2, SoldNothing DEF Held
  <2>3. CASE \E k \in Exits : filled[k] > 0
    <3>1. PICK k \in Exits : filled[k] > 0
      BY <2>3
    <3>2. \A o \in Exits : filled[o] > 0 => o = k
      <4> SUFFICES ASSUME NEW o \in Exits, filled[o] > 0 PROVE o = k
        OBVIOUS
      <4>1. PICK q \in Reasons : o \in Confirmed(q) /\ k \in Confirmed(q)
        BY <2>1, <3>1 DEF Reasons
      <4>2. expired[q] = 0
        BY DEF LiveInv, TypeOK
      <4> QED
        BY <4>1, <4>2, OneConfirmed
    <3>3. Sold <= filled[k]
      BY <2>0, <3>2, SoldByOne
    <3>4. filled[k] <= size[k] /\ Bought(size[k])
      BY <2>1, <3>1 DEF QtysBought, OrdersBought
    <3>5. size[k] <= filled[Entry]
      BY <3>4 DEF Bought, LegFilled
    <3>6. Sold \in Nat
      <4>1. {x \in Exits \X (1..Qty) : x[2] <= filled[x[1]]} \subseteq Exits \X (1..Qty)
        OBVIOUS
      <4>2. IsFiniteSet(Exits)
        <5>1. IsFiniteSet(Markets \cup {SlLeg})
          BY FS_AddElement, OrdersAssumption
        <5>2. IsFiniteSet(Markets \cup {SlLeg} \cup {TpLeg})
          BY <5>1, FS_AddElement
        <5>3. Exits = Markets \cup {SlLeg} \cup {TpLeg}
          BY DEF Exits, Legs
        <5> QED
          BY <5>2, <5>3
      <4>3. IsFiniteSet(1..Qty)
        BY FS_Interval
      <4>4. IsFiniteSet(Exits \X (1..Qty))
        BY <4>2, <4>3, FS_Product
      <4> QED
        BY <4>1, <4>4, FS_Subset, FS_CardinalityType DEF Sold
    <3> QED
      BY <2>0, <3>1, <3>3, <3>4, <3>5, <3>6 DEF Held
  <2> QED
    BY <2>2, <2>3
<1> QED
  BY <1>1, Invariance, QuantitiesAreBought, ClosesOncePerLock, PTL
=============================================================================
