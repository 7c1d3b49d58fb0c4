----------------------------- MODULE LiveOrders -----------------------------
(***************************************************************************)
(* One row of live_trades, the orders of its trade at the broker, and      *)
(* everything that reads the row and writes it back: webhooks              *)
(* (ExecutionManager.handle_webhook), the reconciliation and time-out jobs *)
(* of the scheduler, and the passes of the trade monitors.                 *)
(*                                                                         *)
(* A broker token is set.  place_order raises NameError at its first       *)
(* statement, so the row exists from the start, as an earlier session left *)
(* it.  place_sl_order and place_target_order import httpx in their except *)
(* branch, which makes the name local to the function: every call raises   *)
(* UnboundLocalError before it sends anything, and returns None.           *)
(***************************************************************************)
EXTENDS Integers, FiniteSets

CONSTANTS
    Qty,            \* shares of the entry order
    Monitors,       \* replicas of trade_monitor_worker
    Api,            \* the API process: webhooks and the jobs of its scheduler
    Starts,         \* starts to look at: the processes that are up, the row found
    Markets,        \* market orders that may be sent (a bound)
    Entry, SlLeg, TpLeg,    \* the entry order and the two protection orders
    NoId,           \* a column that holds NULL, or an id the broker does not know
    MaxExpiries,    \* how often a square-off lock may reach its TTL (a bound)
    MaxCrashes      \* crashes of sessions (a bound)

Jobs == {"reconciler", "timeouts"}
Sessions == Jobs \cup Monitors
Legs == {SlLeg, TpLeg}
Exits == Legs \cup Markets
Orders == {Entry} \cup Exits
Reasons == {"eod", "emergency"}

Statuses == {"PENDING", "OPEN", "CLOSED", "CANCELLED"}
Rows == [status : Statuses, qty : 1..Qty, entry : {Entry, NoId},
         sl : {SlLeg, NoId}, tgt : {TpLeg, NoId} \cup Markets]
States == {"unsent", "open", "complete", "dead"}

\* A row place_order wrote: PENDING, under the broker's id or still under the
\* temporary "pending_..." one, which the broker knows only as a tag.
PendingRow(e) == [status |-> "PENDING", qty |-> Qty, entry |-> e, sl |-> NoId, tgt |-> NoId]
Blank == PendingRow(NoId)
OpenRow(s, t) == [status |-> "OPEN", qty |-> Qty, entry |-> Entry, sl |-> s, tgt |-> t]
StartRows == {PendingRow(Entry), PendingRow(NoId), OpenRow(NoId, NoId), OpenRow(SlLeg, TpLeg)}

ASSUME OrdersAssumption ==
    /\ Qty \in Nat \ {0}
    /\ {MaxExpiries, MaxCrashes} \subseteq Nat
    /\ IsFiniteSet(Markets) /\ IsFiniteSet(Monitors)
    /\ Cardinality({Entry, SlLeg, TpLeg, NoId}) = 4
    /\ {Entry, SlLeg, TpLeg, NoId} \cap Markets = {}
    /\ Jobs \cap Monitors = {}
    /\ Starts \subseteq [up : SUBSET ({Api} \cup Monitors), row : StartRows]

VARIABLES
    up,         \* the processes that are up
    row,        \* the committed row: status, quantity and the three order ids
    state,      \* state[o]: what the broker holds of order o
    size,       \* size[o]: shares of order o
    filled,     \* filled[o]: shares of order o that filled
    why,        \* why[k]: what market order k was sent for
    lost,       \* market orders whose answer never came back
    asked,      \* the broker accepted a cancel of the entry
    at,         \* at[s]: where session s is
    seen,       \* seen[s]: the row as session s loaded it
    now,        \* now[s]: the row as session s holds it in memory
    todo,       \* todo[s]: orders the reconciler asks for, reason of a monitor
    lock,       \* lock[r]: the key <reason>_square_off_lock:live:<id>:<day>
    expired,    \* expired[r]: how often lock r reached its TTL
    emergency,  \* the trading state is EMERGENCY_FLATTEN
    eod,        \* _is_eod()
    crashes     \* crashes so far

broker == <<state, size, filled, why, lost, asked>>
sessions == <<at, seen, now, todo>>
locks == <<lock, expired>>
world == <<up, emergency, eod, crashes>>
vars == <<row, broker, sessions, locks, world>>

Init ==
    /\ \E s \in Starts : up = s.up /\ row = s.row
    /\ state = [o \in Orders |->
         CASE o = Entry -> IF row.status = "OPEN" THEN "complete" ELSE "open"
           [] o \in {row.sl, row.tgt} -> "open"
           [] OTHER -> "unsent"]
    /\ size = [o \in Orders |-> Qty]
    /\ filled = [o \in Orders |-> IF state[o] = "complete" THEN Qty ELSE 0]
    /\ why = [k \in Markets |-> "unsent"]
    /\ lost = {}
    /\ asked = FALSE
    /\ at = [s \in Sessions |-> "idle"]
    /\ seen = [s \in Sessions |-> Blank]
    /\ now = [s \in Sessions |-> Blank]
    /\ todo = [s \in Sessions |-> {}]
    /\ lock = [r \in Reasons |-> FALSE]
    /\ expired = [r \in Reasons |-> 0]
    /\ emergency \in BOOLEAN /\ eod = FALSE
    /\ crashes = 0

\* Shares of the trade in the account: more sold than bought is a short position.
\* One pair stands for each share an exit order sold.
Sold == Cardinality({x \in Exits \X (1..Qty) : x[2] <= filled[x[1]]})
Held == filled[Entry] - Sold
ExitDone == \E o \in Exits : state[o] = "complete"

-----------------------------------------------------------------------------
\* The broker and the exchange.

\* Mutant of Fill: an order that is complete or dead fills on.
FillAgain(o) ==
    /\ state[o] # "unsent"
    /\ filled' = [filled EXCEPT ![o] = @ + 1]
    /\ UNCHANGED <<row, state, size, why, lost, asked, sessions, locks, world>>

Fill(o) ==
    /\ state[o] = "open"
    /\ filled' = [filled EXCEPT ![o] = @ + 1]
    /\ state' = [state EXCEPT ![o] = IF filled'[o] = size[o] THEN "complete" ELSE @]
    /\ UNCHANGED <<row, size, why, lost, asked, sessions, locks, world>>

\* Rejected or cancelled.  An exit order the row no longer needs is pushed to a
\* Redis list; OrderCancelWorker pops it and sends up to five cancels (its check
\* that the order is gone uses a closed client and raises, so none counts as a
\* success), unless it ends first.  Nothing else reads the list: an order on it is
\* one that dies at some time, or fills first, or stays.
Die(o) ==
    /\ state[o] = "open"
    /\ state' = [state EXCEPT ![o] = "dead"]
    /\ UNCHANGED <<row, size, filled, why, lost, asked, sessions, locks, world>>

\* Every update the broker has sent so far; each may be delivered at any time,
\* in any order, any number of times, or never.
Update(o, st, n) == [id |-> o, status |-> st, filled |-> n]
Updates ==
    (UNION {{Update(o, "open", n) : n \in (1..filled[o]) \ {size[o]}} : o \in Orders})
    \cup {Update(o, "complete", filled[o]) : o \in {p \in Orders : state[p] = "complete"}}
    \cup {Update(o, "cancelled", filled[o]) : o \in {p \in Orders : state[p] = "dead"}}

-----------------------------------------------------------------------------
\* Rows and sessions.

Ids(r) == {r.sl, r.tgt} \ {NoId}

\* Protection orders are taken out of the row and asked to be cancelled; the
\* new ones are never sent, so the columns stay empty.
Unprotected(r) == [r EXCEPT !.sl = NoId, !.tgt = NoId]

\* A commit writes the columns that changed since the row was loaded.
Merge(db, old, new) == [c \in DOMAIN db |-> IF new[c] # old[c] THEN new[c] ELSE db[c]]

Load(s, next, what) ==
    /\ at' = [at EXCEPT ![s] = next]
    /\ seen' = [seen EXCEPT ![s] = row]
    /\ now' = [now EXCEPT ![s] = row]
    /\ todo' = [todo EXCEPT ![s] = what]

\* The session ends: what it holds is dropped.
Leave(s) ==
    /\ at' = [at EXCEPT ![s] = "idle"]
    /\ seen' = [seen EXCEPT ![s] = Blank]
    /\ now' = [now EXCEPT ![s] = Blank]
    /\ todo' = [todo EXCEPT ![s] = {}]

Goto(s, next, r) ==
    /\ at' = [at EXCEPT ![s] = next]
    /\ now' = [now EXCEPT ![s] = r]
    /\ UNCHANGED <<seen, todo>>

Commit(s) ==
    /\ at[s] = "commit" \/ (at[s] = "asking" /\ todo[s] = {})
    /\ row' = Merge(row, seen[s], now[s])
    /\ Leave(s)
    /\ UNCHANGED <<broker, locks, world>>

-----------------------------------------------------------------------------
\* handle_webhook: one short transaction each.

Matches(u) == u.id \in {row.entry, row.sl, row.tgt}
IsLeg(u) == u.id \in {row.sl, row.tgt}

\* The row opens with what filled, its protection orders go to the cancel queue.
OpenWith(n) == row' = [Unprotected(row) EXCEPT !.status = "OPEN", !.qty = n]

LegComplete(u) ==
    /\ u.status = "complete" /\ IsLeg(u)
    /\ row' = [row EXCEPT !.status = "CLOSED"]

\* A repeated update is recognised only while the row is OPEN with a stop order.
EntryComplete(u) ==
    /\ u.status = "complete" /\ ~IsLeg(u)
    /\ IF row.status = "OPEN" /\ row.sl # NoId /\ row.qty = u.filled
       THEN UNCHANGED row
       ELSE OpenWith(u.filled)

\* The branch does not ask whether the update is about the entry.
PartialFill(u) == u.status = "open" /\ OpenWith(u.filled)

LegCancelled(u) ==
    /\ u.status = "cancelled" /\ IsLeg(u)
    /\ row' = [row EXCEPT !.sl = IF @ = u.id THEN NoId ELSE @,
                          !.tgt = IF @ = u.id THEN NoId ELSE @]

EntryCancelled(u) ==
    /\ u.status = "cancelled" /\ ~IsLeg(u)
    /\ IF u.filled > 0
       THEN OpenWith(u.filled)
       ELSE row' = [row EXCEPT !.status = "CLOSED"]

Webhook(u) ==
    /\ Api \in up
    /\ Matches(u)
    /\ \/ LegComplete(u) \/ EntryComplete(u) \/ PartialFill(u)
       \/ LegCancelled(u) \/ EntryCancelled(u)
    /\ UNCHANGED <<broker, sessions, locks, world>>

-----------------------------------------------------------------------------
\* reconcile_orders: load, ask the broker for each order, commit at the end.

Reconcile ==
    /\ Api \in up /\ at["reconciler"] = "idle"
    /\ row.status \in {"PENDING", "OPEN"}
    /\ Load("reconciler", "asking", IF row.status = "OPEN" THEN Ids(row) ELSE {Entry})
    /\ UNCHANGED <<row, broker, locks, world>>

\* The stop order is asked for before the target.
NextToAsk == IF SlLeg \in todo["reconciler"] THEN SlLeg
             ELSE CHOOSE o \in todo["reconciler"] : TRUE

\* The request failed, or the answer changes nothing.
Asked(o) ==
    /\ todo' = [todo EXCEPT !["reconciler"] = @ \ {o}]
    /\ UNCHANGED <<at, seen, now>>

\* Mutant of AskEntry: a dead entry closes the row, whatever it had filled.
AskEntryDead ==
    /\ state[Entry] = "dead"
    /\ todo' = [todo EXCEPT !["reconciler"] = {}]
    /\ now' = [now EXCEPT !["reconciler"] = [@ EXCEPT !.status = "CLOSED"]]
    /\ UNCHANGED <<at, seen>>

AskEntry ==
    LET r == now["reconciler"]
        Found(new) == /\ todo' = [todo EXCEPT !["reconciler"] = {}]
                      /\ now' = [now EXCEPT !["reconciler"] = new]
                      /\ UNCHANGED <<at, seen>>
    IN \/ /\ state[Entry] = "complete"
          /\ Found([r EXCEPT !.status = "OPEN"])
       \/ /\ state[Entry] = "open" /\ filled[Entry] > 0
          /\ Found([r EXCEPT !.status = "OPEN", !.qty = filled[Entry]])
       \/ /\ state[Entry] = "dead" /\ filled[Entry] = 0
          /\ Found([r EXCEPT !.status = "CLOSED"])

\* A leg that filled closes the row; the other one is asked to be cancelled.
AskLeg(o) ==
    /\ state[o] = "complete"
    /\ now' = [now EXCEPT !["reconciler"] = [@ EXCEPT !.status = "CLOSED"]]
    /\ todo' = [todo EXCEPT !["reconciler"] = {}]
    /\ UNCHANGED <<at, seen>>

AskBroker ==
    /\ at["reconciler"] = "asking"
    /\ todo["reconciler"] # {}
    /\ LET o == NextToAsk
       IN \/ Asked(o)
          \/ o = Entry /\ AskEntry
          \/ o # Entry /\ AskLeg(o)
    /\ UNCHANGED <<row, broker, locks, world>>

-----------------------------------------------------------------------------
\* cancel_stale_pending_orders, every two minutes and at shutdown.

FindStale ==
    /\ Api \in up /\ at["timeouts"] = "idle"
    /\ row.status = "PENDING"
    /\ Load("timeouts", "cancelling", {})
    /\ UNCHANGED <<row, broker, locks, world>>

\* The broker accepts a cancel of an open order, which dies later or fills first.
CancelStale ==
    /\ at["timeouts"] = "cancelling"
    /\ now["timeouts"].entry = Entry /\ state[Entry] = "open"
    /\ asked' = TRUE
    /\ Goto("timeouts", "commit", [now["timeouts"] EXCEPT !.status = "CANCELLED"])
    /\ UNCHANGED <<row, state, size, filled, why, lost, locks, world>>

\* Refused, or accepted with the answer lost: the row is left alone.
CancelFails ==
    /\ at["timeouts"] = "cancelling"
    /\ asked' \in {asked, asked \/ (now["timeouts"].entry = Entry /\ state[Entry] = "open")}
    /\ Leave("timeouts")
    /\ UNCHANGED <<row, state, size, filled, why, lost, locks, world>>

-----------------------------------------------------------------------------
\* _check_live_trades of a trade monitor, every 15 seconds.

Reason == IF eod THEN {"eod"} ELSE IF emergency THEN {"emergency"} ELSE {}

StartPass(m) ==
    /\ m \in up /\ at[m] = "idle"
    /\ row.status = "OPEN"
    /\ Load(m, "checking", Reason)
    /\ UNCHANGED <<row, broker, locks, world>>

\* No fresh price, a lock another pass holds, or a stop order in place: the
\* commit has nothing to write.
Skip(m) ==
    /\ at[m] = "checking"
    /\ Leave(m)
    /\ UNCHANGED <<row, broker, locks, world>>

\* Mutant of TakeLock: SET without NX.
TakeLockAnyway(m, r) ==
    /\ at[m] = "checking"
    /\ r \in todo[m]
    /\ lock' = [lock EXCEPT ![r] = TRUE]
    /\ Goto(m, "sending", now[m])
    /\ UNCHANGED <<row, broker, expired, world>>

\* SET key NX EX 3600.
TakeLock(m, r) ==
    /\ at[m] = "checking"
    /\ r \in todo[m]
    /\ ~lock[r]
    /\ lock' = [lock EXCEPT ![r] = TRUE]
    /\ Goto(m, "sending", now[m])
    /\ UNCHANGED <<row, broker, expired, world>>

\* Without a stop order in the row a price beyond the stop closes the position
\* at once; no lock is taken.
NakedStop(m) ==
    /\ at[m] = "checking"
    /\ todo[m] = {} /\ now[m].sl = NoId
    /\ Goto(m, "sending", now[m])
    /\ UNCHANGED <<row, broker, locks, world>>

\* place_market_close_order: the legs are dropped before the order is sent.
Unsent == {k \in Markets : state[k] = "unsent"}
WhyOf(m) == IF todo[m] = {} THEN "naked" ELSE CHOOSE r \in todo[m] : TRUE

SendMarket(m, k) ==
    /\ Unsent # {} /\ k = CHOOSE u \in Unsent : TRUE
    /\ state' = [state EXCEPT ![k] = "open"]
    /\ size' = [size EXCEPT ![k] = now[m].qty]
    /\ why' = [why EXCEPT ![k] = WhyOf(m)]
    /\ UNCHANGED <<filled, asked>>

FreeLock(m) == lock' = [r \in Reasons |-> lock[r] /\ r \notin todo[m]]

\* Mutant of CloseSent: the lock is deleted after a success as well.
CloseSentFreeing(m, k) ==
    /\ at[m] = "sending"
    /\ SendMarket(m, k)
    /\ FreeLock(m)
    /\ Goto(m, "commit", [Unprotected(now[m]) EXCEPT !.tgt = k])
    /\ UNCHANGED <<row, lost, expired, world>>

CloseSent(m, k) ==
    /\ at[m] = "sending"
    /\ SendMarket(m, k)
    /\ Goto(m, "commit", [Unprotected(now[m]) EXCEPT !.tgt = k])
    /\ UNCHANGED <<row, lost, locks, world>>

\* The answer does not arrive: the order is at the broker, the pass takes it for
\* a failure and deletes the lock.
CloseLost(m, k) ==
    /\ at[m] = "sending"
    /\ SendMarket(m, k)
    /\ lost' = lost \cup {k}
    /\ FreeLock(m)
    /\ Goto(m, "commit", Unprotected(now[m]))
    /\ UNCHANGED <<row, expired, world>>

\* Mutant of CloseRefused: the lock stays.
CloseRefusedLocked(m) ==
    /\ at[m] = "sending"
    /\ Goto(m, "commit", Unprotected(now[m]))
    /\ UNCHANGED <<row, broker, locks, world>>

CloseRefused(m) ==
    /\ at[m] = "sending"
    /\ FreeLock(m)
    /\ Goto(m, "commit", Unprotected(now[m]))
    /\ UNCHANGED <<row, broker, expired, world>>

-----------------------------------------------------------------------------
\* A session ends: what it locked stays locked, what it holds stays unwritten.
Crash(s) ==
    /\ at[s] # "idle"
    /\ crashes < MaxCrashes
    /\ crashes' = crashes + 1
    /\ Leave(s)
    /\ UNCHANGED <<row, broker, locks, up, emergency, eod>>

Expire(r) ==
    /\ lock[r]
    /\ expired["eod"] + expired["emergency"] < MaxExpiries
    /\ lock' = [lock EXCEPT ![r] = FALSE]
    /\ expired' = [expired EXCEPT ![r] = @ + 1]
    /\ UNCHANGED <<row, broker, sessions, world>>

Halt ==
    /\ emergency' = ~emergency
    /\ UNCHANGED <<row, broker, sessions, locks, up, eod, crashes>>

SquareOffTime ==
    /\ ~eod /\ eod' = TRUE
    /\ UNCHANGED <<row, broker, sessions, locks, up, emergency, crashes>>

Pass(m) ==
    \/ StartPass(m) \/ Skip(m) \/ NakedStop(m)
    \/ \E r \in Reasons : TakeLock(m, r)
    \/ \E k \in Markets : CloseSent(m, k) \/ CloseLost(m, k)
    \/ CloseRefused(m) \/ Commit(m)

Exchange == \E o \in Orders : Fill(o) \/ Die(o)
Reconciliation == Reconcile \/ AskBroker \/ Commit("reconciler")
TimeOuts == FindStale \/ CancelStale \/ CancelFails \/ Commit("timeouts")
Faults == (\E s \in Sessions : Crash(s)) \/ (\E r \in Reasons : Expire(r))

Next ==
    \/ Exchange
    \/ \E u \in Updates : Webhook(u)
    \/ Reconciliation \/ TimeOuts
    \/ \E m \in Monitors : Pass(m)
    \/ Faults
    \/ Halt \/ SquareOffTime

Spec == Init /\ [][Next]_vars

\* The monitors' loops never return; prices keep coming and the broker does not
\* refuse, or lose the answer, every time.
Fairness ==
    \A m \in Monitors :
        /\ WF_vars(StartPass(m)) /\ WF_vars(Skip(m)) /\ WF_vars(Commit(m))
        /\ WF_vars(CloseRefused(m))
        /\ \A r \in Reasons : SF_vars(TakeLock(m, r))
        /\ SF_vars(\E k \in Markets : CloseSent(m, k))

FairSpec == Spec /\ Fairness

-----------------------------------------------------------------------------
TypeOK ==
    /\ up \subseteq {Api} \cup Monitors
    /\ row \in Rows
    /\ state \in [Orders -> States]
    /\ size \in [Orders -> 1..Qty] /\ filled \in [Orders -> 0..Qty]
    /\ why \in [Markets -> Reasons \cup {"naked", "unsent"}] /\ lost \subseteq Markets
    /\ asked \in BOOLEAN /\ emergency \in BOOLEAN /\ eod \in BOOLEAN
    /\ at \in [Sessions -> {"idle", "asking", "cancelling", "checking", "sending", "commit"}]
    /\ seen \in [Sessions -> Rows] /\ now \in [Sessions -> Rows]
    /\ todo \in [Sessions -> SUBSET (Orders \cup Reasons)]
    /\ lock \in [Reasons -> BOOLEAN] /\ expired \in [Reasons -> 0..MaxExpiries]
    /\ crashes \in 0..MaxCrashes

\* What the sessions rest on, one part per fact.
OrdersKnown ==
    /\ \A o \in Orders : state[o] = "complete" => filled[o] = size[o]
    /\ \A o \in Orders : state[o] = "open" => filled[o] < size[o]
    /\ \A o \in Orders : state[o] = "unsent" => filled[o] = 0
    /\ \A o \in Exits : state[o] # "unsent" => filled[Entry] > 0
    /\ \A k \in Markets : state[k] = "unsent" => why[k] = "unsent" /\ k \notin lost
    /\ state[Entry] # "unsent"
SessionsKnown ==
    /\ at["reconciler"] \in {"idle", "asking"} /\ todo["reconciler"] \subseteq Orders
    /\ at["timeouts"] \in {"idle", "cancelling", "commit"}
    /\ \A m \in Monitors :
         /\ at[m] \in {"idle", "checking", "sending", "commit"}
         /\ todo[m] \in {{}, {"eod"}, {"emergency"}}
         /\ at[m] # "idle" => now[m].status = seen[m].status /\ filled[Entry] > 0
Earned(status) ==
    CASE status = "OPEN" -> filled[Entry] > 0
      [] status = "CLOSED" -> ExitDone \/ (state[Entry] = "dead" /\ filled[Entry] = 0)
      [] status = "CANCELLED" -> asked
      [] OTHER -> FALSE
WritesEarned ==
    /\ row.status = "PENDING" \/ Earned(row.status)
    /\ \A s \in Sessions : now[s].status = seen[s].status \/ Earned(now[s].status)

\* Square-off orders the broker confirmed, by the lock they were sent under.
Confirmed(r) == {k \in Markets : why[k] = r /\ k \notin lost}

\* Who holds lock r, or believes so.
Holders(r) == {m \in Monitors : at[m] = "sending" /\ r \in todo[m]}
LocksCounted ==
    \A r \in Reasons :
        Cardinality(Holders(r)) + Cardinality(Confirmed(r)) + (IF lock[r] THEN 0 ELSE 1)
            <= 1 + expired[r]

(* The square-off lock works: however the passes of the monitors           *)
(* interleave, crash, lose answers and delete each other's locks, a reason *)
(* closes a position once, and once more for every time its lock reached   *)
(* its TTL (trade_monitor_worker, "square_off_lock").  What defeats it is  *)
(* an answer that got lost, and the stop of an unprotected position.       *)
OneClosePerLock == \A r \in Reasons : Cardinality(Confirmed(r)) <= 1 + expired[r]

(* A position is turned around, more sold than was bought, only by two     *)
(* exits that both fill, and no lock forbids just these: a protection order *)
(* besides another exit, the stop of an unprotected position (sent again in *)
(* every pass), an answer that got lost, a lock past its TTL, the closes of *)
(* both reasons (execution_manager.py:602, "close an open position").       *)
TurnedOnlyBy ==
    Held < 0 =>
        \/ \E o \in Legs : filled[o] > 0
        \/ \E k \in Markets : why[k] = "naked" /\ filled[k] > 0
        \/ \E k \in lost : filled[k] > 0
        \/ \E r \in Reasons : expired[r] > 0
        \/ \A r \in Reasons : \E k \in Confirmed(r) : filled[k] > 0

LiveInv == TypeOK /\ OrdersKnown /\ SessionsKnown /\ WritesEarned

(* A row is OPEN only with shares bought, CLOSED only after an exit filled *)
(* or the entry died empty, CANCELLED only after the broker took the       *)
(* cancel, although every writer decides on what it read or was told       *)
(* earlier (reconcile_orders, handle_webhook, cancel_stale_pending_orders).*)
Life == INSTANCE LiveTradeLife WITH
    life <- CASE row.status = "PENDING" -> "waiting"
              [] row.status = "OPEN" -> "holding"
              [] row.status = "CLOSED" -> "closed"
              [] row.status = "CANCELLED" -> "cancelled",
    bought <- filled[Entry] > 0,
    dead <- state[Entry] = "dead",
    exited <- ExitDone
ImplementsLife == Life!Spec

(* At the square-off time an open position gets its closing order, whatever *)
(* was refused before, unless a process crashed, perhaps with the lock in   *)
(* hand, or the bound on market orders is used up.                          *)
SquareOffSent ==
    (eod /\ row.status = "OPEN" /\ up \cap Monitors # {})
        ~> (row.status # "OPEN" \/ Confirmed("eod") # {} \/ crashes > 0 \/ Unsent = {})
=============================================================================
