----------------------------- MODULE SignalPool -----------------------------
(***************************************************************************)
(* The pool of candidate signals of one process that runs the intelligence *)
(* pipeline (an API replica or a signal engine worker).  It keeps the      *)
(* signals of a symbol for a window in memory, then hands them as a group  *)
(* to the consolidation layer.  What is pending is mirrored in one Redis   *)
(* hash per symbol, restored after a restart.  Other processes use the     *)
(* same hashes; they are here by what they do to Redis.                    *)
(*                                                                         *)
(* asyncio: between two awaits nothing else of the process runs; the lock  *)
(* of the pool is held over the awaits of add_signal.  A call to Redis     *)
(* takes less than a unit of time.  Timers count up to a bound or down.    *)
(***************************************************************************)
EXTENDS Consolidation, FiniteSets

CONSTANTS
    Ids,        \* symbol_id; 0 for every symbol of a scheduled scan
    SymbolId,   \* symbol_id of a signal
    Strategy,   \* strategy_name of a signal
    Foreign,    \* signals that come to another process
    Timeless,   \* signals stamped with the time of the scan: never repeated
    Window,     \* window_seconds
    MaxWait,    \* how long a callback and the flush loop may delay a group
    MirrorTTL,  \* of the hash: max(15, 3 * window_seconds)
    DedupTTL,   \* 600 s
    None

ASSUME PoolAssumption ==
    /\ SymbolId \in [Signals -> Ids]
    /\ {Entry, Stop, Target} \subseteq [Signals -> Int]
    /\ Foreign \subseteq Signals /\ Timeless \subseteq Signals
    /\ {Window, MaxWait, MirrorTTL, DedupTTL} \subseteq Nat \ {0}
    /\ Window <= MaxWait /\ MaxWait < MirrorTTL
    /\ None \notin Signals /\ None \notin Nat

VARIABLES
    phase,      \* _run: recovery, then the flush loop
    heard,      \* values that came in this unit of time
    coming,     \* signals on their way to add_signal
    adding,     \* the signal add_signal is mirroring: it holds the lock
    saved,      \* its hset is done
    pool,       \* _pool: signals of each symbol
    wait,       \* time since _first_signal_time, None without one
    groups,     \* to_flush: groups to be handed to the callback
    deletes,    \* tasks that delete a hash
    toRead,     \* keys recovery has still to read
    read,       \* the hash recovery has read and not restored
    mirror,     \* the hashes in Redis
    left,       \* what is left of their TTL, None without one
    dedupLeft,  \* what is left of the TTL of the dedup:sig keys
    due,        \* signals the process has accepted and not handed over
    spoiled     \* symbols whose hash met one of the accidents below

lock == <<adding, saved>>
recovery == <<toRead, read>>
redis == <<mirror, left, dedupLeft>>
vars == <<phase, heard, coming, lock, pool, wait, groups, deletes, recovery, redis, due,
          spoiled>>

Pending == UNION {pool[id] : id \in Ids}
LockFree == adding = None

\* What a process has in memory when it starts.
Forget ==
    /\ coming' = {} /\ adding' = None /\ saved' = FALSE
    /\ pool' = [id \in Ids |-> {}] /\ wait' = [id \in Ids |-> None]
    /\ groups' = {} /\ deletes' = {} /\ toRead' = {} /\ read' = {}
    /\ due' = {}

Init ==
    /\ phase = "down"
    /\ heard = {} /\ coming = {} /\ adding = None /\ saved = FALSE
    /\ pool = [id \in Ids |-> {}] /\ wait = [id \in Ids |-> None]
    /\ groups = {} /\ deletes = {} /\ toRead = {} /\ read = {}
    /\ mirror = [id \in Ids |-> {}] /\ left = [id \in Ids |-> None]
    /\ dedupLeft = [s \in Signals |-> 0]
    /\ due = {} /\ spoiled = {}

-----------------------------------------------------------------------------
(* Signals come from candles, from the scanner or from a scheduled scan.   *)

\* is_duplicate: SET NX records a new signal at once.
IsNew(s) ==
    \/ s \in Timeless /\ UNCHANGED dedupLeft
    \/ /\ s \notin Timeless
       /\ dedupLeft[s] = 0
       /\ dedupLeft' = [dedupLeft EXCEPT ![s] = DedupTTL]

\* A candle or a candidate of the scanner; a duplicate is skipped.  Bounds: a
\* value comes once in a unit of time, and not again while it is in a group.
Accept(s) ==
    /\ phase # "down" /\ s \notin Foreign
    /\ s \notin heard \cup coming \cup UNION groups
    /\ heard' = heard \cup {s}
    /\ IsNew(s)
    /\ coming' = coming \cup {s}
    /\ UNCHANGED <<phase, lock, pool, wait, groups, deletes, recovery, mirror, left, due,
                   spoiled>>

SameSlot(s, t) == SymbolId[s] = SymbolId[t] /\ Strategy[s] = Strategy[t]

\* Mutant of Put: one signal per symbol.
PutOnly(S, s) == {s}

\* The newest signal of a strategy replaces the one before.
Put(S, s) == {t \in S : Strategy[t] # Strategy[s]} \cup {s}

\* Mutant of Since: each signal starts the window again.
SinceLast(w) == 0

\* The window runs from the first signal.
Since(w) == IF w = None THEN 0 ELSE w

\* add_signal up to its first await.
AddSignal(s) ==
    /\ s \in coming /\ LockFree
    /\ coming' = coming \ {s}
    /\ adding' = s
    /\ pool' = [pool EXCEPT ![SymbolId[s]] = Put(@, s)]
    /\ wait' = [wait EXCEPT ![SymbolId[s]] = Since(@)]
    /\ due' = {t \in due : ~SameSlot(s, t)} \cup {s}
    /\ UNCHANGED <<phase, heard, saved, groups, deletes, recovery, redis, spoiled>>

\* hset creates the hash without a TTL.
Save ==
    /\ ~LockFree /\ ~saved
    /\ mirror' = [mirror EXCEPT ![SymbolId[adding]] = Put(@, adding)]
    /\ saved' = TRUE
    /\ UNCHANGED <<phase, heard, coming, adding, pool, wait, groups, deletes, recovery,
                   left, dedupLeft, due, spoiled>>

\* expire; it does nothing without the key.
Expire ==
    /\ ~LockFree /\ saved
    /\ left' = [left EXCEPT ![SymbolId[adding]] =
                  IF mirror[SymbolId[adding]] = {} THEN None ELSE MirrorTTL]
    /\ adding' = None /\ saved' = FALSE
    /\ UNCHANGED <<phase, heard, coming, pool, wait, groups, deletes, recovery, mirror,
                   dedupLeft, due, spoiled>>

\* Redis fails one of the two calls: an error is logged.
SaveFails ==
    /\ ~LockFree
    /\ spoiled' = spoiled \cup {SymbolId[adding]}
    /\ adding' = None /\ saved' = FALSE
    /\ UNCHANGED <<phase, heard, coming, pool, wait, groups, deletes, recovery, redis, due>>

-----------------------------------------------------------------------------
(* The flush loop.                                                         *)

Ripe == {id \in Ids : wait[id] # None /\ wait[id] >= Window}

\* Mutant of CheckAndFlush: the hash is left to expire.
FlushOnly ==
    /\ phase = "running" /\ groups = {} /\ LockFree
    /\ Ripe # {}
    /\ groups' = {pool[id] : id \in Ripe} \ {{}}
    /\ pool' = [id \in Ids |-> IF id \in Ripe THEN {} ELSE pool[id]]
    /\ wait' = [id \in Ids |-> IF id \in Ripe THEN None ELSE wait[id]]
    /\ UNCHANGED <<phase, heard, coming, lock, deletes, recovery, redis, due, spoiled>>

\* Mutant of CheckAndFlush: the time of the first signal stays.
FlushKeepsTime ==
    /\ phase = "running" /\ groups = {} /\ LockFree
    /\ Ripe # {}
    /\ groups' = {pool[id] : id \in Ripe} \ {{}}
    /\ pool' = [id \in Ids |-> IF id \in Ripe THEN {} ELSE pool[id]]
    /\ deletes' = deletes \cup Ripe
    /\ UNCHANGED <<phase, heard, coming, lock, wait, recovery, redis, due, spoiled>>

\* _check_and_flush up to the callbacks; nobody awaits the deletes.
CheckAndFlush ==
    /\ phase = "running" /\ groups = {} /\ LockFree
    /\ Ripe # {}
    /\ groups' = {pool[id] : id \in Ripe} \ {{}}
    /\ pool' = [id \in Ids |-> IF id \in Ripe THEN {} ELSE pool[id]]
    /\ wait' = [id \in Ids |-> IF id \in Ripe THEN None ELSE wait[id]]
    /\ deletes' = deletes \cup Ripe
    /\ UNCHANGED <<phase, heard, coming, lock, recovery, redis, due, spoiled>>

\* process_signal_group; an exception in a callback is logged.
HandOver ==
    /\ \E g \in groups : groups' = groups \ {g} /\ due' = due \ g
    /\ UNCHANGED <<phase, heard, coming, lock, pool, wait, deletes, recovery, redis, spoiled>>

\* A signal that came after the flush loses its copy; else nothing is left of
\* an accident before.
Delete(id) ==
    /\ id \in deletes
    /\ deletes' = deletes \ {id}
    /\ mirror' = [mirror EXCEPT ![id] = {}]
    /\ left' = [left EXCEPT ![id] = None]
    /\ spoiled' = IF pool[id] = {} THEN spoiled \ {id} ELSE spoiled \cup {id}
    /\ UNCHANGED <<phase, heard, coming, lock, pool, wait, groups, recovery, dedupLeft, due>>

DeleteFails(id) ==
    /\ id \in deletes
    /\ deletes' = deletes \ {id}
    /\ spoiled' = spoiled \cup {id}
    /\ UNCHANGED <<phase, heard, coming, lock, pool, wait, groups, recovery, redis, due>>

-----------------------------------------------------------------------------
(* Crash and recovery.                                                     *)

Crash ==
    /\ phase # "down"
    /\ phase' = "down"
    /\ Forget
    /\ UNCHANGED <<heard, redis, spoiled>>

\* start, and the scan for signal_pool:* keys.
Start ==
    /\ phase = "down"
    /\ phase' = "recovering"
    /\ toRead' = {id \in Ids : mirror[id] # {}}
    /\ UNCHANGED <<heard, coming, lock, pool, wait, groups, deletes, read, redis, due, spoiled>>

\* hgetall; the lock is taken afterwards.
ReadKey(id) ==
    /\ id \in toRead /\ read = {}
    /\ toRead' = toRead \ {id}
    /\ read' = mirror[id]
    /\ UNCHANGED <<phase, heard, coming, lock, pool, wait, groups, deletes, redis, due, spoiled>>

\* What was read replaces what has come since, and is spoiled by that if it is
\* no longer what Redis has.
Restored(S) == {t \in S : \A s \in read : Strategy[t] # Strategy[s]} \cup read

Restore(id) ==
    /\ LockFree /\ id \in {SymbolId[s] : s \in read}
    /\ pool' = [pool EXCEPT ![id] = Restored(@)]
    /\ wait' = [wait EXCEPT ![id] = Since(@)]
    /\ due' = {t \in due : \A s \in read : ~SameSlot(s, t)} \cup read
    /\ spoiled' = IF read \subseteq mirror[id] THEN spoiled ELSE spoiled \cup {id}
    /\ read' = {}
    /\ UNCHANGED <<phase, heard, coming, lock, groups, deletes, toRead, redis>>

\* All is restored, or Redis fails; the flush loop begins.
RecoveryEnds ==
    /\ phase = "recovering" /\ read = {}
    /\ phase' = "running"
    /\ toRead' = {}
    /\ spoiled' = spoiled \cup toRead
    /\ UNCHANGED <<heard, coming, lock, pool, wait, groups, deletes, read, redis, due>>

-----------------------------------------------------------------------------
(* Other processes, and time.                                              *)

OtherSaves(s) ==
    /\ s \in Foreign
    /\ mirror' = [mirror EXCEPT ![SymbolId[s]] = Put(@, s)]
    /\ left' = [left EXCEPT ![SymbolId[s]] = MirrorTTL]
    /\ spoiled' = spoiled \cup {SymbolId[s]}
    /\ UNCHANGED <<phase, heard, coming, lock, pool, wait, groups, deletes, recovery,
                   dedupLeft, due>>

OtherDeletes(id) ==
    /\ id \in {SymbolId[s] : s \in Foreign}
    /\ mirror' = [mirror EXCEPT ![id] = {}]
    /\ left' = [left EXCEPT ![id] = None]
    /\ spoiled' = spoiled \cup {id}
    /\ UNCHANGED <<phase, heard, coming, lock, pool, wait, groups, deletes, recovery,
                   dedupLeft, due>>

Down(n) == IF n = 0 THEN 0 ELSE n - 1

\* A TTL that ends takes the hash with it, pending signals or not.
Tick ==
    /\ LockFree /\ deletes = {}
    /\ \A id \in Ids : wait[id] # None => wait[id] < MaxWait
    /\ heard' = {}
    /\ wait' = [id \in Ids |-> IF wait[id] = None THEN None ELSE wait[id] + 1]
    /\ left' = [id \in Ids |-> IF left[id] \in {None, 1} THEN None ELSE left[id] - 1]
    /\ mirror' = [id \in Ids |-> IF left[id] = 1 THEN {} ELSE mirror[id]]
    /\ dedupLeft' = [s \in Signals |-> Down(dedupLeft[s])]
    /\ spoiled' = spoiled \cup {id \in Ids : left[id] = 1 /\ pool[id] # {}}
    /\ UNCHANGED <<phase, coming, lock, pool, groups, deletes, recovery, due>>

-----------------------------------------------------------------------------
Recover == (\E id \in Ids : ReadKey(id) \/ Restore(id)) \/ RecoveryEnds

Next ==
    \/ \E s \in Signals : Accept(s) \/ AddSignal(s)
    \/ Save \/ Expire \/ SaveFails
    \/ CheckAndFlush \/ HandOver
    \/ \E id \in Ids : Delete(id) \/ DeleteFails(id)
    \/ Crash \/ Start \/ Recover
    \/ \E s \in Signals : OtherSaves(s)
    \/ \E id \in Ids : OtherDeletes(id)
    \/ Tick

Spec == Init /\ [][Next]_vars

\* The event loop runs every task; asyncio.Lock serves its waiters in order,
\* so signals that keep coming keep neither the flush loop nor recovery out.
Fairness ==
    /\ WF_vars(Save \/ Expire \/ SaveFails)
    /\ SF_vars(CheckAndFlush) /\ WF_vars(HandOver)
    /\ WF_vars(\E id \in Ids : Delete(id) \/ DeleteFails(id))
    /\ SF_vars(Recover)
    /\ SF_vars(Tick)

FairSpec == Spec /\ Fairness

-----------------------------------------------------------------------------
TypeOK ==
    /\ phase \in {"down", "recovering", "running"}
    /\ heard \subseteq Signals /\ coming \subseteq Signals
    /\ adding \in Signals \cup {None} /\ saved \in BOOLEAN
    /\ pool \in [Ids -> SUBSET Signals]
    /\ wait \in [Ids -> {None} \cup (0 .. MaxWait)]
    /\ groups \subseteq SUBSET Signals /\ deletes \subseteq Ids
    /\ toRead \subseteq Ids /\ read \subseteq Signals
    /\ mirror \in [Ids -> SUBSET Signals]
    /\ left \in [Ids -> {None} \cup (1 .. MirrorTTL)]
    /\ dedupLeft \in [Signals -> 0 .. DedupTTL]
    /\ due \subseteq Signals /\ spoiled \subseteq Ids
    /\ \A id \in Ids : wait[id] = None <=> pool[id] = {}

(* A signal that add_signal has taken is in the pool or in a group that    *)
(* waits for the callback, until it is handed over, replaced by a newer    *)
(* one of its strategy, or the process dies (_check_and_flush).            *)
NothingLost == due \subseteq Pending \cup UNION groups

(* What a running process has pending is what Redis would restore,         *)
(* whenever no call is under way ("Recover pending signals from Redis      *)
(* after a restart"), but for the accidents that spoil a symbol until its  *)
(* hash is deleted in time: a call that failed, a delete after a newer     *)
(* signal, a hash that expired after recovery, a recovery that read before *)
(* a newer signal, other processes.                                        *)
MirrorOfPool ==
    phase = "running" /\ LockFree =>
        \A id \in Ids \ (spoiled \cup deletes) : mirror[id] = pool[id]

(* Signals that keep coming do not hold back a group: what is pending is   *)
(* handed over or replaced, unless the process dies (_flush_loop).         *)
Flushed == \A s \in Signals : s \in due ~> s \notin due

(* The consolidated signal has every signal of its group and keeps their   *)
(* best stop and target.                                                   *)
TightestStop ==
    \A g \in groups : \A c \in Consolidated(g) : c.members = g /\ BestOf(c)

(* The inductive strengthening behind the theorems of SignalPoolProofs.    *)
\* A pool and a hash hold signals of their symbol, one of each strategy.
Slotted(S, id) ==
    \A s, t \in S : SymbolId[s] = id /\ (Strategy[s] = Strategy[t] => s = t)

Sorted ==
    /\ \A id \in Ids : Slotted(pool[id], id) /\ Slotted(mirror[id], id)
    /\ \A s \in read : Slotted(read, SymbolId[s])

\* Recovery works while the process recovers, deletes are for later; the
\* signal that is being mirrored is in the pool.
Phases ==
    /\ phase = "down" => coming = {} /\ Pending = {} /\ LockFree
    /\ phase # "recovering" => toRead = {} /\ read = {}
    /\ phase # "running" => deletes = {} /\ groups = {}
    /\ IF LockFree THEN ~saved ELSE adding \in pool[SymbolId[adding]]

\* The hash once the call under way is done.
MirrorToBe(id) ==
    IF ~LockFree /\ ~saved /\ SymbolId[adding] = id THEN Put(mirror[id], adding)
    ELSE mirror[id]

\* Recovery has dealt with the hash of a symbol.
Settled(id) == id \notin toRead /\ \A s \in read : SymbolId[s] # id

\* Until recovery has dealt with it the pool has less than the hash, and what
\* it lacks is what recovery has read.
Mirrored ==
    phase # "down" =>
        \A id \in Ids \ (spoiled \cup deletes) :
            /\ pool[id] \subseteq MirrorToBe(id)
            /\ Settled(id) => MirrorToBe(id) \subseteq pool[id]
            /\ id \notin toRead => MirrorToBe(id) \subseteq pool[id] \cup read

PoolInv == TypeOK /\ Sorted /\ Phases /\ NothingLost /\ Mirrored
=============================================================================
