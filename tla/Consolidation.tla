---------------------------- MODULE Consolidation ----------------------------
(***************************************************************************)
(* The consolidation layer: the signals of one symbol that were pooled     *)
(* together become one signal, or none when they disagree.                 *)
(***************************************************************************)
EXTENDS Integers, Sequences, SequencesExt

CONSTANTS
    Signals,
    Dir,                    \* "BUY" or "SELL"
    CandleTime,
    Entry, Stop, Target     \* prices; a missing stop or target is 0

Conflict(g) == {Dir[s] : s \in g} = {"BUY", "SELL"}

\* The list may be in any order among signals of the same time.
Chronological(g) ==
    {l \in SetToSeqs(g) : \A i, j \in DOMAIN l : i < j => CandleTime[l[i]] <= CandleTime[l[j]]}

Primary(s) ==
    [dir |-> Dir[s], entry |-> Entry[s], stop |-> Stop[s], target |-> Target[s],
     first |-> CandleTime[s], last |-> CandleTime[s], context |-> s, members |-> {s}]

Gap(x, y) == IF x < y THEN y - x ELSE x - y

\* Mutant of Tighter: the last stop is the one that counts.
AnyStop(c, s) == Stop[s] # 0

Tighter(c, s) == Stop[s] # 0 /\ Gap(Entry[s], Stop[s]) < Gap(c.entry, c.stop)
Wider(c, s) == Target[s] # 0 /\ Gap(Target[s], Entry[s]) > Gap(c.target, c.entry)

\* The market regime and relative strength are those of the latest signal.
merge(c, s) ==
    [c EXCEPT !.members = @ \cup {s},
              !.first   = IF CandleTime[s] < @ THEN CandleTime[s] ELSE @,
              !.last    = IF CandleTime[s] > @ THEN CandleTime[s] ELSE @,
              !.context = IF CandleTime[s] > c.last THEN s ELSE @,
              !.stop    = IF Tighter(c, s) THEN Stop[s] ELSE @,
              !.target  = IF Wider(c, s) THEN Target[s] ELSE @]

\* What a group may become: nothing, or one signal.
Consolidated(g) ==
    IF g = {} \/ Conflict(g) THEN {}
    ELSE {FoldLeft(merge, Primary(Head(l)), Tail(l)) : l \in Chronological(g)}

(* A merged signal keeps the tightest stop and the widest target of its    *)
(* members, in whatever order they are merged, when they enter at the same *)
(* price ("Use tighter stop / wider target"); with different entries the   *)
(* code compares each distance to its own entry and mixes the prices.      *)
BestOf(c) ==
    \A s \in c.members :
        /\ c.members \subseteq {t \in Signals : Entry[t] = c.entry}
        => /\ Stop[s] # 0 => Gap(c.entry, c.stop) <= Gap(c.entry, Stop[s])
           /\ Target[s] # 0 => Gap(c.target, c.entry) >= Gap(Target[s], c.entry)
=============================================================================
