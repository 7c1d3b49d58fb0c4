-------------------------- MODULE SignalPathProofs --------------------------
(***************************************************************************)
(* The path of a signal, from the strategies that find it to the worker    *)
(* that executes it, for every value of the constants of both modules.     *)
(* Of SignalPipeline: a strategy finds what it would find alone            *)
(* (RunnerInv), a message speaks with one voice (VoiceInv), a pause holds  *)
(* (HealthInv); what FoldLeft makes of a list is shown on smallest sets    *)
(* of places.  Of SignalDelivery: a candle signal is executed at most      *)
(* once, when KeyTTL > StaleAge + MaxStall (DeliveryInv).  The invariants  *)
(* are inductive; a lemma for each conjunct or step, a case for each       *)
(* action.                                                                 *)
(***************************************************************************)
EXTENDS SignalPipeline, SignalDelivery, FiniteSetTheorems, WellFoundedInduction, TLAPS

-----------------------------------------------------------------------------
(* Folds.  A list is folded over the sets of its places, the last place    *)
(* first, so what holds of a fold is shown for a smallest set of places.   *)

\* Of the sets of a finite set that are bad there is one with no bad part.
LEMMA SmallestSet ==
  ASSUME NEW S, IsFiniteSet(S), NEW B \in SUBSET SUBSET S, B # {}
  PROVE  \E T \in B : \A x \in T : T \ {x} \notin B
<1> DEFINE R == StrictSubsetOrdering(S)
<1>1. B \subseteq FiniteSubsetsOf(S)
  BY FS_Subset DEF FiniteSubsetsOf
<1>2. PICK T \in B : \A y \in B : <<y, T>> \notin R
  <2>1. IsWellFoundedOn(R, FiniteSubsetsOf(S))
    BY FS_StrictSubsetOrderingWellFounded
  <2> HIDE DEF R
  <2> QED
    BY <1>1, <2>1, WFMin
<1>3. ASSUME NEW x \in T, T \ {x} \in B PROVE FALSE
  <2>1. <<T \ {x}, T>> \notin R
    BY <1>2, <1>3
  <2>2. T \ {x} \in SUBSET S /\ T \in SUBSET S /\ T \ {x} # T /\ T \ {x} \subseteq T
    BY <1>3
  <2> QED
    BY <2>1, <2>2 DEF StrictSubsetOrdering
<1> QED
  BY <1>3

\* A finite set of places has a last one.
LEMMA LastIsIn ==
  ASSUME NEW S \in SUBSET Nat, IsFiniteSet(S), S # {}
  PROVE  Max(S) \in S
<1> DEFINE B == {s \in SUBSET S : s # {} /\ ~\E x \in s : \A y \in s : x >= y}
<1>1. CASE B = {}
  <2>1. \E x \in S : \A y \in S : x >= y
    BY <1>1
  <2> QED
    BY <2>1 DEF Max
<1>2. ASSUME B # {} PROVE FALSE
  <2>1. PICK s \in B : \A x \in s : s \ {x} \notin B
    <3>1. B \in SUBSET SUBSET S
      OBVIOUS
    <3> HIDE DEF B
    <3> QED
      BY <1>2, <3>1, SmallestSet
  <2>2. PICK x \in s : s \ {x} \notin B
    BY <2>1
  <2>3. CASE s = {x}
    BY <2>1, <2>3
  <2>4. CASE s # {x}
    <3>1. PICK y \in s \ {x} : \A z \in s \ {x} : y >= z
      BY <2>1, <2>2, <2>4
    <3>2. x \in Nat /\ y \in Nat /\ \A z \in s : z \in Nat
      BY <2>1
    <3>3. CASE x >= y
      <4>1. \A z \in s : x >= z
        BY <3>1, <3>2, <3>3
      <4> QED
        BY <2>1, <4>1
    <3>4. CASE y >= x
      <4>1. \A z \in s : y >= z
        BY <3>1, <3>2, <3>4
      <4> QED
        BY <2>1, <4>1
    <3> QED
      BY <3>2, <3>3, <3>4
  <2> QED
    BY <2>3, <2>4
<1> QED
  BY <1>1, <1>2

\* What comes of every part has D, if nothing and one place more have it.
LEMMA AllParts ==
  ASSUME NEW S, IsFiniteSet(S), S \in SUBSET Nat, NEW g, NEW D, g[{}] \in D,
         \A s \in SUBSET S : s # {} /\ g[s \ {Max(s)}] \in D => g[s] \in D
  PROVE  \A s \in SUBSET S : g[s] \in D
<1> DEFINE B == {s \in SUBSET S : g[s] \notin D}
<1> SUFFICES ASSUME B # {} PROVE FALSE
  OBVIOUS
<1>1. PICK s \in B : \A x \in s : s \ {x} \notin B
  <2>1. B \in SUBSET SUBSET S
    OBVIOUS
  <2> HIDE DEF B
  <2> QED
    BY <2>1, SmallestSet
<1>2. s \in SUBSET S /\ g[s] \notin D /\ s # {} /\ IsFiniteSet(s)
  BY <1>1, FS_Subset
<1>3. Max(s) \in s
  BY <1>2, LastIsIn
<1>4. s \ {Max(s)} \in SUBSET S /\ s \ {Max(s)} \notin B
  BY <1>1, <1>2, <1>3
<1> QED
  BY <1>2, <1>4

\* The table of a fold: for each set of places what F makes of b there.
IsTable(g, F, b, l, S) ==
    g = [s \in SUBSET S |-> IF s = {} THEN b ELSE F[<<g[s \ {Max(s)}], l[Max(s)]>>]]

\* The tables of two sets of places agree on the sets that both have.
LEMMA TablesAgree ==
  ASSUME NEW S \in SUBSET Nat, IsFiniteSet(S), NEW T, S \subseteq T, NEW b, NEW l, NEW F,
         NEW g, IsTable(g, F, b, l, S), NEW h, IsTable(h, F, b, l, T)
  PROVE  \A s \in SUBSET S : g[s] = h[s]
<1> DEFINE B == {s \in SUBSET S : g[s] # h[s]}
<1> SUFFICES ASSUME B # {} PROVE FALSE
  OBVIOUS
<1>1. PICK s \in B : \A x \in s : s \ {x} \notin B
  <2>1. B \in SUBSET SUBSET S
    OBVIOUS
  <2> HIDE DEF B
  <2> QED
    BY <2>1, SmallestSet
<1>2. s \in SUBSET S /\ s \in SUBSET T /\ g[s] # h[s] /\ IsFiniteSet(s) /\ s \in SUBSET Nat
  BY <1>1, FS_Subset
<1>3. /\ g[s] = IF s = {} THEN b ELSE F[<<g[s \ {Max(s)}], l[Max(s)]>>]
      /\ h[s] = IF s = {} THEN b ELSE F[<<h[s \ {Max(s)}], l[Max(s)]>>]
  BY <1>2 DEF IsTable
<1>4. CASE s = {}
  BY <1>2, <1>3, <1>4
<1>5. CASE s # {}
  <2>1. s \ {Max(s)} \in SUBSET S /\ s \ {Max(s)} \notin B
    BY <1>1, <1>2, <1>5, LastIsIn
  <2>2. g[s \ {Max(s)}] = h[s \ {Max(s)}]
    BY <2>1
  <2> QED
    BY <1>2, <1>3, <1>5, <2>2
<1> QED
  BY <1>4, <1>5

(* Every finite set of places has a table.                                 *)
LEMMA TableExists ==
  ASSUME NEW S \in SUBSET Nat, IsFiniteSet(S), NEW b, NEW l, NEW F
  PROVE  \E g : IsTable(g, F, b, l, S)
<1> DEFINE B == {s \in SUBSET S : ~\E g : IsTable(g, F, b, l, s)}
<1> SUFFICES ASSUME B # {} PROVE FALSE
  OBVIOUS
<1>1. PICK s \in B : \A x \in s : s \ {x} \notin B
  <2>1. B \in SUBSET SUBSET S
    OBVIOUS
  <2> HIDE DEF B
  <2> QED
    BY <2>1, SmallestSet
<1>2. s \in SUBSET S /\ IsFiniteSet(s) /\ s \in SUBSET Nat
  BY <1>1, FS_Subset
<1> DEFINE G(x) == CHOOSE g : IsTable(g, F, b, l, s \ {x})
           V(u, g) == IF u = {} THEN b ELSE F[<<g[u \ {Max(u)}], l[Max(u)]>>]
<1>3. \A x \in s : IsTable(G(x), F, b, l, s \ {x}) /\ IsFiniteSet(s \ {x})
  BY <1>1, <1>2, FS_Subset
<1>4. \A x, y \in s : \A u \in SUBSET (s \ {x, y}) : G(x)[u] = G(y)[u]
  <2> SUFFICES ASSUME NEW x \in s, NEW y \in s, NEW u \in SUBSET (s \ {x, y})
               PROVE  G(x)[u] = G(y)[u]
    OBVIOUS
  <2> DEFINE r == s \ {x, y}
             k == [v \in SUBSET r |-> G(x)[v]]
  <2>1. /\ IsTable(G(x), F, b, l, s \ {x}) /\ IsTable(G(y), F, b, l, s \ {y})
        /\ IsFiniteSet(r) /\ r \in SUBSET Nat
    BY <1>2, <1>3, FS_Subset
  <2> HIDE DEF G
  <2>2. IsTable(k, F, b, l, r)
    <3>1. \A v \in SUBSET r : G(x)[v] = V(v, G(x))
      BY <2>1 DEF IsTable
    <3>2. \A v \in SUBSET r : v \ {Max(v)} \in SUBSET r
      OBVIOUS
    <3>3. \A v \in SUBSET r : V(v, G(x)) = V(v, k)
      BY <3>2
    <3>4. k = [v \in SUBSET r |-> V(v, k)]
      BY <3>1, <3>3
    <3> QED
      BY <3>4 DEF IsTable
  <2> HIDE DEF k
  <2>3. k[u] = G(x)[u] /\ k[u] = G(y)[u]
    <3>1. r \subseteq s \ {x} /\ r \subseteq s \ {y} /\ u \in SUBSET r
      OBVIOUS
    <3> HIDE DEF r
    <3> QED
      BY <2>1, <2>2, <3>1, TablesAgree
  <2> QED
    BY <2>3
<1> DEFINE At(u) == G(CHOOSE x \in s : x \notin u)[u]
           h == [u \in SUBSET s |->
                   IF u = s
                     THEN IF s = {} THEN b ELSE F[<<At(s \ {Max(s)}), l[Max(s)]>>]
                     ELSE At(u)]
<1>5. IsTable(h, F, b, l, s)
  <2>1. \A u \in SUBSET s : \A x \in s \ u : At(u) = G(x)[u]
    <3> SUFFICES ASSUME NEW u \in SUBSET s, NEW x \in s \ u PROVE At(u) = G(x)[u]
      OBVIOUS
    <3> DEFINE y == CHOOSE z \in s : z \notin u
    <3>1. y \in s /\ y \notin u
      OBVIOUS
    <3> HIDE DEF y
    <3>2. u \in SUBSET (s \ {y, x})
      BY <3>1
    <3>3. G(y)[u] = G(x)[u]
      BY <1>4, <3>1, <3>2
    <3> QED
      BY <3>3 DEF y
  <2>2. \A u \in SUBSET s : u # s => h[u] = V(u, h)
    <3> SUFFICES ASSUME NEW u \in SUBSET s, NEW x \in s \ u PROVE h[u] = V(u, h)
      OBVIOUS
    <3>1. h[u] = G(x)[u]
      BY <2>1
    <3>2. G(x)[u] = V(u, G(x))
      <4>1. IsTable(G(x), F, b, l, s \ {x}) /\ u \in SUBSET (s \ {x})
        BY <1>3
      <4> HIDE DEF G, h, At
      <4> QED
        BY <4>1 DEF IsTable
    <3>3. h[u \ {Max(u)}] = G(x)[u \ {Max(u)}]
      <4> DEFINE v == u \ {Max(u)}
      <4>1. v \in SUBSET s /\ x \in s \ v
        OBVIOUS
      <4> HIDE DEF v
      <4>2. h[v] = At(v) /\ At(v) = G(x)[v]
        BY <2>1, <4>1
      <4> QED
        BY <4>2 DEF v
    <3> HIDE DEF h, G
    <3> QED
      BY <3>1, <3>2, <3>3
  <2>3. h[s] = V(s, h)
    <3>1. CASE s = {}
      BY <3>1
    <3>2. CASE s # {}
      <4>1. s \ {Max(s)} \in SUBSET s /\ s \ {Max(s)} # s
        BY <1>2, <3>2, LastIsIn
      <4>2. h[s \ {Max(s)}] = At(s \ {Max(s)})
        BY <4>1
      <4>3. h[s] = F[<<At(s \ {Max(s)}), l[Max(s)]>>]
        BY <3>2
      <4> HIDE DEF h, At
      <4> QED
        BY <3>2, <4>2, <4>3
    <3> QED
      BY <3>1, <3>2
  <2>4. h = [u \in SUBSET s |-> h[u]]
    OBVIOUS
  <2> HIDE DEF h
  <2>5. h = [u \in SUBSET s |-> V(u, h)]
    <3>1. \A u \in SUBSET s : h[u] = V(u, h)
      BY <2>2, <2>3
    <3> HIDE DEF V
    <3> QED
      BY <2>4, <3>1
  <2> QED
    BY <2>5 DEF IsTable
<1> HIDE DEF h
<1> QED
  BY <1>1, <1>5

(* Where F leads from D to D, the table is the one a fold by F chooses.    *)
LEMMA TableInD ==
  ASSUME NEW S \in SUBSET Nat, IsFiniteSet(S), NEW D, NEW E, NEW F \in [D \X E -> D],
         NEW b \in D, NEW l, \A i \in S : l[i] \in E
  PROVE  \E g \in [SUBSET S -> D] : IsTable(g, F, b, l, S)
<1>1. PICK g : IsTable(g, F, b, l, S)
  BY TableExists
<1>2. /\ g = [s \in SUBSET S |-> g[s]]
      /\ \A s \in SUBSET S : g[s] = IF s = {} THEN b ELSE F[<<g[s \ {Max(s)}], l[Max(s)]>>]
  BY <1>1 DEF IsTable
<1>3. g[{}] \in D
  BY <1>2
<1>4. ASSUME NEW s \in SUBSET S, s # {}, g[s \ {Max(s)}] \in D PROVE g[s] \in D
  <2>1. Max(s) \in S
    BY <1>4, LastIsIn, FS_Subset
  <2> QED
    BY <1>2, <1>4, <2>1
<1>5. \A s \in SUBSET S : g[s] \in D
  BY <1>3, <1>4, AllParts
<1> QED
  BY <1>1, <1>2, <1>5 DEF IsTable

\* The elements kept are elements of the list, and in T.
LEMMA KeepIsIn ==
  ASSUME NEW C, NEW T, NEW l \in Seq(C)
  PROVE  Keep(l, T) \in Seq(C \cap T)
<1> DEFINE S == DOMAIN l
           D == Seq(C \cap T)
           op(k, x) == IF x \in T THEN Append(k, x) ELSE k
           F == [z \in D \X C |-> op(z[1], z[2])]
           Fold(g) == g = [s \in SUBSET S |->
                             IF s = {} THEN <<>> ELSE op(g[s \ {Max(s)}], l[Max(s)])]
           c == CHOOSE g : Fold(g)
<1>1. S \in SUBSET Nat /\ IsFiniteSet(S) /\ \A i \in S : l[i] \in C
  <2>1. S = 1 .. Len(l) /\ Len(l) \in Nat
    OBVIOUS
  <2> QED
    BY <2>1, FS_Interval
<1>2. Keep(l, T) = c[S]
  BY DEF Keep, FoldLeft, MapThenFoldSet
<1>3. F \in [D \X C -> D] /\ \A k \in D, x \in C : F[<<k, x>>] = op(k, x)
  <2>1. \A k \in D, x \in C : op(k, x) \in D
    OBVIOUS
  <2> QED
    BY <2>1
<1> HIDE DEF S
<1> DEFINE e == <<>>
<1>4. PICK g \in [SUBSET S -> D] : IsTable(g, F, e, l, S)
  <2>1. e \in D /\ F \in [D \X C -> D]
    BY <1>3
  <2> HIDE DEF F, D, e, op, Fold, c
  <2>2. S \in SUBSET Nat /\ IsFiniteSet(S) /\ \A i \in S : l[i] \in C
    BY <1>1
  <2> QED
    BY <2>1, <2>2, TableInD
<1>5. Fold(g)
  <2>1. \A s \in SUBSET S : s # {} => Max(s) \in S
    BY <1>1, LastIsIn, FS_Subset
  <2> HIDE DEF F, D, op
  <2>2. \A s \in SUBSET S : s # {} =>
          F[<<g[s \ {Max(s)}], l[Max(s)]>>] = op(g[s \ {Max(s)}], l[Max(s)])
    BY <1>1, <1>3, <2>1
  <2>3. [s \in SUBSET S |-> IF s = {} THEN <<>> ELSE F[<<g[s \ {Max(s)}], l[Max(s)]>>]]
        = [s \in SUBSET S |-> IF s = {} THEN <<>> ELSE op(g[s \ {Max(s)}], l[Max(s)])]
    BY <2>2
  <2> QED
    BY <1>4, <2>3 DEF IsTable
<1>6. Fold(c)
  <2> HIDE DEF Fold
  <2> QED
    BY <1>5
<1> HIDE DEF c
<1>7. c[{}] \in D
  BY <1>6
<1>8. ASSUME NEW s \in SUBSET S, s # {}, c[s \ {Max(s)}] \in D PROVE c[s] \in D
  <2>1. l[Max(s)] \in C
    BY <1>1, <1>8, LastIsIn, FS_Subset
  <2>2. c[s] = op(c[s \ {Max(s)}], l[Max(s)])
    BY <1>6, <1>8
  <2> QED
    BY <1>8, <2>1, <2>2
<1>9. \A s \in SUBSET S : c[s] \in D
  <2> HIDE DEF D
  <2> QED
    BY <1>1, <1>7, <1>8, AllParts
<1> QED
  BY <1>2, <1>9

\* What is put into a list is in it afterwards, besides what was there.
LEMMA PutIsIn ==
  ASSUME NEW C, NEW p \in Seq(C), NEW x \in C
  PROVE  Put(p, x) \in Seq(C)
<1> DEFINE T == {y \in ToSet(p) : y.name # x.name}
<1>1. Keep(p, T) \in Seq(C)
  <2>1. Keep(p, T) \in Seq(C \cap T)
    BY KeepIsIn
  <2> HIDE DEF T
  <2> QED
    BY <2>1
<1> HIDE DEF T
<1>2. Append(Keep(p, T), x) \in Seq(C)
  BY <1>1
<1> QED
  BY <1>2 DEF Put, T

\* Whatever is fed into a list comes from the list or from what is fed.
LEMMA FeedIsIn ==
  ASSUME NEW C, NEW p \in Seq(C), NEW l \in Seq(C)
  PROVE  FoldLeft(Put, p, l) \in Seq(C)
<1> DEFINE S == DOMAIN l
           D == Seq(C)
           F == [z \in D \X C |-> Put(z[1], z[2])]
           Fold(g) == g = [s \in SUBSET S |->
                             IF s = {} THEN p ELSE Put(g[s \ {Max(s)}], l[Max(s)])]
           c == CHOOSE g : Fold(g)
<1>1. S \in SUBSET Nat /\ IsFiniteSet(S) /\ \A i \in S : l[i] \in C
  <2>1. S = 1 .. Len(l) /\ Len(l) \in Nat /\ \A i \in S : l[i] \in C
    OBVIOUS
  <2> HIDE DEF S
  <2> QED
    BY <2>1, FS_Interval
<1>2. FoldLeft(Put, p, l) = c[S]
  BY DEF FoldLeft, MapThenFoldSet
<1>3. F \in [D \X C -> D] /\ \A k \in D, x \in C : F[<<k, x>>] = Put(k, x)
  <2>1. \A k \in D, x \in C : Put(k, x) \in D
    BY PutIsIn
  <2> QED
    BY <2>1
<1> HIDE DEF S
<1>4. PICK g \in [SUBSET S -> D] : IsTable(g, F, p, l, S)
  <2>1. p \in D /\ F \in [D \X C -> D]
    BY <1>3
  <2> HIDE DEF F, D, Fold, c
  <2>2. S \in SUBSET Nat /\ IsFiniteSet(S) /\ \A i \in S : l[i] \in C
    BY <1>1
  <2> QED
    BY <2>1, <2>2, TableInD
<1>5. Fold(g)
  <2>1. \A s \in SUBSET S : s # {} => Max(s) \in S
    BY <1>1, LastIsIn, FS_Subset
  <2> HIDE DEF F, D
  <2>2. \A s \in SUBSET S : s # {} =>
          F[<<g[s \ {Max(s)}], l[Max(s)]>>] = Put(g[s \ {Max(s)}], l[Max(s)])
    BY <1>1, <1>3, <2>1
  <2>3. [s \in SUBSET S |-> IF s = {} THEN p ELSE F[<<g[s \ {Max(s)}], l[Max(s)]>>]]
        = [s \in SUBSET S |-> IF s = {} THEN p ELSE Put(g[s \ {Max(s)}], l[Max(s)])]
    BY <2>2
  <2> QED
    BY <1>4, <2>3 DEF IsTable
<1>6. Fold(c)
  <2> HIDE DEF Fold
  <2> QED
    BY <1>5
<1> HIDE DEF c
<1>7. c[{}] \in D
  BY <1>6
<1>8. ASSUME NEW s \in SUBSET S, s # {}, c[s \ {Max(s)}] \in D PROVE c[s] \in D
  <2>1. l[Max(s)] \in C
    BY <1>1, <1>8, LastIsIn, FS_Subset
  <2>2. c[s] = Put(c[s \ {Max(s)}], l[Max(s)])
    BY <1>6, <1>8
  <2>3. Put(c[s \ {Max(s)}], l[Max(s)]) \in Seq(C)
    BY <1>8, <2>1, PutIsIn
  <2> QED
    BY <2>2, <2>3
<1>9. \A s \in SUBSET S : c[s] \in D
  <2> HIDE DEF D
  <2> QED
    BY <1>1, <1>7, <1>8, AllParts
<1> QED
  BY <1>2, <1>9

-----------------------------------------------------------------------------
(* What a strategy finds.                                                  *)

\* The columns a strategy may read.
Reads(s) == Demands(s) \cup AsksFor(s) \cup (IF s = "failed_breakout" THEN {"vwap"} ELSE {})

\* The columns written for a strategy are those it looks for and reads.
LEMMA ColumnsOf ==
  ASSUME NEW s \in Strategies, NEW b
  PROVE  /\ Reads(s) \cup Marker(s) \subseteq DOMAIN Columns(s, b)
         /\ Marker(s) # {}
<1> USE DEF Columns, Reads, Demands, AsksFor, Marker, ++
<1>1. CASE s = "ema_crossover"
  BY <1>1
<1>2. CASE s = "rsi_mean_reversion"
  BY <1>2
<1>3. CASE s = "orb_vwap"
  BY <1>3 DEF OrbColumns
<1>4. CASE s = "volume_expansion"
  BY <1>4
<1>5. CASE s = "trend_continuation"
  BY <1>5
<1>6. CASE s = "vwap_reclaim"
  BY <1>6
<1>7. CASE s = "relative_strength"
  BY <1>7
<1>8. CASE s = "trend_pullback"
  BY <1>8
<1>9. CASE s = "failed_breakout"
  BY <1>9 DEF OrbColumns
<1> QED
  BY <1>1, <1>2, <1>3, <1>4, <1>5, <1>6, <1>7, <1>8, <1>9 DEF Strategies

\* Columns alike where a strategy reads make it fire alike, with the same prices.
LEMMA FiresAlike ==
  ASSUME NEW s \in Strategies, NEW b, NEW v, NEW u, NEW d,
         Reads(s) \subseteq DOMAIN v, Reads(s) \subseteq DOMAIN u, \A c \in Reads(s) : v[c] = u[c]
  PROVE  /\ Fires(s, b, v, d) <=> Fires(s, b, u, d)
         /\ s \notin Nameless => RawSignal(s, b, v, d) = RawSignal(s, b, u, d)
<1> USE DEF Fires, Reads, Demands, AsksFor, RawSignal, StopOf, TargetOf, Nameless
<1>1. CASE s = "ema_crossover"
  <2>1. /\ v.ema_fast = u.ema_fast /\ v.ema_slow = u.ema_slow
        /\ v.atr = u.atr /\ v.volume_ma = u.volume_ma
    BY <1>1
  <2> QED
    BY <1>1, <2>1 DEF ema_crossover, Crossed
<1>2. CASE s = "rsi_mean_reversion"
  <2>1. v.rsi = u.rsi /\ v.ema_trend = u.ema_trend /\ v.atr = u.atr
    BY <1>2
  <2> QED
    BY <1>2, <2>1 DEF rsi_mean_reversion
<1>3. CASE s = "orb_vwap"
  <2>1. /\ v.vwap = u.vwap /\ v.ema_fast = u.ema_fast /\ v.ema_slow = u.ema_slow
        /\ v.atr = u.atr /\ v.volume_ma = u.volume_ma
    BY <1>3
  <2> QED
    BY <1>3, <2>1 DEF orb_vwap, OrbStop
<1>4. CASE s = "volume_expansion"
  <2>1. v.atr = u.atr /\ v.volume_ma = u.volume_ma
    BY <1>4
  <2> QED
    BY <1>4, <2>1 DEF volume_expansion
<1>5. CASE s = "trend_continuation"
  <2>1. v.ema_50 = u.ema_50 /\ v.vwap = u.vwap /\ v.atr = u.atr
    BY <1>5
  <2> QED
    BY <1>5, <2>1 DEF trend_continuation
<1>6. CASE s = "vwap_reclaim"
  <2>1. /\ v.vwap = u.vwap /\ v.ema_fast = u.ema_fast /\ v.ema_slow = u.ema_slow
        /\ v.atr = u.atr /\ v.volume_ma = u.volume_ma
    BY <1>6
  <2> QED
    BY <1>6, <2>1 DEF vwap_reclaim
<1>7. CASE s = "relative_strength"
  <2>1. v.vwap = u.vwap /\ v.atr = u.atr /\ v.volume_ma = u.volume_ma
    BY <1>7
  <2> QED
    BY <1>7, <2>1 DEF relative_strength
<1>8. CASE s = "trend_pullback"
  <2>1. /\ v.ema_9 = u.ema_9 /\ v.ema_21 = u.ema_21 /\ v.ema_50 = u.ema_50
        /\ v.rsi = u.rsi /\ v.atr = u.atr
    BY <1>8
  <2> QED
    BY <1>8, <2>1 DEF trend_pullback
<1>9. CASE s = "failed_breakout"
  <2>1. /\ v.or_high = u.or_high /\ v.or_low = u.or_low /\ v.atr = u.atr /\ v.rsi = u.rsi
        /\ v.vwap = u.vwap /\ "vwap" \in DOMAIN v /\ "vwap" \in DOMAIN u
    BY <1>9
  <2> QED
    BY <1>9, <2>1 DEF failed_breakout
<1> QED
  BY <1>1, <1>2, <1>3, <1>4, <1>5, <1>6, <1>7, <1>8, <1>9 DEF Strategies

(* Where its marker is missing a strategy finds what it finds alone.       *)
LEMMA FoundAlone ==
  ASSUME NEW s \in Strategies, NEW b, NEW cols, ~(Marker(s) \subseteq DOMAIN cols)
  PROVE  Found(s, b, Prepared(s, b, cols)) = Alone(s, b)
<1>1. CASE Skips(s, b)
  BY <1>1 DEF Found, Alone
<1>2. CASE ~Skips(s, b)
  <2> DEFINE w == Columns(s, b)
             v == w ++ cols
             u == w ++ Empty
  <2>1. Prepared(s, b, cols) = v
    BY <1>2 DEF Prepared
  <2>2. Prepared(s, b, Empty) = u
    BY <1>2, ColumnsOf DEF Prepared, Empty
  <2>3. Reads(s) \subseteq DOMAIN w
    BY ColumnsOf
  <2> HIDE DEF w
  <2>4. /\ Reads(s) \subseteq DOMAIN v /\ Reads(s) \subseteq DOMAIN u
        /\ \A c \in Reads(s) : v[c] = u[c]
    BY <2>3 DEF ++
  <2> HIDE DEF v, u
  <2>5. Demands(s) \subseteq Reads(s) /\ AsksFor(s) \subseteq Reads(s)
    BY DEF Reads
  <2>6. \A d : Fires(s, b, v, d) <=> Fires(s, b, u, d)
    BY <2>4, FiresAlike
  <2>7. s \notin Nameless => \A d : RawSignal(s, b, v, d) = RawSignal(s, b, u, d)
    BY <2>4, FiresAlike
  <2>8. Found(s, b, v) = Found(s, b, u)
    BY <2>4, <2>5, <2>6, <2>7 DEF Found
  <2> QED
    BY <2>1, <2>2, <2>8 DEF Alone
<1> QED
  BY <1>1, <1>2

-----------------------------------------------------------------------------
(* Lists.                                                                  *)

\* l is a list, of whatever it holds.
Listed(l) == l \in Seq(ToSet(l))

\* A list of elements of C is a list, and holds elements of C.
LEMMA ListOf == ASSUME NEW C, NEW l \in Seq(C) PROVE Listed(l) /\ ToSet(l) \subseteq C
  BY DEF Listed, ToSet

\* A list has a length, and a place for every number up to it.
LEMMA ListIs ==
  ASSUME NEW l, Listed(l)
  PROVE  Len(l) \in Nat /\ DOMAIN l = 1 .. Len(l)
  BY DEF Listed

\* Appending to a list adds a last place and leaves the others alone.
LEMMA Appended ==
  ASSUME NEW l, Listed(l), NEW x
  PROVE  /\ Listed(Append(l, x)) /\ Len(Append(l, x)) = Len(l) + 1
         /\ \A k \in DOMAIN l : k \in DOMAIN Append(l, x) /\ Append(l, x)[k] = l[k]
         /\ Append(l, x)[Len(l) + 1] = x
<1> DEFINE C == ToSet(l) \cup {x}
<1>1. l \in Seq(C) /\ x \in C
  BY DEF Listed
<1> HIDE DEF C
<1>2. Append(l, x) \in Seq(C)
  BY <1>1
<1>3. Listed(Append(l, x))
  BY <1>2, ListOf
<1> QED
  BY <1>1, <1>3

-----------------------------------------------------------------------------
(* What a strategy finds does not depend on the others.                    *)

\* The columns that the strategies of a list wrote for a bar.
Written(l, b) == UNION {DOMAIN Columns(l[j].strategy, b) : j \in DOMAIN l}

\* What was found is what the strategies would find alone, but for columns
\* that strategies evaluated before have written: all that the DataFrame has.
RunnerInv ==
    /\ wiring \in Wirings
    /\ loaded \in Seq(Strategies) /\ (wiring = "worker" => loaded = <<>>)
    /\ wiring = "api" => DOMAIN loaded = Ids
    /\ next \in Nat \ {0}
    /\ Listed(found)
    /\ wiring = "api" => \A k \in DOMAIN found : found[k].strategy \in ToSet(loaded)
    /\ wiring = "api" => DOMAIN df \subseteq Written(found, bar)
    /\ EvaluatedAlone

\* What a scan runs is a list of strategies in the order of scans.
LEMMA ToRunIsList == ASSUME NEW key, NEW r PROVE ToRun(key, r) \in Seq(ToSet(ScanOrder))
<1> DEFINE T == {s \in ToSet(ScanOrder) : Allowed(s, r)}
           l == IF key = "multi_strategy" THEN ScanOrder ELSE <<key>>
           C == {"ema_crossover", "rsi_mean_reversion", "orb_vwap", "volume_expansion",
                 "trend_continuation", key}
<1>1. l \in Seq(C)
  <2>1. ScanOrder \in Seq(C)
    BY DEF ScanOrder
  <2>2. <<key>> \in Seq(C)
    OBVIOUS
  <2> QED
    BY <2>1, <2>2
<1>2. T \subseteq ToSet(ScanOrder)
  OBVIOUS
<1> HIDE DEF l, C, T
<1>3. Keep(l, T) \in Seq(C \cap T)
  BY <1>1, KeepIsIn
<1>4. Keep(l, T) \in Seq(ToSet(ScanOrder))
  BY <1>2, <1>3
<1> QED
  BY <1>4 DEF ToRun, l, T

\* A scan runs each of its strategies as if alone.
LEMMA ScansAlone ==
  ASSUME NEW key, NEW b, NEW r
  PROVE  /\ Listed(run_strategy(key, b, r))
         /\ \A k \in DOMAIN run_strategy(key, b, r) :
              /\ run_strategy(key, b, r)[k].strategy \in ToSet(ScanOrder)
              /\ run_strategy(key, b, r)[k].result = Alone(run_strategy(key, b, r)[k].strategy, b)
<1> DEFINE names == ToRun(key, r)
           l == run_strategy(key, b, r)
           C == {Outcome(s, Alone(s, b)) : s \in ToSet(ScanOrder)}
<1>1. names \in Seq(ToSet(ScanOrder))
  BY ToRunIsList
<1>2. l = [k \in DOMAIN names |-> Outcome(names[k], Alone(names[k], b))]
  BY DEF run_strategy, Alone
<1> HIDE DEF names, l
<1>3. DOMAIN names = 1 .. Len(names) /\ Len(names) \in Nat
      /\ \A k \in DOMAIN names : names[k] \in ToSet(ScanOrder)
  BY <1>1
<1>4. \A k \in DOMAIN names : l[k] = Outcome(names[k], Alone(names[k], b))
  BY <1>2
<1>5. l \in Seq(C)
  <2>1. \A k \in DOMAIN names : l[k] \in C
    BY <1>3, <1>4
  <2> HIDE DEF C
  <2> QED
    BY <1>2, <1>3, <2>1
<1>6. Listed(l)
  <2> HIDE DEF C
  <2> QED
    BY <1>5, ListOf
<1>7. \A k \in DOMAIN l : /\ l[k].strategy \in ToSet(ScanOrder)
                          /\ l[k].result = Alone(l[k].strategy, b)
  BY <1>2, <1>3, <1>4 DEF Outcome
<1> QED
  BY <1>6, <1>7 DEF l

\* Scans know strategies of the runner only.
LEMMA ScanOrderIs == ToSet(ScanOrder) \subseteq Strategies /\ Listed(<<>>)
  BY DEF ScanOrder, Strategies, ToSet, Listed

\* The next strategy of the runner finds what it finds alone, or its marker
\* among the columns of the strategies before it.
LEMMA EvaluatesAlone ==
  ASSUME RunnerInv, wiring = "api", next <= Len(loaded), Evaluate, UNCHANGED <<wiring, bar>>
  PROVE  /\ Listed(found')
         /\ \A k \in DOMAIN found' : found'[k].strategy \in ToSet(loaded)
         /\ DOMAIN df' \subseteq Written(found', bar')
         /\ EvaluatedAlone'
<1> DEFINE s == loaded[next]
           n == Len(found) + 1
           o == Outcome(s, Found(s, bar, Prepared(s, bar, df)))
<1>1. s \in Strategies
  BY DEF RunnerInv
<1>2. df' = Prepared(s, bar, df) /\ found' = Append(found, o)
  BY DEF Evaluate
<1>3. Listed(found) /\ Len(found) \in Nat /\ DOMAIN found = 1 .. Len(found)
  BY ListIs DEF RunnerInv
<1> HIDE DEF o
<1>4. /\ Listed(found') /\ Len(found') = n
      /\ \A k \in DOMAIN found : k \in DOMAIN found' /\ found'[k] = found[k]
      /\ found'[n] = o
  BY <1>2, <1>3, Appended
<1>5. DOMAIN found' = 1 .. n
  BY <1>4, ListIs
<1>6. o.strategy = s /\ o.result = Found(s, bar, Prepared(s, bar, df))
  BY DEF o, Outcome
<1>11. s \in ToSet(loaded)
  BY DEF RunnerInv, ToSet
<1> HIDE DEF s
<1>12. \A k \in DOMAIN found' : found'[k].strategy \in ToSet(loaded)
  BY <1>3, <1>4, <1>5, <1>6, <1>11 DEF RunnerInv
<1>7. DOMAIN df \subseteq Written(found, bar)
  BY DEF RunnerInv
<1>8. DOMAIN df' \subseteq DOMAIN df \cup DOMAIN Columns(s, bar)
  BY <1>2 DEF Prepared, ++
<1>9. Written(found, bar) \cup DOMAIN Columns(s, bar) \subseteq Written(found', bar)
  <2>1. \A k \in DOMAIN found :
          DOMAIN Columns(found[k].strategy, bar) \subseteq Written(found', bar)
    BY <1>4 DEF Written
  <2>2. DOMAIN Columns(s, bar) \subseteq Written(found', bar)
    BY <1>3, <1>4, <1>5, <1>6 DEF Written
  <2> QED
    BY <2>1, <2>2 DEF Written
<1>10. ASSUME NEW k \in DOMAIN found'
       PROVE  LET t == found'[k].strategy
                  earlier == {found'[j].strategy : j \in 1..(k - 1)}
              IN \/ found'[k].result = Alone(t, bar)
                 \/ Marker(t) \subseteq UNION {DOMAIN Columns(e, bar) : e \in earlier}
  <2>1. CASE k = n
    <3>1. CASE Marker(s) \subseteq DOMAIN df
      <4> DEFINE earlier == {found'[j].strategy : j \in 1..(k - 1)}
      <4>1. \A j \in DOMAIN found : found[j].strategy \in earlier
        BY <1>3, <1>4, <2>1
      <4> HIDE DEF earlier
      <4>2. Written(found, bar) \subseteq UNION {DOMAIN Columns(e, bar) : e \in earlier}
        BY <4>1 DEF Written
      <4> QED
        BY <1>4, <1>6, <1>7, <2>1, <3>1, <4>2 DEF earlier
    <3>2. CASE ~(Marker(s) \subseteq DOMAIN df)
      <4>1. o.result = Alone(s, bar)
        BY <1>1, <1>6, <3>2, FoundAlone
      <4> QED
        BY <1>4, <1>6, <2>1, <4>1
    <3> QED
      BY <3>1, <3>2
  <2>2. CASE k # n
    <3>1. k \in DOMAIN found /\ \A j \in 1..(k - 1) : j \in DOMAIN found
      BY <1>3, <1>5, <2>2
    <3>2. found'[k] = found[k] /\ \A j \in 1..(k - 1) : found'[j] = found[j]
      BY <1>4, <3>1
    <3>3. {found'[j].strategy : j \in 1..(k - 1)} = {found[j].strategy : j \in 1..(k - 1)}
      BY <3>2
    <3> QED
      BY <3>1, <3>2, <3>3 DEF RunnerInv, EvaluatedAlone
  <2> QED
    BY <2>1, <2>2
<1> QED
  BY <1>4, <1>7, <1>8, <1>9, <1>10, <1>12 DEF EvaluatedAlone

\* RunnerInv holds at the start.
LEMMA RunnerInvInit == ASSUME Init PROVE RunnerInv
<1>1. /\ loaded \in Seq(Strategies) /\ (wiring = "worker" => loaded = <<>>)
      /\ wiring = "api" => DOMAIN loaded = Ids
  <2>1. /\ Orders \subseteq Seq(Strategies) /\ <<>> \in Seq(Strategies)
        /\ \A o \in Orders : Ids = DOMAIN o
    BY PipelineAssumption
  <2>2. loaded \in IF wiring = "api" THEN Orders ELSE {<<>>}
    BY DEF Init, load_strategies
  <2> QED
    BY <2>1, <2>2
<1>2. wiring \in Wirings
  BY PipelineAssumption DEF Init
<1>3. next = 1 /\ df = Empty /\ found = <<>>
  BY DEF Init
<1> QED
  BY <1>1, <1>2, <1>3, ScanOrderIs DEF RunnerInv, EvaluatedAlone, Empty

\* Steps elsewhere leave what was found as it was.
LEMMA Unmoved ==
  ASSUME EvaluatedAlone, UNCHANGED <<wiring, bar, found>>
  PROVE  EvaluatedAlone'
  BY DEF EvaluatedAlone

\* Every step keeps RunnerInv.
LEMMA RunnerInvPreserved == ASSUME RunnerInv, [Next]_vars PROVE RunnerInv'
<1>1. ASSUME NEW b \in Bars, NewBar(b) PROVE RunnerInv'
  BY <1>1, ScanOrderIs DEF NewBar, RunnerInv, EvaluatedAlone, Empty
<1>2. ASSUME EvaluateNext PROVE RunnerInv'
  <2>1. /\ wiring = "api" /\ next <= Len(loaded) /\ next' = next + 1
        /\ UNCHANGED <<wiring, loaded, bar>>
    BY <1>2 DEF EvaluateNext
  <2>2. CASE UNCHANGED <<df, found>>
    <3>1. EvaluatedAlone'
      BY <2>1, <2>2, Unmoved DEF RunnerInv
    <3>2. DOMAIN df' \subseteq Written(found', bar')
      BY <2>1, <2>2 DEF RunnerInv
    <3> QED
      BY <2>1, <2>2, <3>1, <3>2 DEF RunnerInv, Listed
  <2>3. CASE Evaluate
    BY <2>1, <2>3, EvaluatesAlone DEF RunnerInv
  <2> QED
    BY <1>2, <2>2, <2>3 DEF EvaluateNext
<1>3. ASSUME NEW b, NEW key, NEW kind, Scan(b, key, kind) PROVE RunnerInv'
  <2> DEFINE r == IF kind = "analyze" THEN b.detected ELSE "TREND"
  <2>1. /\ wiring = "worker" /\ bar' = b /\ found' = run_strategy(key, b, r)
        /\ next' = Len(loaded) + 1 /\ UNCHANGED <<wiring, loaded>>
    BY <1>3 DEF Scan
  <2> HIDE DEF r
  <2>2. /\ Listed(found')
        /\ \A k \in DOMAIN found' : found'[k].result = Alone(found'[k].strategy, bar')
    BY <2>1, ScansAlone
  <2> QED
    BY <2>1, <2>2 DEF RunnerInv, EvaluatedAlone
<1>4. ASSUME Feed PROVE RunnerInv'
  BY <1>4, ScanOrderIs DEF Feed, RunnerInv, EvaluatedAlone, Empty
<1>5. ASSUME UNCHANGED <<wiring, loaded, bar, next, df, found>> PROVE RunnerInv'
  <2>1. EvaluatedAlone'
    BY <1>5, Unmoved DEF RunnerInv
  <2> QED
    BY <1>5, <2>1 DEF RunnerInv, Listed, Written
<1>6. ASSUME Flush \/ ReadRegime \/ AskHealth \/ filter_signal \/ Layer \/ on_signal_approved
      PROVE  RunnerInv'
  BY <1>5, <1>6 DEF Flush, ReadRegime, AskHealth, filter_signal, Layer, on_signal_approved, runner
<1>7. ASSUME RegimeDetected \/ TimePasses \/ TradingStopped \/ Health PROVE RunnerInv'
  BY <1>5, <1>7 DEF RegimeDetected, TimePasses, TradingStopped, Move, Health, runner
<1>8. CASE UNCHANGED vars
  BY <1>5, <1>8 DEF vars, runner
<1> QED
  BY <1>1, <1>2, <1>3, <1>4, <1>6, <1>7, <1>8 DEF Next, Analyze, ScanList

(* A strategy finds on a bar what it would find alone, in every scan, and  *)
(* in the runner unless strategies loaded before it have written the       *)
(* columns it takes for its own (StrategyRunner.evaluate).                 *)
THEOREM StrategiesFindAlone == Spec => []EvaluatedAlone
<1>1. RunnerInv => EvaluatedAlone
  BY DEF RunnerInv
<1> QED
  BY <1>1, RunnerInvInit, RunnerInvPreserved, PTL DEF Spec

-----------------------------------------------------------------------------
(* The prices of a signal.                                                 *)

\* The signals of the strategies that scans run protect: on every bar whose
\* close lies between its low and its high the stop is on the losing side.
LEMMA SignalsProtect ==
  ASSUME NEW s \in ToSet(ScanOrder), NEW b \in Bars, Alone(s, b) \notin {None, Raises}
  PROVE  Protects(Alone(s, b))
<1> DEFINE w == Columns(s, b)
           v == w ++ Empty
           d == IF Fires(s, b, v, 1) THEN 1 ELSE -1
           x == b.close
           g == RawSignal(s, b, v, d)
<1>1. ~Skips(s, b)
  BY DEF Alone, Found
<1>2. Prepared(s, b, Empty) = v
  BY <1>1, ScanOrderIs, ColumnsOf DEF Prepared, Empty
<1>3. /\ \E e \in Directions : Fires(s, b, v, e)
      /\ Alone(s, b) = g
  <2> HIDE DEF v
  <2> QED
    BY <1>1, <1>2 DEF Alone, Found
<1>4. d \in {1, -1} /\ Fires(s, b, v, d)
  <2> HIDE DEF v
  <2> QED
    BY <1>3 DEF Directions
<1>5. /\ b.close \in Int /\ b.low \in Int /\ b.high \in Int /\ b.orHigh \in Int /\ b.orLow \in Int
      /\ b.vwap \in Int /\ b.halfAtr \in Nat /\ b.halfAtr > 0
      /\ b.low <= b.close /\ b.close <= b.high
  <2>1. b \in BarRecords
    BY PipelineAssumption
  <2>2. b.low <= b.close /\ b.close <= b.high
    BY PipelineAssumption
  <2>3. b.close \in Int /\ b.low \in Int /\ b.high \in Int
    BY <2>1 DEF BarRecords
  <2>4. b.orHigh \in Int /\ b.orLow \in Int /\ b.vwap \in Int
    BY <2>1 DEF BarRecords
  <2>5. b.halfAtr \in Nat \ {0}
    BY <2>1 DEF BarRecords
  <2> QED
    BY <2>2, <2>3, <2>4, <2>5
<1> HIDE DEF d
<1>6. v.atr = 2 * b.halfAtr /\ (s = "trend_continuation" => v.vwap = b.vwap)
  <2>1. CASE s = "ema_crossover"
    BY <2>1 DEF Columns, ++
  <2>2. CASE s = "rsi_mean_reversion"
    BY <2>2 DEF Columns, ++
  <2>3. CASE s = "orb_vwap"
    BY <2>3 DEF Columns, ++, OrbColumns
  <2>4. CASE s = "volume_expansion"
    BY <2>4 DEF Columns, ++
  <2>5. CASE s = "trend_continuation"
    BY <2>5 DEF Columns, ++
  <2> QED
    BY <2>1, <2>2, <2>3, <2>4, <2>5 DEF ToSet, ScanOrder
<1> HIDE DEF w, v
<1> DEFINE stop == StopOf(s, b, v, d)
<1>7. stop \in Int /\ d * x > d * stop
  <2>1. CASE s = "ema_crossover"
    BY <1>4, <1>5, <1>6, <2>1 DEF StopOf
  <2>2. CASE s = "rsi_mean_reversion"
    BY <1>4, <1>5, <1>6, <2>2 DEF StopOf
  <2>3. CASE s = "orb_vwap"
    <3>1. stop = OrbStop(b, v, d)
      BY <2>3 DEF StopOf
    <3>2. FarEdge(b, d) \in Int
      BY <1>5 DEF FarEdge, Edge
    <3> QED
      BY <1>4, <1>5, <1>6, <3>1, <3>2 DEF OrbStop, Further, Beyond
  <2>4. CASE s = "volume_expansion"
    BY <1>4, <1>5, <1>6, <2>4 DEF StopOf
  <2>5. CASE s = "trend_continuation"
    <3>1. Beyond(d, b.close, v.vwap - d * v.atr)
      BY <1>4, <2>5 DEF Fires, trend_continuation
    <3> QED
      BY <1>4, <1>5, <1>6, <2>5, <3>1 DEF StopOf, Beyond
  <2> QED
    BY <2>1, <2>2, <2>3, <2>4, <2>5 DEF ToSet, ScanOrder
<1> DEFINE target == TargetOf(s, b, v, d)
<1>8. target \in Int /\ d * target > d * x
  <2> DEFINE risk == d * (x - stop)
             reward == IF s = "volume_expansion" THEN (3 * risk) \div 2 ELSE 2 * risk
  <2>1. target = x + d * reward
    BY DEF TargetOf
  <2> HIDE DEF stop
  <2>2. risk \in Int /\ risk > 0
    BY <1>4, <1>5, <1>7
  <2> HIDE DEF risk
  <2>3. reward \in Int /\ reward > 0
    BY <2>2
  <2> HIDE DEF reward, target
  <2> QED
    BY <1>4, <1>5, <2>1, <2>3
<1>9. g.entry = x /\ g.stop = stop /\ g.target = target /\ Sign(g.dir) = d
  BY <1>4 DEF RawSignal, Sign
<1> HIDE DEF g, stop, target
<1> QED
  BY <1>3, <1>7, <1>8, <1>9 DEF Protects, Beyond

-----------------------------------------------------------------------------
(* The candidates on their way.                                            *)

\* A candidate names a strategy with a key, or none; in the worker it is of a
\* scan and protects.
Fine(w, c) == c.id \in Ids \cup {0} /\ (w = "worker" => c.scanner /\ Protects(Prices(c)))
FineList(w, l) == Listed(l) /\ \A k \in DOMAIN l : Fine(w, l[k])

\* A group in the pipeline.
IsGroup(s) ==
    s = [members |-> s.members, merged |-> s.merged, weight |-> s.weight, score |-> s.score]

\* Candidates are fine wherever they are: in the pool, before META, let
\* through by META, in the layers; behind META the regime it read allows them.
VoiceInv ==
    /\ RunnerInv
    /\ wiring = "worker" =>
         \A k \in DOMAIN found : IsSignal(found[k]) => Protects(found[k].result)
    /\ wiring = "api" => out = None
    /\ FineList(wiring, pool) /\ FineList(wiring, let)
    /\ at # "idle" => IsGroup(sig) /\ FineList(wiring, sig.members) /\ sig.members # <<>>
    /\ at \in {"meta", "asking"} => sig.weight \in Nat
    /\ at = "asking" => \A k \in DOMAIN let : Allowed(let[k].name, seen)
    /\ at \notin {"idle", "meta", "asking"} =>
         \A k \in DOMAIN sig.members : Allowed(sig.members[k].name, seen)
    /\ OneVoice

\* What goes to the pool is fine.
LEMMA SentIsFine == ASSUME VoiceInv PROVE FineList(wiring, Sent)
<1> DEFINE l == Keep(found, {o \in ToSet(found) : IsSignal(o)})
           C == {o \in ToSet(found) : IsSignal(o)}
<1>1. l \in Seq(C)
  <2>1. found \in Seq(ToSet(found))
    BY DEF VoiceInv, RunnerInv, Listed
  <2>2. l \in Seq(ToSet(found) \cap C)
    BY <2>1, KeepIsIn
  <2>3. ToSet(found) \cap C = C
    OBVIOUS
  <2> HIDE DEF l, C
  <2> QED
    BY <2>2, <2>3
<1>2. \A o \in C : \E k \in DOMAIN found : o = found[k] /\ IsSignal(found[k])
  BY DEF ToSet
<1> HIDE DEF l, C
<1>3. CASE wiring = "api"
  <2> DEFINE i(k) == CHOOSE i \in Ids : loaded[i] = l[k].strategy
             m == [k \in DOMAIN l |-> Candidate(l[k].strategy, i(k), l[k].result, slot)]
             Out == {c \in ToSet(m) : c.id \in Ids}
  <2>1. Sent = m
    BY <1>3 DEF Sent, l, C
  <2>2. \A k \in DOMAIN l : i(k) \in Ids
    <3>1. DOMAIN loaded = Ids /\ \A k \in DOMAIN found : found[k].strategy \in ToSet(loaded)
      BY <1>3 DEF VoiceInv, RunnerInv
    <3>2. \A k \in DOMAIN l : l[k] \in C
      BY <1>1
    <3>3. \A k \in DOMAIN l : \E j \in Ids : loaded[j] = l[k].strategy
      BY <1>2, <3>1, <3>2 DEF ToSet
    <3> QED
      BY <3>3
  <2> HIDE DEF i
  <2>3. \A k \in DOMAIN l : m[k].id \in Ids
    BY <2>2 DEF Candidate
  <2>4. DOMAIN l = 1 .. Len(l) /\ Len(l) \in Nat
    BY <1>1
  <2>5. m \in Seq(ToSet(m))
    BY <2>4 DEF ToSet
  <2>6. DOMAIN m = DOMAIN l
    OBVIOUS
  <2> HIDE DEF m
  <2> QED
    BY <1>3, <2>1, <2>3, <2>5, <2>6 DEF FineList, Listed, Fine
<1>4. CASE wiring = "worker"
  <2> DEFINE f == Firsts(l)
             m == [k \in DOMAIN f |-> Candidate(asked.key, 0, f[k].result, slot)]
  <2>1. Sent = [k \in DOMAIN f |-> Candidate(asked.key, 0, l[k].result, slot)]
    BY <1>4 DEF Sent, l, C
  <2>2. f \in Seq(C) /\ \A k \in DOMAIN f : f[k] = l[k]
    <3>1. CASE asked.kind = "analyze"
      BY <1>1, <3>1 DEF Firsts
    <3>2. CASE asked.kind # "analyze" /\ l = <<>>
      BY <1>1, <3>2 DEF Firsts
    <3>3. CASE asked.kind # "analyze" /\ l # <<>>
      BY <1>1, <3>3 DEF Firsts
    <3> QED
      BY <3>1, <3>2, <3>3
  <2> HIDE DEF f
  <2>3. Sent = m
    BY <2>1, <2>2
  <2>4. \A k \in DOMAIN f : Fine(wiring, m[k])
    <3>1. \A k \in DOMAIN f : f[k] \in C
      BY <2>2
    <3>2. \A k \in DOMAIN f : Protects(f[k].result)
      BY <1>2, <1>4, <3>1 DEF VoiceInv
    <3> QED
      BY <3>2 DEF Fine, Candidate, Prices, Protects
  <2>5. DOMAIN f = 1 .. Len(f) /\ Len(f) \in Nat
    BY <2>2
  <2>6. m \in Seq(ToSet(m)) /\ DOMAIN m = DOMAIN f
    BY <2>5 DEF ToSet
  <2> HIDE DEF m
  <2> QED
    BY <2>3, <2>4, <2>6 DEF FineList, Listed
<1> QED
  BY <1>3, <1>4 DEF VoiceInv, RunnerInv, Wirings

\* Fine candidates put into a fine pool make a fine pool.
LEMMA FedIsFine ==
  ASSUME NEW p, FineList(wiring, p), NEW l, FineList(wiring, l)
  PROVE  FineList(wiring, FoldLeft(Put, p, l))
<1> DEFINE C == ToSet(p) \cup ToSet(l)
           q == FoldLeft(Put, p, l)
<1>1. p \in Seq(C) /\ l \in Seq(C)
  BY DEF FineList, Listed
<1>2. \A c \in C : Fine(wiring, c)
  BY DEF FineList, ToSet
<1> HIDE DEF C
<1>3. q \in Seq(C)
  BY <1>1, FeedIsIn
<1> HIDE DEF q
<1>4. Listed(q) /\ \A k \in DOMAIN q : q[k] \in C
  BY <1>3, ListOf
<1> QED
  BY <1>2, <1>4 DEF FineList, q

\* A fine list stays fine when a fine candidate is appended.
LEMMA MoreIsFine ==
  ASSUME NEW l, FineList(wiring, l), NEW c, Fine(wiring, c)
  PROVE  FineList(wiring, Append(l, c))
<1> DEFINE m == Append(l, c)
<1>1. /\ Listed(l) /\ Listed(m) /\ Len(m) = Len(l) + 1
      /\ \A k \in DOMAIN l : k \in DOMAIN m /\ m[k] = l[k]
      /\ m[Len(l) + 1] = c
  BY Appended DEF FineList
<1>2. /\ Len(l) \in Nat /\ DOMAIN l = 1 .. Len(l) /\ DOMAIN m = 1 .. Len(m)
  BY <1>1, ListIs
<1> HIDE DEF m
<1>3. ASSUME NEW k \in DOMAIN m PROVE Fine(wiring, m[k])
  <2>1. k \in DOMAIN l \/ k = Len(l) + 1
    BY <1>1, <1>2
  <2> QED
    BY <1>1, <2>1 DEF FineList
<1> QED
  BY <1>1, <1>3 DEF FineList, m

\* The empty list is fine.
LEMMA EmptyIsFine == \A w : FineList(w, <<>>)
  BY ScanOrderIs DEF FineList

\* VoiceInv holds at the start.
LEMMA VoiceInvInit == ASSUME Init PROVE VoiceInv
<1>1. RunnerInv
  BY RunnerInvInit
<1> QED
  BY <1>1, EmptyIsFine DEF Init, VoiceInv, OneVoice

\* The layers come after META.
LEMMA LaterLayers ==
  ASSUME NEW l \in ToSet(Layers)
  PROVE  LayerAfter(l) \notin {"meta", "asking"} /\ l \notin {"idle", "meta", "asking"}
<1> DEFINE p == Layers \o <<"approved">>
           n == 1 + CHOOSE k \in DOMAIN Layers : Layers[k] = l
<1>1. CASE wiring = "api"
  <2>1. /\ DOMAIN Layers = 1..7
        /\ \A k \in 1..8 : p[k] \notin {"idle", "meta", "asking"}
        /\ \A k \in 1..7 : Layers[k] \notin {"idle", "meta", "asking"}
    BY <1>1 DEF Layers
  <2>2. n \in 1..8
    BY <2>1 DEF ToSet
  <2> HIDE DEF n, p
  <2> QED
    BY <2>1, <2>2 DEF LayerAfter, n, p, ToSet
<1>2. CASE wiring # "api"
  <2>1. /\ DOMAIN Layers = 1..5
        /\ \A k \in 1..6 : p[k] \notin {"idle", "meta", "asking"}
        /\ \A k \in 1..5 : Layers[k] \notin {"idle", "meta", "asking"}
    BY <1>2 DEF Layers
  <2>2. n \in 1..6
    BY <2>1 DEF ToSet
  <2> HIDE DEF n, p
  <2> QED
    BY <2>1, <2>2 DEF LayerAfter, n, p, ToSet
<1> QED
  BY <1>1, <1>2

\* Setting the weight or the score of a group leaves its members alone.
LEMMA GroupStays ==
  ASSUME NEW s, IsGroup(s), NEW x
  PROVE  /\ IsGroup([s EXCEPT !.weight = x]) /\ [s EXCEPT !.weight = x].members = s.members
         /\ IsGroup([s EXCEPT !.score = x]) /\ [s EXCEPT !.score = x].members = s.members
<1>1. s = [members |-> s.members, merged |-> s.merged, weight |-> s.weight, score |-> s.score]
  BY DEF IsGroup
<1>2. /\ [s EXCEPT !.weight = x]
           = [members |-> s.members, merged |-> s.merged, weight |-> x, score |-> s.score]
      /\ [s EXCEPT !.score = x]
           = [members |-> s.members, merged |-> s.merged, weight |-> s.weight, score |-> x]
  BY <1>1
<1> QED
  BY <1>2 DEF IsGroup

\* Every step keeps VoiceInv.
LEMMA VoiceInvPreserved == ASSUME VoiceInv, [Next]_vars PROVE VoiceInv'
<1>0. RunnerInv'
  BY RunnerInvPreserved DEF VoiceInv
<1> USE DEF VoiceInv
<1>1. ASSUME NEW b \in Bars, NewBar(b) PROVE VoiceInv'
  BY <1>0, <1>1 DEF NewBar, pipe, OneVoice
<1>2. ASSUME EvaluateNext PROVE VoiceInv'
  BY <1>0, <1>2 DEF EvaluateNext, pipe, OneVoice
<1>3. ASSUME NEW b \in Bars, NEW key, NEW kind, Scan(b, key, kind) PROVE VoiceInv'
  <2> DEFINE r == IF kind = "analyze" THEN b.detected ELSE "TREND"
  <2>1. found' = run_strategy(key, b, r) /\ UNCHANGED <<wiring, pool, at, sig, let, seen, out>>
    BY <1>3 DEF Scan, pipe
  <2> HIDE DEF r
  <2>2. \A k \in DOMAIN found' : /\ found'[k].strategy \in ToSet(ScanOrder)
                                 /\ found'[k].result = Alone(found'[k].strategy, b)
    BY <2>1, ScansAlone
  <2>3. \A k \in DOMAIN found' : IsSignal(found'[k]) => Protects(found'[k].result)
    BY <2>2, SignalsProtect DEF IsSignal
  <2> QED
    BY <1>0, <2>1, <2>3 DEF OneVoice
<1>4. ASSUME Feed PROVE VoiceInv'
  <2>1. FineList(wiring, FoldLeft(Put, pool, Sent))
    BY SentIsFine, FedIsFine
  <2>2. /\ pool' = FoldLeft(Put, pool, Sent) /\ found' = <<>>
        /\ UNCHANGED <<wiring, at, sig, let, seen, out>>
    BY <1>4 DEF Feed, pipe
  <2> QED
    BY <1>0, <2>1, <2>2 DEF OneVoice
<1>5. ASSUME Flush PROVE VoiceInv'
  <2>1. /\ pool # <<>> /\ at = "idle" /\ pool' = <<>>
        /\ UNCHANGED <<wiring, found, let, seen, out>>
    BY <1>5 DEF Flush, runner
  <2>2. CASE UNCHANGED <<at, sig>>
    BY <1>0, <2>1, <2>2, EmptyIsFine DEF OneVoice
  <2>3. CASE /\ at' = "meta"
             /\ sig' = [members |-> pool, merged |-> Merged(pool), weight |-> 0, score |-> 0]
    <3>1. IsGroup(sig') /\ sig'.members = pool
      BY <2>3 DEF IsGroup
    <3> QED
      BY <1>0, <2>1, <2>3, <3>1, EmptyIsFine DEF OneVoice
  <2> QED
    BY <1>5, <2>2, <2>3 DEF Flush
<1>6. ASSUME ReadRegime PROVE VoiceInv'
  <2>1. /\ at = "meta" /\ at' = "asking" /\ let' = <<>>
        /\ UNCHANGED <<wiring, found, pool, sig, out>>
    BY <1>6 DEF ReadRegime, runner
  <2>2. sig.weight \in Nat
    BY <2>1
  <2> QED
    BY <1>0, <2>1, <2>2, EmptyIsFine DEF OneVoice
<1>7. ASSUME AskHealth PROVE VoiceInv'
  <2> DEFINE n == sig.weight + 1
             c == sig.members[n]
  <2>1. /\ at = "asking" /\ sig.weight < Len(sig.members)
        /\ UNCHANGED <<wiring, found, pool, out>>
        /\ Asked(c, TRUE) \/ Asked(c, FALSE)
    BY <1>7 DEF AskHealth, runner
  <2>2. n \in DOMAIN sig.members
    BY <2>1, ListIs DEF FineList
  <2>3. Fine(wiring, c)
    BY <2>1, <2>2 DEF FineList
  <2> HIDE DEF c
  <2>4. /\ sig' = [sig EXCEPT !.weight = n] /\ UNCHANGED <<at, seen>>
        /\ \/ let' = Append(let, c) /\ Allowed(c.name, seen)
           \/ let' = let
    BY <2>1 DEF Asked
  <2>5. IsGroup(sig') /\ sig'.members = sig.members /\ sig'.weight = n
    <3>1. IsGroup(sig)
      BY <2>1
    <3> QED
      BY <2>4, <3>1 DEF IsGroup
  <2>6. FineList(wiring, let') /\ \A k \in DOMAIN let' : Allowed(let'[k].name, seen)
    <3>1. CASE let' = Append(let, c) /\ Allowed(c.name, seen)
      <4>1. Listed(let) /\ FineList(wiring, let) /\ \A k \in DOMAIN let : Allowed(let[k].name, seen)
        BY <2>1 DEF FineList
      <4>2. FineList(wiring, let')
        BY <2>3, <3>1, <4>1, MoreIsFine
      <4>3. /\ Len(let') = Len(let) + 1 /\ let'[Len(let) + 1] = c
            /\ \A k \in DOMAIN let : let'[k] = let[k]
        BY <3>1, <4>1, Appended
      <4>4. Len(let) \in Nat /\ DOMAIN let = 1 .. Len(let) /\ DOMAIN let' = 1 .. Len(let')
        BY <4>1, <4>2, ListIs DEF FineList
      <4>5. \A k \in DOMAIN let' : k \in DOMAIN let \/ k = Len(let) + 1
        BY <4>3, <4>4
      <4> QED
        BY <3>1, <4>1, <4>2, <4>3, <4>5
    <3>2. CASE let' = let
      BY <2>1, <3>2
    <3> QED
      BY <2>4, <3>1, <3>2
  <2> QED
    BY <1>0, <2>1, <2>4, <2>5, <2>6 DEF OneVoice
<1>8. ASSUME filter_signal PROVE VoiceInv'
  <2>1. at = "asking" /\ UNCHANGED <<wiring, found, pool, out>>
    BY <1>8 DEF filter_signal, runner
  <2>2. CASE Drop
    BY <1>0, <2>1, <2>2, EmptyIsFine DEF Drop, OneVoice
  <2>3. CASE /\ let # <<>> /\ at' = Layers[1] /\ sig' = [sig EXCEPT !.members = let, !.weight = 0]
             /\ UNCHANGED <<let, seen>>
    <3>1. at' = "confirmation"
      BY <2>3 DEF Layers
    <3>2. IsGroup(sig') /\ sig'.members = let
      BY <2>1, <2>3 DEF IsGroup
    <3> QED
      BY <1>0, <2>1, <2>3, <3>1, <3>2 DEF OneVoice
  <2> QED
    BY <1>8, <2>2, <2>3 DEF filter_signal
<1>9. ASSUME Layer PROVE VoiceInv'
  <2>1. at \in ToSet(Layers) /\ UNCHANGED <<wiring, found, pool, out>>
    BY <1>9 DEF Layer, runner
  <2>2. CASE Drop
    BY <1>0, <2>1, <2>2, EmptyIsFine DEF Drop, OneVoice
  <2>3. CASE at' = LayerAfter(at) /\ sig' = Set(at, sig) /\ UNCHANGED <<let, seen>>
    <3>1. at' \notin {"meta", "asking"} /\ at \notin {"idle", "meta", "asking"}
      BY <2>1, <2>3, LaterLayers
    <3>2. IsGroup(sig') /\ sig'.members = sig.members
      <4>1. IsGroup(sig)
        BY <3>1
      <4>2. \/ Set(at, sig) = sig
            \/ Set(at, sig) = [sig EXCEPT !.weight = Weight(sig.members)]
            \/ Set(at, sig) = [sig EXCEPT !.score = Score(sig)]
        BY DEF Set
      <4> DEFINE x == Weight(sig.members)
                 y == Score(sig)
      <4> HIDE DEF x, y
      <4>3. CASE sig' = [sig EXCEPT !.weight = x]
        BY <4>1, <4>3, GroupStays
      <4>4. CASE sig' = [sig EXCEPT !.score = y]
        BY <4>1, <4>4, GroupStays
      <4> QED
        BY <2>3, <4>1, <4>2, <4>3, <4>4 DEF x, y
    <3> QED
      BY <1>0, <2>1, <2>3, <3>1, <3>2 DEF OneVoice
  <2> QED
    BY <1>9, <2>2, <2>3 DEF Layer
<1>10. ASSUME on_signal_approved PROVE VoiceInv'
  <2>1. at = "approved" /\ Drop /\ UNCHANGED <<wiring, found, pool>>
    BY <1>10 DEF on_signal_approved, runner
  <2>2. CASE UNCHANGED out
    BY <1>0, <2>1, <2>2, EmptyIsFine DEF Drop, OneVoice
  <2>3. CASE wiring = "worker" /\ out' = [message |-> Message(sig), row |-> Prices(sig.merged),
                                           members |-> sig.members, regime |-> seen]
    <3> DEFINE c == sig.members[1]
    <3>1. 1 \in DOMAIN sig.members /\ Message(sig) = Prices(c)
      <4>1. sig.members \in Seq(ToSet(sig.members)) /\ sig.members # <<>>
        BY <2>1 DEF FineList, Listed
      <4> QED
        BY <4>1 DEF Message
    <3>2. Fine(wiring, c) /\ Allowed(c.name, seen)
      BY <2>1, <3>1 DEF FineList
    <3>3. c.scanner /\ Protects(Prices(c))
      BY <2>3, <3>2 DEF Fine
    <3> HIDE DEF c
    <3>4. OneVoice'
      BY <2>3, <3>1, <3>2, <3>3 DEF OneVoice, c
    <3> QED
      BY <1>0, <2>1, <2>3, <3>4, EmptyIsFine DEF Drop
  <2> QED
    BY <1>10, <2>2, <2>3 DEF on_signal_approved, process_alert, Published
<1>11. ASSUME RegimeDetected \/ TimePasses \/ TradingStopped \/ Health PROVE VoiceInv'
  <2>1. UNCHANGED <<wiring, found, pool, at, sig, let, seen, out>>
    BY <1>11 DEF RegimeDetected, TimePasses, TradingStopped, Move, Health, runner, pipe
  <2> QED
    BY <1>0, <2>1 DEF OneVoice
<1>12. CASE UNCHANGED vars
  BY <1>0, <1>12 DEF vars, runner, pipe, OneVoice
<1> QED
  BY <1>1, <1>2, <1>3, <1>4, <1>5, <1>6, <1>7, <1>8, <1>9, <1>10, <1>11, <1>12
     DEF Next, Analyze, ScanList

(* What the worker publishes on signals:approved has the prices of one     *)
(* scanner candidate that META's regime allows, with stop and target on    *)
(* their sides of the entry, for every bar, list and order of events       *)
(* (_on_signal_approved).                                                  *)
THEOREM SpeaksWithOneVoice == Spec => []OneVoice
<1>1. VoiceInv => OneVoice
  BY DEF VoiceInv
<1> QED
  BY <1>1, VoiceInvInit, VoiceInvPreserved, PTL DEF Spec

-----------------------------------------------------------------------------
(* The health of a strategy.                                               *)

\* Whoever is about to switch a strategy on has read that its pause is over,
\* or had found it on.
HealthInv ==
    /\ health \in [Ids -> Records]
    /\ holder \in [Sessions -> Ids \cup {0}]
    /\ read \in [Sessions -> Records] /\ write \in [Sessions -> Records]
    /\ today \in Nat
    /\ \A w \in Sessions : holder[w] # 0 /\ ~write[w].disabled =>
                               PauseOver(read[w]) \/ ~read[w].disabled

\* A step that switches a strategy on is a save of somebody who may.
OffStaysOff ==
    \A i \in Ids :
        health[i].disabled /\ ~health'[i].disabled =>
            \E w \in Sessions : holder[w] = i /\ (PauseOver(read[w]) \/ ~read[w].disabled)

\* The health of a strategy without a key is well typed.
LEMMA FreshIsRecord == Fresh \in Records
  BY DEF Fresh, Records

\* HealthInv holds at the start.
LEMMA HealthInvInit == ASSUME NEW n, HealthInit(n) PROVE HealthInv
  BY FreshIsRecord DEF HealthInit, HealthInv, Fresh

\* Recording a trade never switches a strategy on.
LEMMA RecordedIs ==
  ASSUME NEW h \in Records, NEW pnl \in Pnls, today \in Nat
  PROVE  Recorded(h, pnl) \in Records /\ (h.disabled => Recorded(h, pnl).disabled)
<1> DEFINE t == Recent(Append(h.trades, pnl), PfLookback)
           k == IF pnl < 0 THEN h.losses + 1 ELSE 0
           n == [h EXCEPT !.trades = t, !.losses = k]
           u == IF n.losses >= MaxLosses THEN today + 1 ELSE n.until
           x == [n EXCEPT !.disabled = TRUE, !.until = u]
<1>1. t \in Seq(Pnls)
  <2>1. Append(h.trades, pnl) \in Seq(Pnls) /\ PfLookback \in Nat
    BY HealthAssumption DEF Records
  <2> QED
    BY <2>1 DEF Recent
<1>2. k \in Nat
  BY DEF Records
<1> HIDE DEF t, k
<1>3. n \in Records /\ n.disabled = h.disabled /\ n.until = h.until
  BY <1>1, <1>2 DEF Records
<1>4. Recorded(h, pnl) = IF should_disable(n) /\ ~n.disabled THEN x ELSE n
  <2>1. n = [h EXCEPT !.trades = Recent(Append(@, pnl), PfLookback),
                      !.losses = IF pnl < 0 THEN @ + 1 ELSE 0]
    BY DEF t, k
  <2> HIDE DEF n
  <2> QED
    BY <2>1 DEF Recorded
<1> HIDE DEF n
<1>5. u \in Nat \cup {Never}
  BY <1>3 DEF Records
<1> HIDE DEF u
<1>6. x \in Records /\ x.disabled
  BY <1>3, <1>5 DEF Records
<1> HIDE DEF x
<1> QED
  BY <1>3, <1>4, <1>6

\* A session that holds a state to save keeps HealthInv, if what it will save
\* is on only where it may be.
LEMMA HoldsWhatItMay ==
  ASSUME HealthInv, NEW w \in Sessions, NEW i \in Ids, NEW new \in Records, Hold(w, i, new),
         health[i].disabled => new.disabled \/ PauseOver(health[i])
  PROVE  HealthInv' /\ OffStaysOff
<1>1. /\ holder' = [holder EXCEPT ![w] = i] /\ read' = [read EXCEPT ![w] = health[i]]
      /\ write' = [write EXCEPT ![w] = new] /\ UNCHANGED <<health, today>>
  BY DEF Hold
<1>2. health[i] \in Records
  BY DEF HealthInv
<1>3. \A v \in Sessions : holder'[v] # 0 /\ ~write'[v].disabled =>
                              PauseOver(read[v])' \/ ~read'[v].disabled
  BY <1>1 DEF HealthInv, PauseOver
<1> QED
  BY <1>1, <1>2, <1>3 DEF HealthInv, OffStaysOff, PauseOver

\* Clearing a pause that is over keeps HealthInv.
LEMMA Clears ==
  ASSUME HealthInv, NEW w, NEW i \in Ids, clear_pause(w, i), w \in Sessions
  PROVE  HealthInv' /\ OffStaysOff
<1>1. health[i] \in Records /\ Hold(w, i, [health[i] EXCEPT !.disabled = FALSE, !.until = Never])
      /\ PauseOver(health[i])
  BY DEF HealthInv, clear_pause
<1>2. [health[i] EXCEPT !.disabled = FALSE, !.until = Never] \in Records
  BY <1>1 DEF Records
<1> QED
  BY <1>1, <1>2, HoldsWhatItMay

\* A session that is done keeps HealthInv.
LEMMA LetsGo ==
  ASSUME HealthInv, NEW w \in Sessions, UNCHANGED today,
         holder' = [holder EXCEPT ![w] = 0],
         read' = [read EXCEPT ![w] = Fresh], write' = [write EXCEPT ![w] = Fresh],
         health' \in [Ids -> Records]
  PROVE  HealthInv'
<1>1. \A v \in Sessions : holder'[v] # 0 => v # w
  BY DEF HealthInv
<1>2. \A v \in Sessions \ {w} : holder'[v] = holder[v] /\ read'[v] = read[v] /\ write'[v] = write[v]
  BY DEF HealthInv
<1>3. \A v \in Sessions : holder'[v] # 0 /\ ~write'[v].disabled =>
                              PauseOver(read[v])' \/ ~read'[v].disabled
  BY <1>1, <1>2 DEF HealthInv, PauseOver
<1> QED
  BY <1>3, FreshIsRecord DEF HealthInv, PauseOver

\* Every step of the keys keeps HealthInv and is one that PauseHolds allows.
LEMMA HealthSteps ==
  ASSUME HealthInv, HealthNext
  PROVE  HealthInv' /\ OffStaysOff
<1>1. ASSUME NEW w \in Sessions, NEW i \in Ids, NEW p \in Pnls, record_trade(w, i, p)
      PROVE  HealthInv' /\ OffStaysOff
  <2>1. health[i] \in Records /\ today \in Nat /\ Hold(w, i, Recorded(health[i], p))
    BY <1>1 DEF HealthInv, record_trade
  <2>2. Recorded(health[i], p) \in Records
        /\ (health[i].disabled => Recorded(health[i], p).disabled)
    BY <2>1, RecordedIs
  <2> QED
    BY <2>1, <2>2, HoldsWhatItMay
<1>2. ASSUME NEW w \in Sessions, NEW i \in Ids, clear_pause(w, i)
      PROVE  HealthInv' /\ OffStaysOff
  BY <1>2, Clears
<1>3. ASSUME NEW w \in Sessions, save_state(w) PROVE HealthInv' /\ OffStaysOff
  <2>1. /\ holder[w] # 0 /\ health' = [health EXCEPT ![holder[w]] = write[w]]
        /\ holder' = [holder EXCEPT ![w] = 0] /\ UNCHANGED today
        /\ read' = [read EXCEPT ![w] = Fresh] /\ write' = [write EXCEPT ![w] = Fresh]
    BY <1>3 DEF save_state
  <2>2. health' \in [Ids -> Records]
    BY <2>1 DEF HealthInv
  <2>3. HealthInv'
    BY <2>1, <2>2, LetsGo
  <2>4. OffStaysOff
    BY <2>1 DEF HealthInv, OffStaysOff
  <2> QED
    BY <2>3, <2>4
<1>4. ASSUME NEW w \in Sessions, NotSaved(w) PROVE HealthInv' /\ OffStaysOff
  <2>1. /\ holder' = [holder EXCEPT ![w] = 0] /\ UNCHANGED <<health, today>>
        /\ read' = [read EXCEPT ![w] = Fresh] /\ write' = [write EXCEPT ![w] = Fresh]
    BY <1>4 DEF NotSaved
  <2>2. health' \in [Ids -> Records]
    BY <2>1 DEF HealthInv
  <2>3. HealthInv'
    BY <2>1, <2>2, LetsGo
  <2> QED
    BY <2>1, <2>3 DEF OffStaysOff
<1>5. ASSUME DayPasses PROVE HealthInv' /\ OffStaysOff
  <2>1. today' = today + 1 /\ UNCHANGED <<health, holder, read, write>>
    BY <1>5 DEF DayPasses
  <2>2. \A v \in Sessions : read[v] \in Records
    BY DEF HealthInv
  <2>3. \A v \in Sessions : PauseOver(read[v]) => PauseOver(read[v])'
    BY <2>1, <2>2 DEF HealthInv, PauseOver, Records, Never
  <2> QED
    BY <2>1, <2>3 DEF HealthInv, OffStaysOff
<1> QED
  BY <1>1, <1>2, <1>3, <1>4, <1>5 DEF HealthNext

\* So does every step that leaves the keys alone.
LEMMA HealthUnmoved ==
  ASSUME HealthInv, UNCHANGED health_vars
  PROVE  HealthInv' /\ OffStaysOff
  BY DEF HealthInv, OffStaysOff, health_vars, PauseOver

\* Every step of the pipeline keeps HealthInv and is one that PauseHolds allows.
LEMMA HealthPreserved ==
  ASSUME VoiceInv, HealthInv, [Next]_vars
  PROVE  HealthInv' /\ OffStaysOff
<1>0. "runner" \in Sessions /\ "meta" \in Sessions
  BY PipelineAssumption DEF Sessions
<1>1. ASSUME EvaluateNext PROVE HealthInv' /\ OffStaysOff
  <2>1. CASE clear_pause("runner", next)
    <3>1. wiring = "api" /\ next <= Len(loaded)
      BY <1>1 DEF EvaluateNext
    <3>2. DOMAIN loaded = Ids /\ next \in Nat \ {0} /\ loaded \in Seq(Strategies)
      BY <3>1 DEF VoiceInv, RunnerInv
    <3>3. next \in Ids
      BY <3>1, <3>2
    <3> QED
      BY <1>0, <2>1, <3>3, Clears
  <2> QED
    BY <1>1, <2>1, HealthUnmoved DEF EvaluateNext
<1>2. ASSUME AskHealth PROVE HealthInv' /\ OffStaysOff
  <2> DEFINE c == sig.members[sig.weight + 1]
  <2>1. CASE c.id # 0 /\ clear_pause("meta", c.id)
    <3>1. at = "asking" /\ sig.weight < Len(sig.members)
      BY <1>2 DEF AskHealth
    <3>2. sig.weight \in Nat /\ FineList(wiring, sig.members)
      BY <3>1 DEF VoiceInv
    <3>3. sig.weight + 1 \in DOMAIN sig.members
      BY <3>1, <3>2, ListIs DEF FineList
    <3>4. c.id \in Ids
      BY <2>1, <3>2, <3>3 DEF FineList, Fine
    <3> HIDE DEF c
    <3> QED
      BY <1>0, <2>1, <3>4, Clears
  <2> QED
    BY <1>2, <2>1, HealthUnmoved DEF AskHealth
<1>3. ASSUME Health PROVE HealthInv' /\ OffStaysOff
  BY <1>3, HealthSteps DEF Health
<1>4. ASSUME \/ \E b \in Bars : NewBar(b)
             \/ \E b \in Bars, k \in Keys : Analyze(b, k) \/ ScanList(b, k)
             \/ Feed \/ Flush \/ ReadRegime \/ filter_signal \/ Layer \/ on_signal_approved
             \/ RegimeDetected \/ TimePasses \/ TradingStopped
      PROVE  HealthInv' /\ OffStaysOff
  <2>1. UNCHANGED health_vars
    BY <1>4 DEF NewBar, Analyze, ScanList, Scan, Feed, Flush, ReadRegime, filter_signal, Layer,
       on_signal_approved, RegimeDetected, TimePasses, TradingStopped, Move
  <2> QED
    BY <2>1, HealthUnmoved
<1>5. CASE UNCHANGED vars
  BY <1>5, HealthUnmoved DEF vars
<1> QED
  BY <1>1, <1>2, <1>3, <1>4, <1>5 DEF Next

(* A strategy that was switched off is switched on only by a save whose    *)
(* reader had found its pause over or found it on, whoever records trades  *)
(* and asks at the same time (strategy_health.record_trade, is_disabled).  *)
THEOREM PausesHold == Spec => PauseHolds
<1>1. ASSUME Init PROVE VoiceInv /\ HealthInv
  <2>1. VoiceInv
    BY <1>1, VoiceInvInit
  <2>2. PICK s \in Starts : HealthInit(s.recorded)
    BY <1>1 DEF Init
  <2> QED
    BY <2>1, <2>2, HealthInvInit
<1>2. ASSUME VoiceInv, HealthInv, [Next]_vars PROVE (VoiceInv /\ HealthInv)' /\ OffStaysOff
  BY <1>2, VoiceInvPreserved, HealthPreserved
<1>3. ASSUME OffStaysOff PROVE [OffStaysOff]_health_vars
  BY <1>3
<1> QED
  BY <1>1, <1>2, <1>3, PTL DEF Spec, PauseHolds, OffStaysOff

-----------------------------------------------------------------------------
\* SignalDelivery.

USE DEF deliveryVars, streamVars, pel, effects, consumerVars, Consumers

-----------------------------------------------------------------------------
(* Every step keeps the types.                                             *)
LEMMA TypeStep == DeliveryInv /\ [DeliveryNext]_deliveryVars => TypeOK'
<1> SUFFICES ASSUME DeliveryInv, [DeliveryNext]_deliveryVars PROVE TypeOK'
  OBVIOUS
<1> USE DeliveryAssumption
<1> USE DEF DeliveryInv, TypeOK, Goto, InHandler
<1>1. ASSUME NEW m \in Msgs, Publish(m) PROVE TypeOK'
  BY <1>1 DEF Publish
<1>2. ASSUME Tick PROVE TypeOK'
  BY <1>2 DEF Tick
<1>3. ASSUME NEW w \in Workers, Read(w) PROVE TypeOK'
  BY <1>3 DEF Read, Batch
<1>4. ASSUME NEW r \in Recoverers, Recover(r) PROVE TypeOK'
  BY <1>4 DEF Recover, Idle, Poisoned
<1>5. ASSUME NEW c \in Consumers, NEW m \in Msgs, Take(c, m) PROVE TypeOK'
  BY <1>5 DEF Take
<1>6. ASSUME NEW c \in Consumers, CheckAge(c) PROVE TypeOK'
  BY <1>6 DEF CheckAge
<1>7. ASSUME NEW c \in Consumers, Claim(c) PROVE TypeOK'
  BY <1>7 DEF Claim
<1>8. ASSUME NEW c \in Consumers, Refuse(c) PROVE TypeOK'
  BY <1>8 DEF Refuse
<1>9. ASSUME NEW c \in Consumers, Execute(c) PROVE TypeOK'
  BY <1>9 DEF Execute
<1>10. ASSUME NEW c \in Consumers, ExecuteNothing(c) PROVE TypeOK'
  BY <1>10 DEF ExecuteNothing
<1>11. ASSUME NEW c \in Consumers, Report(c) PROVE TypeOK'
  BY <1>11 DEF Report
<1>12. ASSUME NEW c \in Consumers, Ack(c) PROVE TypeOK'
  BY <1>12 DEF Ack, MoveOn
<1>13. ASSUME NEW w \in Workers, Raise(w) PROVE TypeOK'
  BY <1>13 DEF Raise, MoveOn
<1>14. ASSUME NEW r \in Recoverers, RaiseInRecovery(r) PROVE TypeOK'
  BY <1>14 DEF RaiseInRecovery, MoveOn
<1>15. ASSUME NEW c \in Consumers, Crash(c) PROVE TypeOK'
  BY <1>15 DEF Crash, MoveOn
<1>17. ASSUME NEW w \in Workers, LoseRead(w) PROVE TypeOK'
  BY <1>17 DEF LoseRead, Batch
<1>16. CASE UNCHANGED deliveryVars
  BY <1>16
<1> QED
  BY <1>1, <1>2, <1>3, <1>4, <1>5, <1>6, <1>7, <1>8, <1>9, <1>10, <1>11, <1>12,
     <1>13, <1>14, <1>15, <1>16, <1>17
  DEF DeliveryNext, Step, Handle

(* Entries in anybody's hands are entries of the stream.                    *)
LEMMA KnownStep == DeliveryInv /\ [DeliveryNext]_deliveryVars => KnownEntries'
<1> SUFFICES ASSUME DeliveryInv, [DeliveryNext]_deliveryVars PROVE KnownEntries'
  OBVIOUS
<1> USE DeliveryAssumption
<1> USE DEF DeliveryInv, TypeOK, KnownEntries, Goto, InHandler
<1>1. ASSUME NEW m \in Msgs, Publish(m) PROVE KnownEntries'
  BY <1>1 DEF Publish
<1>2. ASSUME Tick PROVE KnownEntries'
  BY <1>2 DEF Tick
<1>3. ASSUME NEW w \in Workers, Read(w) PROVE KnownEntries'
  BY <1>3 DEF Read, Batch
<1>4. ASSUME NEW r \in Recoverers, Recover(r) PROVE KnownEntries'
  BY <1>4 DEF Recover, Idle, Pending
<1>5. ASSUME NEW c \in Consumers, NEW m \in Msgs, Take(c, m) PROVE KnownEntries'
  BY <1>5 DEF Take
<1>6. ASSUME NEW c \in Consumers, CheckAge(c) PROVE KnownEntries'
  BY <1>6 DEF CheckAge
<1>7. ASSUME NEW c \in Consumers, Claim(c) PROVE KnownEntries'
  BY <1>7 DEF Claim
<1>8. ASSUME NEW c \in Consumers, Refuse(c) PROVE KnownEntries'
  BY <1>8 DEF Refuse
<1>9. ASSUME NEW c \in Consumers, Execute(c) PROVE KnownEntries'
  BY <1>9 DEF Execute
<1>10. ASSUME NEW c \in Consumers, ExecuteNothing(c) PROVE KnownEntries'
  BY <1>10 DEF ExecuteNothing
<1>11. ASSUME NEW c \in Consumers, Report(c) PROVE KnownEntries'
  BY <1>11 DEF Report
<1>12. ASSUME NEW c \in Consumers, Ack(c) PROVE KnownEntries'
  BY <1>12 DEF Ack, MoveOn
<1>13. ASSUME NEW w \in Workers, Raise(w) PROVE KnownEntries'
  BY <1>13 DEF Raise, MoveOn
<1>14. ASSUME NEW r \in Recoverers, RaiseInRecovery(r) PROVE KnownEntries'
  BY <1>14 DEF RaiseInRecovery, MoveOn
<1>15. ASSUME NEW c \in Consumers, Crash(c) PROVE KnownEntries'
  BY <1>15 DEF Crash, MoveOn
<1>17. ASSUME NEW w \in Workers, LoseRead(w) PROVE KnownEntries'
  BY <1>17 DEF LoseRead, Batch
<1>16. CASE UNCHANGED deliveryVars
  BY <1>16
<1> QED
  BY <1>1, <1>2, <1>3, <1>4, <1>5, <1>6, <1>7, <1>8, <1>9, <1>10, <1>11, <1>12,
     <1>13, <1>14, <1>15, <1>16, <1>17
  DEF DeliveryNext, Step, Handle

(* The clock waits for a handler between its age check and its SET NX.      *)
LEMMA FreshStep == DeliveryInv /\ [DeliveryNext]_deliveryVars => FreshEnough'
<1> SUFFICES ASSUME DeliveryInv, [DeliveryNext]_deliveryVars PROVE FreshEnough'
  OBVIOUS
<1> USE DeliveryAssumption
<1> USE DEF DeliveryInv, TypeOK, FreshEnough, Goto, InHandler
<1>1. ASSUME NEW m \in Msgs, Publish(m) PROVE FreshEnough'
  BY <1>1 DEF Publish
<1>2. ASSUME Tick PROVE FreshEnough'
  BY <1>2 DEF Tick
<1>3. ASSUME NEW w \in Workers, Read(w) PROVE FreshEnough'
  BY <1>3 DEF Read
<1>4. ASSUME NEW r \in Recoverers, Recover(r) PROVE FreshEnough'
  BY <1>4 DEF Recover
<1>5. ASSUME NEW c \in Consumers, NEW m \in Msgs, Take(c, m) PROVE FreshEnough'
  BY <1>5 DEF Take
<1>6. ASSUME NEW c \in Consumers, CheckAge(c) PROVE FreshEnough'
  BY <1>6 DEF CheckAge
<1>7. ASSUME NEW c \in Consumers, Claim(c) PROVE FreshEnough'
  BY <1>7 DEF Claim
<1>8. ASSUME NEW c \in Consumers, Refuse(c) PROVE FreshEnough'
  BY <1>8 DEF Refuse
<1>9. ASSUME NEW c \in Consumers, Execute(c) PROVE FreshEnough'
  BY <1>9 DEF Execute
<1>10. ASSUME NEW c \in Consumers, ExecuteNothing(c) PROVE FreshEnough'
  BY <1>10 DEF ExecuteNothing
<1>11. ASSUME NEW c \in Consumers, Report(c) PROVE FreshEnough'
  BY <1>11 DEF Report
<1>12. ASSUME NEW c \in Consumers, Ack(c) PROVE FreshEnough'
  BY <1>12 DEF Ack, MoveOn
<1>13. ASSUME NEW w \in Workers, Raise(w) PROVE FreshEnough'
  BY <1>13 DEF Raise, MoveOn
<1>14. ASSUME NEW r \in Recoverers, RaiseInRecovery(r) PROVE FreshEnough'
  BY <1>14 DEF RaiseInRecovery, MoveOn
<1>15. ASSUME NEW c \in Consumers, Crash(c) PROVE FreshEnough'
  BY <1>15 DEF Crash, MoveOn
<1>17. ASSUME NEW w \in Workers, LoseRead(w) PROVE FreshEnough'
  BY <1>17 DEF LoseRead
<1>16. CASE UNCHANGED deliveryVars
  BY <1>16
<1> QED
  BY <1>1, <1>2, <1>3, <1>4, <1>5, <1>6, <1>7, <1>8, <1>9, <1>10, <1>11, <1>12,
     <1>13, <1>14, <1>15, <1>16, <1>17
  DEF DeliveryNext, Step, Handle

(* A key is set for KeyTTL, at a time the signal exists.                    *)
LEMMA KeysStep == DeliveryInv /\ [DeliveryNext]_deliveryVars => KeysOutlive'
<1> SUFFICES ASSUME DeliveryInv, [DeliveryNext]_deliveryVars PROVE KeysOutlive'
  OBVIOUS
<1> USE DeliveryAssumption
<1> USE DEF DeliveryInv, TypeOK, KeysOutlive, KnownEntries
<1>1. ASSUME NEW m \in Msgs, Publish(m) PROVE KeysOutlive'
  BY <1>1 DEF Publish
<1>2. ASSUME Tick PROVE KeysOutlive'
  BY <1>2 DEF Tick
<1>3. ASSUME NEW w \in Workers, Read(w) PROVE KeysOutlive'
  BY <1>3 DEF Read
<1>4. ASSUME NEW r \in Recoverers, Recover(r) PROVE KeysOutlive'
  BY <1>4 DEF Recover
<1>5. ASSUME NEW c \in Consumers, NEW m \in Msgs, Take(c, m) PROVE KeysOutlive'
  BY <1>5 DEF Take
<1>6. ASSUME NEW c \in Consumers, CheckAge(c) PROVE KeysOutlive'
  BY <1>6 DEF CheckAge
<1>7. ASSUME NEW c \in Consumers, Claim(c) PROVE KeysOutlive'
  BY <1>7 DEF Claim
<1>8. ASSUME NEW c \in Consumers, Refuse(c) PROVE KeysOutlive'
  BY <1>8 DEF Refuse
<1>9. ASSUME NEW c \in Consumers, Execute(c) PROVE KeysOutlive'
  BY <1>9 DEF Execute
<1>10. ASSUME NEW c \in Consumers, ExecuteNothing(c) PROVE KeysOutlive'
  BY <1>10 DEF ExecuteNothing
<1>11. ASSUME NEW c \in Consumers, Report(c) PROVE KeysOutlive'
  BY <1>11 DEF Report
<1>12. ASSUME NEW c \in Consumers, Ack(c) PROVE KeysOutlive'
  BY <1>12 DEF Ack
<1>13. ASSUME NEW w \in Workers, Raise(w) PROVE KeysOutlive'
  BY <1>13 DEF Raise
<1>14. ASSUME NEW r \in Recoverers, RaiseInRecovery(r) PROVE KeysOutlive'
  BY <1>14 DEF RaiseInRecovery
<1>15. ASSUME NEW c \in Consumers, Crash(c) PROVE KeysOutlive'
  BY <1>15 DEF Crash
<1>17. ASSUME NEW w \in Workers, LoseRead(w) PROVE KeysOutlive'
  BY <1>17 DEF LoseRead
<1>16. CASE UNCHANGED deliveryVars
  BY <1>16
<1> QED
  BY <1>1, <1>2, <1>3, <1>4, <1>5, <1>6, <1>7, <1>8, <1>9, <1>10, <1>11, <1>12,
     <1>13, <1>14, <1>15, <1>16, <1>17
  DEF DeliveryNext, Step, Handle

(* A second claim of a candle signal would find it stale.                   *)
LEMMA OnceStep == DeliveryInv /\ [DeliveryNext]_deliveryVars => ExecutedOnce'
<1> SUFFICES ASSUME DeliveryInv, [DeliveryNext]_deliveryVars PROVE ExecutedOnce'
  OBVIOUS
<1> USE DeliveryAssumption
<1> USE DEF DeliveryInv, TypeOK, ExecutedOnce, Executing, Goto, InHandler
<1>1. ASSUME NEW m \in Msgs, Publish(m) PROVE ExecutedOnce'
  BY <1>1 DEF Publish
<1>2. ASSUME Tick PROVE ExecutedOnce'
  BY <1>2 DEF Tick
<1>3. ASSUME NEW w \in Workers, Read(w) PROVE ExecutedOnce'
  BY <1>3 DEF Read
<1>4. ASSUME NEW r \in Recoverers, Recover(r) PROVE ExecutedOnce'
  BY <1>4 DEF Recover
<1>5. ASSUME NEW c \in Consumers, NEW m \in Msgs, Take(c, m) PROVE ExecutedOnce'
  BY <1>5 DEF Take
<1>6. ASSUME NEW c \in Consumers, CheckAge(c) PROVE ExecutedOnce'
  BY <1>6 DEF CheckAge
<1>7. ASSUME NEW c \in Consumers, Claim(c) PROVE ExecutedOnce'
  BY <1>7 DEF Claim, FreshEnough, KeysOutlive, KnownEntries
<1>8. ASSUME NEW c \in Consumers, Refuse(c) PROVE ExecutedOnce'
  BY <1>8 DEF Refuse
<1>9. ASSUME NEW c \in Consumers, Execute(c) PROVE ExecutedOnce'
  <2>1. PICK s0 \in Signals : s0 = Signal[work[c]]
    BY <1>9 DEF Execute
  <2>2. /\ trades' = [trades EXCEPT ![s0] = trades[s0] + 1]
        /\ pc' = [pc EXCEPT ![c] = "executed"]
        /\ keyUntil' = keyUntil /\ work' = work
        /\ Executing(c, s0)
    BY <1>9, <2>1 DEF Execute
  <2>3. \A d \in Consumers, s \in Signals : Executing(d, s)' =>
            d # c /\ Executing(d, s)
    BY <2>2
  <2>4. s0 \notin Timeless => trades[s0] = 0 /\ keyUntil[s0] # 0
    <3> SUFFICES ASSUME s0 \in Signals \ Timeless
                 PROVE  trades[s0] = 0 /\ keyUntil[s0] # 0
      OBVIOUS
    <3>1. trades[s0] \in Nat /\ trades[s0] <= 1 /\ trades[s0] # 1
      BY <2>2
    <3>2. keyUntil[s0] = 0 => ~Executing(c, s0)
      OBVIOUS
    <3>3. keyUntil[s0] # 0
      BY <2>2, <3>2
    <3>4. \A n \in Nat : n <= 1 /\ n # 1 => n = 0
      OBVIOUS
    <3>5. trades[s0] = 0
      BY <3>1, <3>4
    <3> QED
      BY <3>3, <3>5
  <2>5. \A s \in Signals : trades'[s] = IF s = s0 THEN trades[s] + 1 ELSE trades[s]
    BY <2>2
  <2>6. s0 \notin Timeless => \A d \in Consumers : Executing(d, s0) => d = c
    BY <2>2
  <2> QED
    BY <2>2, <2>3, <2>4, <2>5, <2>6
<1>10. ASSUME NEW c \in Consumers, ExecuteNothing(c) PROVE ExecutedOnce'
  BY <1>10 DEF ExecuteNothing
<1>11. ASSUME NEW c \in Consumers, Report(c) PROVE ExecutedOnce'
  BY <1>11 DEF Report
<1>12. ASSUME NEW c \in Consumers, Ack(c) PROVE ExecutedOnce'
  BY <1>12 DEF Ack, MoveOn
<1>13. ASSUME NEW w \in Workers, Raise(w) PROVE ExecutedOnce'
  BY <1>13 DEF Raise, MoveOn
<1>14. ASSUME NEW r \in Recoverers, RaiseInRecovery(r) PROVE ExecutedOnce'
  BY <1>14 DEF RaiseInRecovery, MoveOn
<1>15. ASSUME NEW c \in Consumers, Crash(c) PROVE ExecutedOnce'
  BY <1>15 DEF Crash, MoveOn
<1>17. ASSUME NEW w \in Workers, LoseRead(w) PROVE ExecutedOnce'
  BY <1>17 DEF LoseRead
<1>16. CASE UNCHANGED deliveryVars
  BY <1>16
<1> QED
  BY <1>1, <1>2, <1>3, <1>4, <1>5, <1>6, <1>7, <1>8, <1>9, <1>10, <1>11, <1>12,
     <1>13, <1>14, <1>15, <1>16, <1>17
  DEF DeliveryNext, Step, Handle

(* DeliveryInv holds in every reachable state.                             *)
THEOREM DeliveryInvariant == DeliverySpec => []DeliveryInv
<1>1. DeliveryInit => DeliveryInv
  BY DeliveryAssumption
  DEF DeliveryInit, DeliveryInv, TypeOK, KnownEntries, FreshEnough, KeysOutlive,
      ExecutedOnce, Executing
<1>2. DeliveryInv /\ [DeliveryNext]_deliveryVars => DeliveryInv'
  BY TypeStep, KnownStep, FreshStep, KeysStep, OnceStep DEF DeliveryInv
<1> QED
  BY <1>1, <1>2, PTL DEF DeliverySpec

(* Every reachable state is well typed.                                    *)
THEOREM DeliveryTypeCorrect == DeliverySpec => []TypeOK
<1>1. DeliveryInv => TypeOK
  BY DEF DeliveryInv
<1> QED
  BY <1>1, DeliveryInvariant, PTL

(* A candle signal is executed at most once, however often it is           *)
(* published, delivered, claimed or interrupted by a crash.                *)
THEOREM ExecutesAtMostOnce == DeliverySpec => []AtMostOnce
<1>1. DeliveryInv => AtMostOnce
  BY DEF DeliveryInv, ExecutedOnce, AtMostOnce
<1> QED
  BY <1>1, DeliveryInvariant, PTL

-----------------------------------------------------------------------------
(* Every step keeps LossInv.                                               *)
LEMMA LossStep == DeliveryInv /\ LossInv /\ [DeliveryNext]_deliveryVars => LossInv'
<1> SUFFICES ASSUME DeliveryInv, LossInv, [DeliveryNext]_deliveryVars PROVE LossInv'
  OBVIOUS
<1> USE DeliveryAssumption
<1> USE DEF DeliveryInv, TypeOK, LossInv, BehindCursor, ClaimedFirst, LostOnlyByFailure,
            GivenUp, Goto, InHandler
<1>1. ASSUME NEW m \in Msgs, Publish(m) PROVE LossInv'
  BY <1>1 DEF Publish, KnownEntries
<1>2. ASSUME Tick PROVE LossInv'
  BY <1>2 DEF Tick
<1>3. ASSUME NEW w \in Workers, Read(w) PROVE LossInv'
  BY <1>3 DEF Read, Batch
<1>4. ASSUME NEW r \in Recoverers, Recover(r) PROVE LossInv'
  BY <1>4 DEF Recover, Idle, Poisoned, Pending
<1>5. ASSUME NEW c \in Consumers, NEW m \in Msgs, Take(c, m) PROVE LossInv'
  BY <1>5 DEF Take
<1>6. ASSUME NEW c \in Consumers, CheckAge(c) PROVE LossInv'
  BY <1>6 DEF CheckAge
<1>7. ASSUME NEW c \in Consumers, Claim(c) PROVE LossInv'
  BY <1>7 DEF Claim
<1>8. ASSUME NEW c \in Consumers, Refuse(c) PROVE LossInv'
  BY <1>8 DEF Refuse
<1>9. ASSUME NEW c \in Consumers, Execute(c) PROVE LossInv'
  BY <1>9 DEF Execute
<1>10. ASSUME NEW c \in Consumers, ExecuteNothing(c) PROVE LossInv'
  BY <1>10 DEF ExecuteNothing
<1>11. ASSUME NEW c \in Consumers, Report(c) PROVE LossInv'
  BY <1>11 DEF Report
<1>12. ASSUME NEW c \in Consumers, Ack(c) PROVE LossInv'
  BY <1>12 DEF Ack, MoveOn
<1>13. ASSUME NEW w \in Workers, Raise(w) PROVE LossInv'
  BY <1>13 DEF Raise, MoveOn
<1>14. ASSUME NEW r \in Recoverers, RaiseInRecovery(r) PROVE LossInv'
  BY <1>14 DEF RaiseInRecovery, MoveOn
<1>15. ASSUME NEW c \in Consumers, Crash(c) PROVE LossInv'
  BY <1>15 DEF Crash, MoveOn
<1>17. ASSUME NEW w \in Workers, LoseRead(w) PROVE LossInv'
  BY <1>17 DEF LoseRead, Batch
<1>16. CASE UNCHANGED deliveryVars
  BY <1>16
<1> QED
  BY <1>1, <1>2, <1>3, <1>4, <1>5, <1>6, <1>7, <1>8, <1>9, <1>10, <1>11, <1>12,
     <1>13, <1>14, <1>15, <1>16, <1>17
  DEF DeliveryNext, Step, Handle

(* No signal is lost but one that a failed handler had claimed, or one     *)
(* delivered in vain too often, for any number of consumers and entries.   *)
THEOREM LosesOnlyByFailure == DeliverySpec => []LostOnlyByFailure
<1>1. DeliveryInit => LossInv
  BY DeliveryAssumption
  DEF DeliveryInit, LossInv, BehindCursor, ClaimedFirst, LostOnlyByFailure
<1>2. LossInv => LostOnlyByFailure
  BY DEF LossInv
<1> QED
  BY <1>1, <1>2, LossStep, DeliveryInvariant, PTL DEF DeliverySpec
=============================================================================
