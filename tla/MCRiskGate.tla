----------------------------- MODULE MCRiskGate -----------------------------
(* Instances of RiskGate for TLC. *)
EXTENDS RiskGate, TLC

CONSTANTS m1, m2, s1

\* Two signals of one stock whose candles close as the clock starts.
TwoMsgs == {m1, m2}
OneStock == {s1}
SameStock == [m \in Msgs |-> s1]
BornAtOnce == [m \in Msgs |-> 0]
Symmetric == Permutations(Replicas)
=============================================================================
