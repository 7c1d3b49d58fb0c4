-------------------------- MODULE MCSignalDelivery --------------------------
(* Instances of SignalDelivery for TLC. *)
EXTENDS SignalDelivery

CONSTANTS m1, m2, s1

\* One signal, published once or twice, its candle closing as the clock starts.
OneSignal == {s1}
TwoMsgs == {m1, m2}
SameSignal == [m \in Msgs |-> s1]
BornAtOnce == [s \in Signals |-> 0]
=============================================================================
