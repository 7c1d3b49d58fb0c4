---------------------------- MODULE MCLiveOrders ----------------------------
(* Instances of LiveOrders for TLC. *)
EXTENDS LiveOrders

\* Two monitors that find an unprotected position.
TwoMonitors == [up : {Monitors}, row : {OpenRow(NoId, NoId)}]

\* The API process with every row, and with a monitor an unprotected position.
ApiAndMonitors ==
    [up : {{Api}}, row : StartRows]
    \cup [up : {{Api} \cup Monitors}, row : {OpenRow(NoId, NoId)}]
=============================================================================
