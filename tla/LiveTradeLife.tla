--------------------------- MODULE LiveTradeLife ---------------------------
(***************************************************************************)
(* What the rows of live_trades promise: a row follows what the broker did *)
(* with the orders of its trade.  It is held only once shares were bought, *)
(* closed only once an exit filled or the entry died without a share, and  *)
(* cancelled only once the broker took the cancel of the entry.  The jobs, *)
(* webhooks and monitors that write the row are in LiveOrders.             *)
(***************************************************************************)

VARIABLES
    life,       \* "waiting", "holding", "closed" or "cancelled"
    bought,     \* the entry order has filled at least one share
    dead,       \* the entry order was cancelled or rejected
    exited,     \* one of the exit orders is complete
    asked       \* the broker accepted a cancel of the entry order

trade == <<life, bought, dead, exited, asked>>

Init ==
    /\ life \in {"waiting", "holding"}
    /\ life = "holding" => bought
    /\ <<bought, dead, exited, asked>> \in BOOLEAN \X BOOLEAN \X BOOLEAN \X BOOLEAN

\* The broker's side: facts that never go away; a dead order fills no more.
Broker ==
    /\ bought => bought'
    /\ dead => dead' /\ (bought' = bought)
    /\ exited => exited'
    /\ asked => asked'
    /\ <<bought, dead, exited, asked>>' \in BOOLEAN \X BOOLEAN \X BOOLEAN \X BOOLEAN
    /\ UNCHANGED life

Write(l, earned) ==
    /\ earned
    /\ life' = l
    /\ UNCHANGED <<bought, dead, exited, asked>>

Hold == Write("holding", bought)
Close == Write("closed", exited \/ (dead /\ ~bought))
Cancel == Write("cancelled", asked)

Next == Broker \/ Hold \/ Close \/ Cancel

Spec == Init /\ [][Next]_trade
=============================================================================
