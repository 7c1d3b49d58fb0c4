---------------------------- MODULE PaperAccount ----------------------------
(***************************************************************************)
(* What the paper account promises: margin is taken out of the virtual     *)
(* balance when a position opens and comes back, with the position's       *)
(* profit or loss, when it closes, each in one indivisible step.  The      *)
(* routers and workers that share the account are in PaperLedger.          *)
(***************************************************************************)
EXTENDS Integers, FiniteSets, FiniteSetsExt

CONSTANTS
    Trades,     \* rows that may be inserted into paper_trades (a bound)
    Margin,     \* Margin[t]: (quantity * entry_price) / 5 of row t
    Pnls,       \* profits and losses a position may realise
    Capital     \* the balance of a fresh account, 100000 in the code

ASSUME AccountAssumption ==
    /\ Margin \in [Trades -> Nat \ {0}]
    /\ Capital \in Nat
    /\ Pnls \subseteq Int

VARIABLES
    balance,    \* RiskConfig.paper_balance
    status,     \* PaperTrade.status; "NEW": not inserted, "DELETED": removed
    pnl         \* PaperTrade.realized_pnl

account == <<balance, status, pnl>>

Statuses == {"NEW", "OPEN", "CLOSED", "DELETED"}

WithStatus(st) == {t \in Trades : status[t] = st}

Init ==
    /\ balance = Capital
    /\ status = [t \in Trades |-> "NEW"]
    /\ pnl = [t \in Trades |-> 0]

Open(t) ==
    /\ status[t] = "NEW"
    /\ balance >= Margin[t]
    /\ balance' = balance - Margin[t]
    /\ status' = [status EXCEPT ![t] = "OPEN"]
    /\ UNCHANGED pnl

Close(t, p) ==
    /\ status[t] = "OPEN"
    /\ balance' = balance + Margin[t] + p
    /\ status' = [status EXCEPT ![t] = "CLOSED"]
    /\ pnl' = [pnl EXCEPT ![t] = p]

Reset ==
    /\ balance' = Capital
    /\ status' = [t \in Trades |-> IF status[t] = "NEW" THEN "NEW" ELSE "DELETED"]
    /\ UNCHANGED pnl

Next ==
    \/ \E t \in Trades : Open(t)
    \/ \E t \in Trades, p \in Pnls : Close(t, p)
    \/ Reset

Spec == Init /\ [][Next]_account

-----------------------------------------------------------------------------
TypeOK ==
    /\ balance \in Int
    /\ status \in [Trades -> Statuses]
    /\ pnl \in [Trades -> Int]

MarginHeld == MapThenSumSet(LAMBDA t : Margin[t], WithStatus("OPEN"))
Realised == MapThenSumSet(LAMBDA t : pnl[t], WithStatus("CLOSED"))

(* No rupee appears or disappears: free balance and margin held by open    *)
(* positions add up to the capital and what closed positions realised      *)
(* (execute_paper_trade / close_paper_trade, "deduct margin on open;       *)
(* returned on close").                                                    *)
Conservation == balance + MarginHeld = Capital + Realised
=============================================================================
