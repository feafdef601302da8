------------------------------ MODULE MCLease ------------------------------
(***************************************************************************)
(* Instances of module Lease for TLC.  A downpayment of 40 borrows 60; at  *)
(* the price of 1 the position is of 100 assets with an LTV of 60%.        *)
(***************************************************************************)
EXTENDS Lease

MCLiability ==
    [initial |-> 600, healthy |-> 700, first_liq_warn |-> 750,
     second_liq_warn |-> 780, third_liq_warn |-> 800, max |-> 850,
     recalc_time |-> 1]

\* 1, then LTVs of 86% and 92%, before any interest
MCFewPrices == {Price(1, 1), Price(10, 7), Price(20, 13)}

\* 1, then LTVs of 75%, 86%, 92% and 40%
MCPrices == MCFewPrices \cup {Price(5, 4), Price(2, 3)}

MCTakeProfit == {[take_profit |-> 650, stop_loss |-> 0]}

MCStopLoss == {[take_profit |-> 0, stop_loss |-> 800]}
=============================================================================
