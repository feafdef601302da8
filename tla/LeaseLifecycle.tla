--------------------------- MODULE LeaseLifecycle ---------------------------
(***************************************************************************)
(* What a lease promises, seen from outside: the order of the states it    *)
(* goes through, protocol/contracts/lease/src/contract/state/mod.rs.  It   *)
(* is opened once and ends once; a swap of all of the asset never gets     *)
(* back to an opened lease; a lease whose loan is paid only closes.        *)
(* Module LeaseContract implements it.                                     *)
(***************************************************************************)
VARIABLE at

\* Past a payment that leaves the lease opened, or pays it off
AfterPayment == {"OpenedActive", "PaidActive", "PartialLiquidation",
                 "FullLiquidation", "FullClose"}

\* The states that may come next
Successors ==
    [Init               |-> {"BuyAsset"},
     BuyAsset           |-> {"OpenedActive", "PartialLiquidation",
                             "FullLiquidation"},
     OpenedActive       |-> AfterPayment \cup {"BuyLpn", "PartialClose"},
     BuyLpn             |-> AfterPayment,
     PartialLiquidation |-> AfterPayment,
     PartialClose       |-> AfterPayment,
     FullLiquidation    |-> {"Liquidated"},
     FullClose          |-> {"Closed"},
     PaidActive         |-> {"ClosingTransferIn"},
     ClosingTransferIn  |-> {"Closed"},
     Closed             |-> {},
     Liquidated         |-> {}]

Init == at = "Init"

Next == at' \in Successors[at]

Spec == Init /\ [][Next]_at
=============================================================================
