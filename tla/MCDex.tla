------------------------------- MODULE MCDex -------------------------------
(* Instances of Dex for TLC: tasks as the contracts create them *)
EXTENDS Dex

coin(currency, amt) == [cur |-> currency, amount |-> amt]

\* BuyBack of two coins
LocalLocal == {[route |-> "LocalLocal", coins |-> <<coin("a", 2), coin("b", 1)>>]}

\* SellAsset, a part of the position
RemoteLocal == {[route |-> "RemoteLocal", coins |-> <<coin("b", 2)>>]}

\* BuyAsset: the downpayment may be in the leased asset, or in the currency
\* of the principal
LocalRemote ==
    {[route |-> "LocalRemote", coins |-> <<coin("out", 2), coin("b", 1)>>],
     [route |-> "LocalRemote", coins |-> <<coin("a", 1), coin("a", 2)>>]}

\* ClosingTransferIn
TransferIn == {[route |-> "TransferIn", coins |-> <<coin("out", 2)>>]}

AllTasks == LocalLocal \cup RemoteLocal \cup LocalRemote \cup TransferIn

\* the rest of the position, and the proceeds of an earlier mishap
HeldSome == [cur \in Currencies |-> 4]
=============================================================================
