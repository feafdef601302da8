----------------------------- MODULE SwapStates -----------------------------
(***************************************************************************)
(* The control of protocol/packages/dex: for each state of a swap, which   *)
(* message it handles and which states that may lead to.  Amounts, packets *)
(* and balances are the matter of module Dex; a contract that runs a swap, *)
(* as module LeaseContract, is composed of these tables.                   *)
(***************************************************************************)

\* dex::Handler: what a state is asked for
Messages == {"OpenAck", "Response", "Error", "Timeout", "DexCallback",
             "DexCallbackContinue", "Heal", "Reply", "TimeAlarm"}

\* A state of the swap; resp tells a response that is being delivered
Swap(name) == [in |-> name, resp |-> FALSE]

NoSwap == Swap("None")

\* response::Result::Finished
Finished == Swap("Finished")

\* ResponseDelivery around a state
Delivery(swap) == [swap EXCEPT !.resp = TRUE]

\* Entering the state sends a packet which the network will answer
SendsPacket(swap) ==
    ~swap.resp /\ swap.in \in {"OpenIca", "TransferOut", "SwapExactIn",
                               "TransferInInit"}

\* The defaults of dex::Handler: no message is supported
Unsupported == [msg \in Messages |-> {}]

----------------------------------------------------------------------------
(* The handlers: the states each message may lead to *)

IcaConnectorHandler ==
    [Unsupported EXCEPT !.OpenAck = {Swap("TransferOut")}]

\* the last coin leads to the swap, another one to the next transfer
TransferOutHandler ==
    [Unsupported EXCEPT
        !.Response = {Swap("TransferOut"), Swap("SwapExactIn")},
        !.Error    = {Swap("TransferOut")},
        !.Timeout  = {Swap("TransferOut")}]

\* SwapExactIn over out_remote::State
SwapExactInRemoteHandler ==
    [Unsupported EXCEPT
        !.Response = {Finished},
        !.Timeout  = {Swap("SwapExactIn")},
        !.Heal     = {Swap("SwapExactIn")}]

\* SwapExactIn over out_local::State
SwapExactInLocalHandler ==
    [Unsupported EXCEPT
        !.Response = {Swap("TransferInInit")},
        !.Timeout  = {Swap("SwapExactIn")},
        !.Heal     = {Swap("SwapExactIn")}]

\* TransferInFinish::try_complete: done, transfer again, or poll again
TryComplete ==
    {Finished, Swap("TransferInInit"), Swap("TransferInFinish")}

TransferInInitHandler ==
    [Unsupported EXCEPT
        !.Response = {Finished, Swap("TransferInFinish")},
        !.Timeout  = {Swap("TransferInInit")},
        !.Heal     = {Finished, Swap("TransferInFinish")}]

TransferInFinishHandler ==
    [Unsupported EXCEPT !.Heal = TryComplete, !.TimeAlarm = TryComplete]

\* ResponseDeliveryAdapter and ICAOpenDeliveryAdapter: what is delivered
ResponseDeliveryAdapter(handler) == handler.Response

ICAOpenDeliveryAdapter(handler) == handler.OpenAck

\* ResponseDeliveryImpl; a failed delivery is replied and tried again later
ResponseDelivery(swap, handler) ==
    [Unsupported EXCEPT
        !.DexCallback = ResponseDeliveryAdapter(handler),
        !.Reply       = {Delivery(swap)},
        !.TimeAlarm   = ResponseDeliveryAdapter(handler)]

ICAOpenResponseDelivery(swap, handler) ==
    [Unsupported EXCEPT
        !.DexCallbackContinue = ICAOpenDeliveryAdapter(handler),
        !.Reply               = {Delivery(swap)},
        !.TimeAlarm           = ICAOpenDeliveryAdapter(handler)]

----------------------------------------------------------------------------
(* The machines of states *)

\* out_local::State, from the local or the remote network to the local one
OutLocalStates == {"TransferOut", "SwapExactIn", "TransferInInit",
                   "TransferInFinish"}

\* out_remote::State, from the local network to the remote one
OutRemoteStates == {"OpenIca", "TransferOut", "SwapExactIn"}

\* Which state's handler a variant of out_local::State delegates to
LocalHandler(name) ==
    CASE name = "TransferOut"      -> TransferOutHandler
      [] name = "SwapExactIn"      -> SwapExactInLocalHandler
      [] name = "TransferInInit"   -> TransferInInitHandler
      [] name = "TransferInFinish" -> TransferInFinishHandler

\* and a variant of out_remote::State
RemoteHandler(name) ==
    CASE name = "OpenIca"     -> IcaConnectorHandler
      [] name = "TransferOut" -> TransferOutHandler
      [] name = "SwapExactIn" -> SwapExactInRemoteHandler

(***************************************************************************)
(* forward_to_inner and forward_to_inner_ica: an answer is stored and      *)
(* delivered with a sub-message to the very contract.  That either gets    *)
(* the swap on or, if it fails, leaves the stored response for the next    *)
(* time alarm, ResponseDeliveryImpl::reply.                                *)
(***************************************************************************)
Forward(swap, handler) ==
    LET delivery == ResponseDelivery(swap, handler)
    IN  IF handler.Response = {} THEN {}
        ELSE delivery.DexCallback \cup delivery.Reply

ForwardIca(swap, handler) ==
    LET delivery == ICAOpenResponseDelivery(swap, handler)
    IN  IF handler.OpenAck = {} THEN {}
        ELSE delivery.DexCallbackContinue \cup delivery.Reply

(***************************************************************************)
(* The answers of the networks and the calls of others, as the two enums   *)
(* dispatch them.                                                          *)
(***************************************************************************)
LocalAnswers(swap, msg) ==
    LET handler == LocalHandler(swap.in)
    IN  CASE swap.resp -> ResponseDelivery(swap, handler)[msg]
          [] ~swap.resp /\ msg = "Response" -> Forward(swap, handler)
          [] ~swap.resp /\ msg # "Response" -> handler[msg]

LocalCalls(swap, msg) ==
    IF swap.resp THEN ResponseDelivery(swap, LocalHandler(swap.in))[msg]
    ELSE LocalHandler(swap.in)[msg]

RemoteDelivery(swap) ==
    IF swap.in = "OpenIca"
    THEN ICAOpenResponseDelivery(swap, RemoteHandler(swap.in))
    ELSE ResponseDelivery(swap, RemoteHandler(swap.in))

RemoteAnswers(swap, msg) ==
    LET handler == RemoteHandler(swap.in)
    IN  CASE swap.resp -> RemoteDelivery(swap)[msg]
          [] ~swap.resp /\ msg = "OpenAck"  -> ForwardIca(swap, handler)
          [] ~swap.resp /\ msg = "Response" -> Forward(swap, handler)
          [] ~swap.resp /\ msg \notin {"OpenAck", "Response"} -> handler[msg]

RemoteCalls(swap, msg) ==
    IF swap.resp THEN RemoteDelivery(swap)[msg]
    ELSE RemoteHandler(swap.in)[msg]
=============================================================================
