--------------------------- MODULE LeaseContract ---------------------------
(***************************************************************************)
(* The lease contract as its callers meet it: any message, from anybody,   *)
(* at any time.  Each state of the lease handles some messages and refuses *)
(* the others; a state of a swap hands them over to the dex package, the   *)
(* tables of module SwapStates.  What amounts decide is a choice here;     *)
(* module Lease has the amounts.                                           *)
(*                                                                         *)
(* A refused call reverts, so it changes nothing.  The answers come from   *)
(* the network, one per packet sent.                                       *)
(***************************************************************************)
EXTENDS Naturals, SwapStates

CONSTANTS
    Customer,       \* of the lease
    TimeAlarms,     \* the contract that keeps the time alarms
    Oracle,         \* the contract that keeps the price alarms
    Strangers,      \* anybody else
    Network,        \* whoever calls `sudo`, the chain itself
    MaxPackets      \* bound: packets not answered yet

ASSUME ContractAssumption ==
    /\ {Customer, TimeAlarms, Oracle, Network} \cap Strangers = {}
    /\ MaxPackets \in Nat

VARIABLES
    at,             \* the contract's state
    swap,           \* the state of its swap
    packets,        \* packets the network is to answer
    notified,       \* FinalizeLease messages sent to the leaser
    call            \* the last call and what came out of it

vars == <<at, swap, packets, notified, call>>

Senders == {Customer, TimeAlarms, Oracle} \cup Strangers

FinalStates == {"Closed", "Liquidated"}

\* DexState<..> of contract/state/mod.rs, with the task of each
RemoteOutTasks == {"BuyAsset"}

SaleTasks == {"PartialLiquidation", "FullLiquidation", "PartialClose",
              "FullClose"}

LocalOutTasks == SaleTasks \cup {"BuyLpn", "ClosingTransferIn"}

SwapTasks == RemoteOutTasks \cup LocalOutTasks

----------------------------------------------------------------------------
(* Swaps: what each SwapTask begins with and what may come past its finish *)

\* BuyAsset::finish: the position is checked at once
BuyAssetFinish == {"OpenedActive", "PartialLiquidation", "FullLiquidation"}

\* mutant: the stop loss triggered by a payment is not met
RepayFinishNoStopLoss == {"PaidActive", "OpenedActive", "PartialLiquidation",
                          "FullLiquidation", "BuyLpn"}

\* <Repay as Repayable>::try_repay, by the close status past the payment
RepayFinish == {"PaidActive", "OpenedActive", "PartialLiquidation",
                "FullLiquidation", "FullClose"}

(***************************************************************************)
(* What <Repay as Repayable>::try_repay and <Close as Repayable>::try_repay *)
(* end with: the states that may come next and the messages to the leaser. *)
(* The latter ends in CloseAlgo::OutState, its FinalizerRef::notify with   *)
(* it.                                                                     *)
(***************************************************************************)
RepayToGoOn == [finish |-> RepayFinish, finalizer_msgs |-> 0]

RepayToClose(outState) == [finish |-> {outState}, finalizer_msgs |-> 1]

\* start_local_remote: the account comes first
OpenIcaAccount == Swap("OpenIca")

BuyAsset ==
    [start |-> OpenIcaAccount, finish |-> BuyAssetFinish, finalizer_msgs |-> 0]

\* start_local_local
BuyLpn ==
    [start |-> Swap("TransferOut"), finish |-> RepayFinish, finalizer_msgs |-> 0]

\* mutant: a sale starts as a repayment does
SellAssetTransferringOut(repayable) ==
    [start |-> Swap("TransferOut"), finish |-> repayable.finish,
     finalizer_msgs |-> repayable.finalizer_msgs]

\* start_remote_local; the Repayable finishes it
SellAsset(repayable) ==
    [start |-> Swap("SwapExactIn"), finish |-> repayable.finish,
     finalizer_msgs |-> repayable.finalizer_msgs]

PartialLiquidation == SellAsset(RepayToGoOn)

FullLiquidation == SellAsset(RepayToClose("Liquidated"))

PartialClose == SellAsset(RepayToGoOn)

FullClose == SellAsset(RepayToClose("Closed"))

\* mutant: the leaser does not get to know of a paid lease that is closed
ClosingTransferInSilent ==
    [start |-> Swap("TransferInInit"), finish |-> {"Closed"}, finalizer_msgs |-> 0]

\* StartTransferInState::new; TransferIn::finish notifies the leaser as well
ClosingTransferIn ==
    [start |-> Swap("TransferInInit"), finish |-> {"Closed"}, finalizer_msgs |-> 1]

Task ==
    [BuyAsset           |-> BuyAsset,
     BuyLpn             |-> BuyLpn,
     PartialLiquidation |-> PartialLiquidation,
     FullLiquidation    |-> FullLiquidation,
     PartialClose       |-> PartialClose,
     FullClose          |-> FullClose,
     ClosingTransferIn  |-> ClosingTransferIn]

\* the answers the states of a swap get from the network
AnswerTo(msg) ==
    IF at \in RemoteOutTasks THEN RemoteAnswers(swap, msg)
    ELSE LocalAnswers(swap, msg)

CallTo(msg) ==
    IF at \in RemoteOutTasks THEN RemoteCalls(swap, msg)
    ELSE LocalCalls(swap, msg)

----------------------------------------------------------------------------
(* What becomes of a call *)

Outcome(msg, from, result) ==
    call' = [msg |-> msg, from |-> from, result |-> result]

Refuse(msg, from) ==
    /\ Outcome(msg, from, "Refused")
    /\ UNCHANGED <<at, swap, packets, notified>>

\* state::ignore_msg
IgnoreMsg(msg, from) ==
    /\ Outcome(msg, from, "Ignored")
    /\ UNCHANGED <<at, swap, packets, notified>>

\* `left` is the number of packets that are still to be answered
Sent(left, next) == left + IF SendsPacket(next) THEN 1 ELSE 0

\* The next state of the lease; that of a swap enters it and sends its packet
Enter(next, left) ==
    LET start == IF next \in SwapTasks THEN Task[next].start ELSE NoSwap
    IN  /\ at' = next
        /\ swap' = start
        /\ packets' = Sent(left, start)
        /\ packets' <= MaxPackets

Go(next, left) == Enter(next, left) /\ UNCHANGED notified

\* SwapTask::finish
Finish(left) ==
    /\ \E state \in Task[at].finish : Enter(state, left)
    /\ notified' = notified + Task[at].finalizer_msgs

\* A step of the swap: on to another of its states, or to its finish
Advance(next, left) ==
    \/ next = Finished /\ Finish(left)
    \/ /\ next # Finished
       /\ swap' = next
       /\ packets' = Sent(left, next)
       /\ packets' <= MaxPackets
       /\ UNCHANGED <<at, notified>>

\* A call that the swap handles, or refuses
SwapCall(msg, from, outcomes, left) ==
    \/ \E next \in outcomes : Advance(next, left) /\ Outcome(msg, from, "Ok")
    \/ Refuse(msg, from)

----------------------------------------------------------------------------
(* ExecuteMsg *)

Init ==
    /\ at = "Init"
    /\ swap = NoSwap
    /\ packets = 0
    /\ notified = 0
    /\ call = [msg |-> "None", from |-> Customer, result |-> "Ok"]

\* RequestLoan::on_response: the loan is got, the account is opened
RequestLoanReply == Go("BuyAsset", packets)

\* endpoints::instantiate; the reply is of the same transaction
Instantiate ==
    /\ at = "Init"
    /\ RequestLoanReply
    /\ Outcome("Instantiate", Customer, "Ok")

Opened == at # "Init"

\* Handler::repay: anybody may repay
Repay(from) ==
    /\ Opened
    /\ \/ /\ at = "OpenedActive"
          /\ \E next \in RepayFinish \cup {"BuyLpn"} : Go(next, packets)
          /\ Outcome("Repay", from, "Ok")
       \/ Refuse("Repay", from)

ChangeClosePolicy(from) ==
    /\ Opened
    /\ \/ /\ at = "OpenedActive" /\ from = Customer
          /\ Outcome("ChangeClosePolicy", from, "Ok")
          /\ UNCHANGED <<at, swap, packets, notified>>
       \/ Refuse("ChangeClosePolicy", from)

\* customer_close::start
CustomerClose == {"PartialClose", "FullClose"}

ClosePosition(from) ==
    /\ Opened
    /\ \/ /\ at = "OpenedActive" /\ from = Customer
          /\ \E next \in CustomerClose : Go(next, packets)
          /\ Outcome("ClosePosition", from, "Ok")
       \/ Refuse("ClosePosition", from)

\* paid::Active::close
Close(from) ==
    /\ Opened
    /\ \/ /\ at = "PaidActive" /\ from = Customer
          /\ Go("ClosingTransferIn", packets)
          /\ Outcome("Close", from, "Ok")
       \/ Refuse("Close", from)

\* Active::start_swap: liquidation::start or customer_close::auto_start
StartSwap == {"PartialLiquidation", "FullLiquidation", "FullClose"}

\* Active::try_on_alarm: steady, or in need of a liquidation or a close
TryOnAlarm(msg, from) ==
    /\ \/ \E next \in StartSwap : Go(next, packets)
       \/ UNCHANGED <<at, swap, packets, notified>>
    /\ Outcome(msg, from, "Ok")

(***************************************************************************)
(* on_time_alarm.  Only an active lease tells who calls; a swap polls or   *)
(* delivers again whoever asks, or refuses the alarm, which then comes     *)
(* again.                                                                  *)
(***************************************************************************)
TimeAlarm(from) ==
    /\ Opened
    /\ \/ /\ at = "OpenedActive"
          /\ \/ from = TimeAlarms /\ TryOnAlarm("TimeAlarm", from)
             \/ Refuse("TimeAlarm", from)
       \/ /\ at \in SwapTasks
          /\ SwapCall("TimeAlarm", from, CallTo("TimeAlarm"), packets)
       \/ /\ at \in FinalStates \cup {"PaidActive"}
          /\ IgnoreMsg("TimeAlarm", from)

\* on_price_alarm
PriceAlarm(from) ==
    /\ Opened
    /\ \/ /\ at = "OpenedActive"
          /\ \/ from = Oracle /\ TryOnAlarm("PriceAlarm", from)
             \/ Refuse("PriceAlarm", from)
       \/ at # "OpenedActive" /\ IgnoreMsg("PriceAlarm", from)

\* Only the contract itself calls back, in the transaction of an answer
DexCallback(from) ==
    /\ Opened
    /\ \E msg \in {"DexCallback", "DexCallbackContinue"} : Refuse(msg, from)

\* Active::heal: a balance of the lease is a repayment
ActiveHeal == at = "OpenedActive" /\ \E next \in RepayFinish : Go(next, packets)

\* Closed::heal and Liquidated::heal pay out what has come since
ClosedHeal == at = "Closed" /\ UNCHANGED <<at, swap, packets, notified>>

LiquidatedHeal == at = "Liquidated" /\ UNCHANGED <<at, swap, packets, notified>>

Heal(from) ==
    /\ Opened
    /\ \/ /\ ActiveHeal \/ ClosedHeal \/ LiquidatedHeal
          /\ Outcome("Heal", from, "Ok")
       \/ /\ at \in SwapTasks
          /\ SwapCall("Heal", from, CallTo("Heal"), packets)
       \/ at \notin SwapTasks /\ Refuse("Heal", from)

\* process_execute
Execute(from) ==
    \/ Repay(from)
    \/ ChangeClosePolicy(from)
    \/ ClosePosition(from)
    \/ Close(from)
    \/ TimeAlarm(from)
    \/ PriceAlarm(from)
    \/ DexCallback(from)
    \/ Heal(from)

----------------------------------------------------------------------------
(* SudoMsg *)

(***************************************************************************)
(* process_sudo.  The network answers a packet once; whichever answer that *)
(* is, a state that does not expect it refuses it, and so does a retry     *)
(* that cannot be sent.  An answer that is expected is kept in any case.   *)
(***************************************************************************)
Sudo(msg) ==
    LET outcomes == IF at \in SwapTasks THEN AnswerTo(msg) ELSE {}
        kept     == outcomes # {} /\ msg \in {"OpenAck", "Response"}
    IN  /\ packets > 0
        /\ \/ /\ \E next \in outcomes : Advance(next, packets - 1)
              /\ Outcome(msg, Network, "Ok")
           \/ /\ ~kept
              /\ packets' = packets - 1
              /\ Outcome(msg, Network, "Refused")
              /\ UNCHANGED <<at, swap, notified>>

Answers == {"OpenAck", "Response", "Error", "Timeout"}

----------------------------------------------------------------------------
(* QueryMsg::State *)

\* The code stops at `unreachable!`
Unreachable == "Unreachable"

\* opening::OngoingTrx, by ContractInSwap of OpenIcaAccount and of BuyAsset
OpeningTrx(name) ==
    CASE name = "OpenIca"     -> "OpenIcaAccount"
      [] name = "TransferOut" -> "TransferOut"
      [] name = "SwapExactIn" -> "BuyAsset"

\* RepayTrx, by InProgressTrx of BuyLpn
RepayTrx(name) == name

\* PositionCloseTrx, by InProgressTrx of SellAsset
PositionCloseTrx(name) == IF name = "TransferOut" THEN Unreachable ELSE name

\* ClosingTrx, by InProgressTrx of TransferIn
ClosingTrx(name) ==
    IF name \in {"TransferOut", "SwapExactIn"} THEN Unreachable ELSE name

\* StateResponse and what it tells to be in progress
StateResponse ==
    CASE at = "Init" ->
             [state |-> "None", in_progress |-> "None"]
      [] at = "BuyAsset" ->
             [state |-> "Opening", in_progress |-> OpeningTrx(swap.in)]
      [] at = "OpenedActive" ->
             [state |-> "Opened", in_progress |-> "None"]
      [] at = "BuyLpn" ->
             [state |-> "Opened", in_progress |-> RepayTrx(swap.in)]
      [] at \in SaleTasks ->
             [state |-> "Opened", in_progress |-> PositionCloseTrx(swap.in)]
      [] at = "PaidActive" ->
             [state |-> "Paid", in_progress |-> "None"]
      [] at = "ClosingTransferIn" ->
             [state |-> "Paid", in_progress |-> ClosingTrx(swap.in)]
      [] at \in FinalStates ->
             [state |-> at, in_progress |-> "None"]

----------------------------------------------------------------------------
Next ==
    \/ Instantiate
    \/ \E from \in Senders : Execute(from)
    \/ \E msg \in Answers : Sudo(msg)

Spec == Init /\ [][Next]_vars

----------------------------------------------------------------------------
(* Properties *)

Calls == {"None", "Instantiate", "Repay", "ChangeClosePolicy", "ClosePosition",
          "Close", "TimeAlarm", "PriceAlarm", "DexCallback",
          "DexCallbackContinue", "Heal"} \cup Answers

\* Types.  A lease has a swap of the right machine in the states of a swap
\* only, and an answer is stored only by a state that expects one.
TypeOK ==
    /\ at \in {"Init", "OpenedActive", "PaidActive"} \cup FinalStates
                  \cup SwapTasks
    /\ \/ at \notin SwapTasks /\ swap = NoSwap
       \/ /\ at \in RemoteOutTasks
          /\ swap \in [in : OutRemoteStates, resp : BOOLEAN]
       \/ /\ at \in LocalOutTasks
          /\ swap \in [in : OutLocalStates, resp : BOOLEAN]
          /\ swap.resp => swap.in # "TransferInFinish"
    /\ packets \in 0 .. MaxPackets
    /\ notified \in Nat
    /\ call \in [msg : Calls, from : Senders \cup {Network},
                 result : {"Ok", "Refused", "Ignored"}]

\* Whoever calls whatever, the contract is never stored in a state whose
\* query stops at `unreachable!` (InProgressTrx of SellAsset and TransferIn):
\* the tasks that share one enum of states keep to their parts of it.  And a
\* query tells of something in progress just while a swap is.
QueryAnswers ==
    /\ StateResponse.in_progress # Unreachable
    /\ StateResponse.in_progress = "None" <=> swap = NoSwap

\* On whichever way a lease ends, through whatever payments, sales, retries
\* and repeated deliveries, the leaser is told exactly once, with the step that
\* ends it.  The end and the message are apart in the code: each of the tasks
\* says for itself where it ends and whether it notifies.  Told earlier the
\* leaser would drop a lease that is still open, later or never it would keep
\* one that is not (`FinalizerRef::notify`).
LeaserNotifiedOnce == notified = IF at \in FinalStates THEN 1 ELSE 0

Lifecycle == INSTANCE LeaseLifecycle

\* Whatever the callers and the network do, the lease goes through its
\* states in the order module LeaseLifecycle promises.
LifecycleKept == Lifecycle!Spec

\* A stranger's call never begins anything of its own: it may repay, have
\* the lease account for what it has received, or have a swap retried, and a
\* call back of the contract to itself is not theirs to make
\* (access_control::check, TimeAlarmsRef::owned_by, OracleRef::owned_by).
StrangersOnlyRetry ==
    [][call'.from \in Strangers /\ call'.result = "Ok" =>
          \/ call'.msg = "Repay"
          \/ call'.msg = "Heal"
          \/ call'.msg = "TimeAlarm" /\ swap.in # "None"]_vars
=============================================================================
