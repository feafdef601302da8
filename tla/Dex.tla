-------------------------------- MODULE Dex --------------------------------
(***************************************************************************)
(* The swap protocol of protocol/packages/dex that leases and the profit   *)
(* contract run with their interchain account (ICA) on a DEX network:      *)
(* transfer the coins out, swap them, transfer the proceeds in.            *)
(*                                                                         *)
(* A contract handles one message at a time and an error reverts it, so an *)
(* unsupported operation changes nothing in the contract.  The networks,   *)
(* the relayers and the DEX are external: a packet may be executed,        *)
(* rejected or expire, and its answer may come at any time after that.     *)
(* Every deadline is some instant plus IBC_TIMEOUT, so each is kept as the *)
(* time left until it.                                                     *)
(***************************************************************************)
EXTENDS Integers, Sequences, FiniteSets, Functions

CONSTANTS
    Currencies,     \* of the coins in and out
    Out,            \* SwapTask::out_currency
    Tasks,          \* swap tasks: a route and its coins
    Held,           \* what the ICA holds besides the coins of the task
    SwapOuts,       \* what a swap may yield
    Gifts,          \* what the account has, or gets, of the out currency besides
    IBC_TIMEOUT,    \* in the model's units of time
    MaxPackets,     \* bound: packets in flight
    MaxGiven        \* bound: what gets to the account besides the proceeds

Routes == {"LocalLocal", "RemoteLocal", "LocalRemote", "TransferIn"}

Coin == [cur : Currencies, amount : Nat \ {0}]

ASSUME DexAssumption ==
    /\ Out \in Currencies
    /\ Tasks \subseteq [route : Routes, coins : Seq(Coin)]
    /\ \A t \in Tasks : t.coins # << >>
    /\ \A t \in Tasks : t.route = "TransferIn" =>
          Len(t.coins) = 1 /\ t.coins[1].cur = Out
    /\ Held \in [Currencies -> Nat]
    /\ SwapOuts \subseteq Nat \ {0}
    /\ IBC_TIMEOUT \in Nat \ {0}
    /\ Gifts \subseteq Nat
    /\ MaxPackets \in Nat \ {0} /\ MaxGiven \in Nat

VARIABLES
    state,      \* the stored state of the contract
    task,       \* SwapTask, the `spec` each state carries along
    local,      \* the contract's bank account, per currency
    dex,        \* the ICA's bank account on the DEX network
    packets,    \* IBC packets whose answer has not been processed yet
    alarm,      \* whether a time alarm is set for the contract
    swapped,    \* history: what each executed swap yielded
    given,      \* history: what the account has got of Out besides the proceeds
    early       \* history: whether Heal was called with an answer on its way

vars == <<state, task, local, dex, packets, alarm, swapped, given, early>>

-----------------------------------------------------------------------------
(* Coins of a task *)

\* what each coin is of a currency
AmountsIn(coins, cur) ==
    [i \in DOMAIN coins |-> IF coins[i].cur = cur THEN coins[i].amount ELSE 0]

AmountOf(coins, cur) == SumFunction(AmountsIn(coins, cur))

\* what CurrencyFilter does not let through to the swap, summed up
Filtered(coins) == AmountOf(coins, Out)

\* what one swap transaction takes off the ICA
SwapInput(cur) == IF cur = Out THEN 0 ELSE AmountOf(task.coins, cur)

-----------------------------------------------------------------------------
(* States.  A response that is still to be delivered turns a state X into   *)
(* XRespDelivery: resp is then the stored response.                         *)

NoResponse == << >>

At(name) == [at |-> name, coin_index |-> 0, amount |-> 0, left |-> 0,
             resp |-> NoResponse]

Delivering == state.resp # NoResponse

\* the packets the contract gets an answer to; a transfer back has none
Own == {p \in packets : p.kind # "back"}

\* the least one not in use
FreeId(pending) ==
    LET free == {i \in 1..MaxPackets : \A p \in pending : p.id # i}
    IN  CHOOSE i \in free : \A j \in free : i <= j

HasRoom(pending) == Cardinality(pending) < MaxPackets

NewPacket(pending, kind, coin, left) ==
    [id |-> FreeId(pending), kind |-> kind, coin |-> coin, left |-> left,
     status |-> "sent", result |-> 0]

NoCoin == [cur |-> Out, amount |-> 0]

(***************************************************************************)
(* What a handler leaves behind besides the contract's state: the packets  *)
(* without the one just answered, the balances with its refund, and the    *)
(* time alarm unless it was the one that fired.                            *)
(***************************************************************************)
Rest(pending, balances, pendingAlarm) ==
    [packets |-> pending, local |-> balances, alarm |-> pendingAlarm]

Go(next, rest) ==
    /\ state' = next
    /\ packets' = rest.packets
    /\ local' = rest.local
    /\ alarm' = rest.alarm

\* entering a state sends its packet
Enter(next, kind, coin, rest) ==
    /\ HasRoom(rest.packets)
    /\ Go(next, [rest EXCEPT !.packets = @ \cup
                    {NewPacket(rest.packets, kind, coin, IBC_TIMEOUT)}])

\* IcaConnector::enter
EnterOpenIca(rest) == Enter(At("OpenIca"), "open", NoCoin, rest)

\* TransferOut::enter_state, the coin leaves the account with the message
EnterTransferOut(i, rest) ==
    LET coin == task.coins[i]
    IN  /\ rest.local[coin.cur] >= coin.amount
        /\ Enter([At("TransferOut") EXCEPT !.coin_index = i], "out", coin,
                 [rest EXCEPT !.local[coin.cur] = @ - coin.amount])

\* SwapExactIn::enter_state, all swaps in one ICA transaction
EnterSwapExactIn(rest) == Enter(At("SwapExactIn"), "swap", NoCoin, rest)

\* TransferInInit::enter_state, an ICA transaction that transfers back
EnterTransferInInit(amount, rest) ==
    Enter([At("TransferInInit") EXCEPT !.amount = amount], "in",
          [cur |-> Out, amount |-> amount], rest)

\* SwapTask::finish takes over
Finish(amount, rest) == Go([At("Finished") EXCEPT !.amount = amount], rest)

\* mutant: the transfer is repeated at once instead of being awaited
TryCompleteImpatient(amount, left, rest) ==
    \/ rest.local[Out] >= amount /\ Finish(amount, rest)
    \/ rest.local[Out] < amount /\ EnterTransferInInit(amount, rest)

(***************************************************************************)
(* TransferInFinish::try_complete: finish once the amount is there; if the *)
(* time is out, transfer again; otherwise poll at the next time alarm.     *)
(***************************************************************************)
TryComplete(amount, left, rest) ==
    \/ rest.local[Out] >= amount /\ Finish(amount, rest)
    \/ /\ rest.local[Out] < amount /\ left = 0
       /\ EnterTransferInInit(amount, rest)
    \/ /\ rest.local[Out] < amount /\ left > 0
       /\ Go([At("TransferInFinish") EXCEPT !.amount = amount, !.left = left],
             [rest EXCEPT !.alarm = TRUE])

\* TransferOut::on_response
OnTransferredOut(rest) ==
    IF state.coin_index = Len(task.coins)
    THEN EnterSwapExactIn(rest)
    ELSE EnterTransferOut(state.coin_index + 1, rest)

\* SwapExactIn::on_response; decode_response adds up what each coin brought
OnSwapped(response, rest) ==
    LET amount_out == Filtered(task.coins) + response
    IN  IF task.route = "LocalRemote" THEN Finish(amount_out, rest)
        ELSE EnterTransferInInit(amount_out, rest)

(***************************************************************************)
(* Handler::on_response and on_open_ica of the state.  Only the swap looks *)
(* into the response.                                                      *)
(***************************************************************************)
OnResponse(response, rest) ==
    \/ state.at = "OpenIca" /\ EnterTransferOut(1, rest)
    \/ state.at = "TransferOut" /\ OnTransferredOut(rest)
    \/ state.at = "SwapExactIn" /\ OnSwapped(response, rest)
    \/ state.at = "TransferInInit" /\ TryComplete(state.amount, IBC_TIMEOUT, rest)

\* re-entering the current state, timeout::on_timeout_retry
Reenter(rest) ==
    \/ state.at = "TransferOut" /\ EnterTransferOut(state.coin_index, rest)
    \/ state.at = "SwapExactIn" /\ EnterSwapExactIn(rest)
    \/ state.at = "TransferInInit" /\ EnterTransferInInit(state.amount, rest)

\* the states with an on_response and an on_timeout
Awaiting == {"TransferOut", "SwapExactIn", "TransferInInit"}

-----------------------------------------------------------------------------
\* what the account has besides the coins of the task and the proceeds
Given(c) == IF c = Out THEN given ELSE 0

(***************************************************************************)
(* The account need not be empty, as that of a profit is not, and anybody  *)
(* may send coins to it.                                                   *)
(***************************************************************************)
Init ==
    /\ task \in Tasks
    /\ given \in Gifts /\ given <= MaxGiven
    /\ local = [c \in Currencies |->
                  Given(c) + IF task.route \in {"LocalLocal", "LocalRemote"}
                             THEN AmountOf(task.coins, c) ELSE 0]
    /\ dex = [c \in Currencies |->
                  Held[c] + IF task.route \in {"RemoteLocal", "TransferIn"}
                            THEN AmountOf(task.coins, c) ELSE 0]
    /\ state = At("Idle")
    /\ packets = {}
    /\ alarm = FALSE
    /\ swapped = << >>
    /\ early = FALSE

\* start_local_local, start_remote_local, start_local_remote, StartTransferInState
Start ==
    /\ state.at = "Idle"
    /\ LET rest == Rest(packets, local, alarm)
       IN  \/ task.route = "LocalLocal" /\ EnterTransferOut(1, rest)
           \/ task.route = "RemoteLocal" /\ EnterSwapExactIn(rest)
           \/ task.route = "LocalRemote" /\ EnterOpenIca(rest)
           \/ /\ task.route = "TransferIn"
              /\ EnterTransferInInit(task.coins[1].amount, rest)
    /\ UNCHANGED <<task, dex, swapped, given, early>>

\* packets with a deadline whose answer the contract gets
ICAOrTransfer == {"out", "swap", "in"}

\* an answer to a transfer out that failed comes with the coin refunded
Refunded(p) ==
    Rest(packets \ {p},
         IF p.kind = "out" THEN [local EXCEPT ![p.coin.cur] = @ + p.coin.amount]
         ELSE local,
         alarm)

\* mutant: an error while delivering is dropped together with the response
ResponseDropped(p) ==
    LET rest == Rest(packets \ {p}, local, alarm)
    IN  /\ p \in packets /\ p.status = "acked"
        /\ \/ ~Delivering /\ OnResponse(p.result, rest)
           \/ Go(state, rest)
        /\ UNCHANGED <<task, dex, swapped, given, early>>

(***************************************************************************)
(* SudoMsg::Response and SudoMsg::OpenAck.  forward_to_inner stores the    *)
(* response and delivers it in a sub-message; if that fails, `reply` sets  *)
(* a time alarm and the response stays stored.                             *)
(***************************************************************************)
Response(p) ==
    LET rest == Rest(packets \ {p}, local, alarm)
        supported == /\ ~Delivering
                     /\ IF p.kind = "open" THEN state.at = "OpenIca"
                        ELSE state.at \in Awaiting
    IN  /\ p \in packets /\ p.status = "acked"
        /\ \/ supported /\ OnResponse(p.result, rest)
           \/ /\ supported
              /\ Go([state EXCEPT !.resp = <<p.result>>],
                    [rest EXCEPT !.alarm = TRUE])
           \/ ~supported /\ Go(state, rest)
        /\ UNCHANGED <<task, dex, swapped, given, early>>

\* mutant: a coin that timed out is skipped
TimeoutSkips(p) ==
    /\ p \in packets /\ p.kind \in ICAOrTransfer
    /\ p.status = "sent" /\ p.left = 0
    /\ OnResponse(p.result, Refunded(p))
    /\ UNCHANGED <<task, dex, swapped, given, early>>

\* SudoMsg::Timeout
Timeout(p) ==
    LET supported == ~Delivering /\ state.at \in Awaiting
    IN  /\ p \in packets /\ p.kind \in ICAOrTransfer
        /\ p.status = "sent" /\ p.left = 0
        /\ \/ supported /\ Reenter(Refunded(p))
           \/ ~supported /\ Go(state, Refunded(p))
        /\ UNCHANGED <<task, dex, swapped, given, early>>

\* SudoMsg::Error; only TransferOut recovers by itself
Error(p) ==
    LET supported == ~Delivering /\ state.at = "TransferOut"
    IN  /\ p \in packets /\ p.status = "failed"
        /\ \/ supported /\ Reenter(Refunded(p))
           \/ ~supported /\ Go(state, Refunded(p))
        /\ UNCHANGED <<task, dex, swapped, given, early>>

\* mutant: the response is not delivered again, its operation is repeated
TimeAlarmRepeats ==
    LET rest == Rest(packets, local, FALSE)
    IN  /\ alarm
        /\ \/ Delivering /\ Reenter(rest)
           \/ /\ ~Delivering /\ state.at = "TransferInFinish"
              /\ TryComplete(state.amount, state.left, rest)
        /\ UNCHANGED <<task, dex, swapped, given, early>>

\* mutant: a time alarm repeats the operation in any other state
TimeAlarmReenters ==
    LET rest == Rest(packets, local, FALSE)
    IN  /\ alarm
        /\ \/ Delivering /\ OnResponse(state.resp[1], rest)
           \/ /\ ~Delivering /\ state.at = "TransferInFinish"
              /\ TryComplete(state.amount, state.left, rest)
           \/ ~Delivering /\ Reenter(rest)
        /\ UNCHANGED <<task, dex, swapped, given, early>>

(***************************************************************************)
(* ExecuteMsg::TimeAlarm.  An error reverts it and the alarm stays due, so *)
(* a delivery that fails again is no step.                                 *)
(***************************************************************************)
TimeAlarm ==
    LET rest == Rest(packets, local, FALSE)
    IN  /\ alarm
        /\ \/ Delivering /\ OnResponse(state.resp[1], rest)
           \/ /\ ~Delivering /\ state.at = "TransferInFinish"
              /\ TryComplete(state.amount, state.left, rest)
        /\ UNCHANGED <<task, dex, swapped, given, early>>

(***************************************************************************)
(* ExecuteMsg::Heal, open to anybody at any time: past a failure, or early, *)
(* while an answer is on its way, which nothing in the state tells.        *)
(***************************************************************************)
Heal ==
    LET rest == Rest(packets, local, alarm)
    IN  /\ ~Delivering
        /\ \/ state.at = "SwapExactIn" /\ Reenter(rest)
           \/ /\ state.at = "TransferInInit"
              /\ TryComplete(state.amount, IBC_TIMEOUT, rest)
           \/ /\ state.at = "TransferInFinish"
              /\ TryComplete(state.amount, state.left, rest)
        /\ early' = (early \/ Own # {})
        /\ UNCHANGED <<task, dex, swapped, given>>

-----------------------------------------------------------------------------
(* The networks *)

Answered(p, status, result) ==
    (packets \ {p})
        \cup {[p EXCEPT !.status = status, !.result = result, !.left = 0]}

InTime(p) == p \in packets /\ p.status = "sent" /\ p.left > 0

\* an interchain account is registered, however long the handshake takes
ExecuteOpen(p) ==
    /\ p \in packets /\ p.kind = "open" /\ p.status = "sent"
    /\ packets' = Answered(p, "acked", 0)
    /\ UNCHANGED <<state, task, local, dex, alarm, swapped, given, early>>

ExecuteOut(p) ==
    /\ InTime(p) /\ p.kind = "out"
    /\ packets' = Answered(p, "acked", 0)
    /\ dex' = [dex EXCEPT ![p.coin.cur] = @ + p.coin.amount]
    /\ UNCHANGED <<state, task, local, alarm, swapped, given, early>>

ExecuteSwap(p, out) ==
    /\ InTime(p) /\ p.kind = "swap"
    /\ \A c \in Currencies : dex[c] >= SwapInput(c)
    /\ packets' = Answered(p, "acked", out)
    /\ dex' = [c \in Currencies |->
                 dex[c] - SwapInput(c) + IF c = Out THEN out ELSE 0]
    /\ swapped' = Append(swapped, out)
    /\ UNCHANGED <<state, task, local, alarm, given, early>>

\* the transfer back has the deadline set when the ICA transaction was built
ExecuteIn(p) ==
    /\ InTime(p) /\ p.kind = "in"
    /\ dex[Out] >= p.coin.amount
    /\ HasRoom(packets)
    /\ packets' = Answered(p, "acked", 0)
           \cup {NewPacket(packets, "back", p.coin, p.left)}
    /\ dex' = [dex EXCEPT ![Out] = @ - p.coin.amount]
    /\ UNCHANGED <<state, task, local, alarm, swapped, given, early>>

ReceiveBack(p) ==
    /\ InTime(p) /\ p.kind = "back"
    /\ packets' = packets \ {p}
    /\ local' = [local EXCEPT ![Out] = @ + p.coin.amount]
    /\ UNCHANGED <<state, task, dex, alarm, swapped, given, early>>

\* a transfer back that is rejected or not received in time is refunded
RefundBack(p) ==
    /\ p \in packets /\ p.kind = "back"
    /\ packets' = packets \ {p}
    /\ dex' = [dex EXCEPT ![Out] = @ + p.coin.amount]
    /\ UNCHANGED <<state, task, local, alarm, swapped, given, early>>

\* the remote network refuses to execute a packet
Reject(p) ==
    /\ InTime(p) /\ p.kind \in ICAOrTransfer
    /\ packets' = Answered(p, "failed", 0)
    /\ UNCHANGED <<state, task, local, dex, alarm, swapped, given, early>>

\* a bank transfer to the contract
Give(amount) ==
    /\ given + amount <= MaxGiven
    /\ given' = given + amount
    /\ local' = [local EXCEPT ![Out] = @ + amount]
    /\ UNCHANGED <<state, task, dex, packets, alarm, swapped, early>>

\* time passes by
Tick ==
    /\ \/ \E p \in packets : p.status = "sent" /\ p.left > 0
       \/ state.left > 0
    /\ packets' = {[p EXCEPT !.left = IF @ > 0 THEN @ - 1 ELSE 0] : p \in packets}
    /\ state' = [state EXCEPT !.left = IF @ > 0 THEN @ - 1 ELSE 0]
    /\ UNCHANGED <<task, local, dex, alarm, swapped, given, early>>

Execute(p) ==
    \/ ExecuteOpen(p) \/ ExecuteOut(p) \/ ExecuteIn(p) \/ ReceiveBack(p)
    \/ \E out \in SwapOuts : ExecuteSwap(p, out)

Answer(p) == Response(p) \/ Timeout(p) \/ Error(p)

Next ==
    \/ Start \/ TimeAlarm \/ Heal \/ Tick \/ \E amount \in Gifts : Give(amount)
    \/ \E p \in packets : Answer(p) \/ Execute(p) \/ Reject(p) \/ RefundBack(p)

Spec == Init /\ [][Next]_vars

(***************************************************************************)
(* The relayers hand over every answer and refund, the time alarms are     *)
(* dispatched, somebody heals a contract that waits for nothing, and an    *)
(* operation that is tried over and over again gets through once.          *)
(***************************************************************************)
Kinds == {"open", "out", "swap", "in", "back"}

Fairness ==
    /\ WF_vars(Start) /\ WF_vars(TimeAlarm) /\ WF_vars(Tick)
    /\ WF_vars(Own = {} /\ Heal)
    /\ \A id \in 1..MaxPackets :
          WF_vars(\E p \in packets : p.id = id /\ Answer(p))
    /\ WF_vars(\E p \in packets : p.left = 0 /\ RefundBack(p))
    /\ \A kind \in Kinds : SF_vars(\E p \in packets : p.kind = kind /\ Execute(p))

FairSpec == Spec /\ Fairness
-----------------------------------------------------------------------------
(* Correctness properties *)

States == {"Idle", "OpenIca", "TransferInFinish", "Finished"} \cup Awaiting

StateType == [at : States, coin_index : Nat, amount : Nat, left : 0..IBC_TIMEOUT,
              resp : Seq(Nat)]

PacketType == [id : 1..MaxPackets, kind : Kinds,
               coin : [cur : Currencies, amount : Nat], left : 0..IBC_TIMEOUT,
               status : {"sent", "acked", "failed"}, result : Nat]

(***************************************************************************)
(* Type invariant.  Balances are naturals: no transfer and no swap takes   *)
(* more than the account it is made from holds.                            *)
(***************************************************************************)
TypeOK ==
    /\ state \in StateType
    /\ task \in Tasks
    /\ local \in [Currencies -> Nat] /\ dex \in [Currencies -> Nat]
    /\ packets \subseteq PacketType
    /\ alarm \in BOOLEAN
    /\ swapped \in Seq(SwapOuts)
    /\ given \in Nat
    /\ early \in BOOLEAN

Sender(p) ==
    CASE p.kind = "open" -> At("OpenIca")
      [] p.kind = "out"  -> [At("TransferOut") EXCEPT !.coin_index = state.coin_index]
      [] p.kind = "swap" -> At("SwapExactIn")
      [] p.kind = "in"   -> [At("TransferInInit") EXCEPT !.amount = p.coin.amount]

(***************************************************************************)
(* Unless Heal comes early, the answer to a packet meets the state that    *)
(* sent it, with no other answer being delivered: none is ever refused or  *)
(* taken for another one's, as on_response and on_timeout do not tell      *)
(* whose answer they get.                                                  *)
(***************************************************************************)
AnswersMeetTheirSender ==
    ~early => \A p \in Own :
        /\ Own = {p}
        /\ state = Sender(p)
        /\ p.kind = "out" => p.coin = task.coins[state.coin_index]

(***************************************************************************)
(* Retries, redeliveries and healing "past a middleware failure", as the   *)
(* lease's api has it, never repeat a swap that was executed.              *)
(***************************************************************************)
SwappedOnce == ~early => Len(swapped) <= 1

(***************************************************************************)
(* Until it is executed, a swap finds all the coins of the task on the     *)
(* DEX: no coin was skipped, transferred twice, or is still on its way,    *)
(* whenever Heal comes.                                                    *)
(***************************************************************************)
CoinsReachTheDex ==
    state.at = "SwapExactIn" /\ swapped = << >> =>
        \A c \in Currencies :
            /\ local[c] = Given(c)
            /\ dex[c] = Held[c] + AmountOf(task.coins, c)

Proceeds ==
    IF task.route = "TransferIn" THEN task.coins[1].amount
    ELSE Filtered(task.coins) + swapped[1]

\* the transfers back, received or refunded without the contract being told
Back == {p \in packets : p.kind = "back"}

\* what returns to the ICA should none of them be received
Refunds == SumFunction([p \in Back |-> p.coin.amount])

(***************************************************************************)
(* Unless Heal comes early, the task finishes with exactly what the swap   *)
(* yielded, and at least that is on the account it is spent from; nothing  *)
(* is lost or transferred twice.  As check_received only compares the      *)
(* balance, others' coins may be taken for the proceeds, which are then    *)
(* still on their way, or with the ICA: only if they suffice alone.  Less  *)
(* than that never finishes a task ahead of its proceeds.                  *)
(***************************************************************************)
FinishedWithProceeds ==
    state.at = "Finished" /\ ~early =>
        LET remote == task.route = "LocalRemote"
        IN  /\ state.amount = Proceeds
            /\ IF remote THEN local[Out] = given ELSE local[Out] >= Proceeds
            /\ local[Out] + dex[Out] + Refunds = given + Held[Out] + Proceeds
            /\ remote \/ given < Proceeds => \A p \in packets : ~InTime(p)
            /\ ~remote /\ given < Proceeds => local[Out] = given + Proceeds

(***************************************************************************)
(* Whatever is lost, refused or late, a task that started finishes, if not *)
(* healed early.                                                           *)
(***************************************************************************)
EventuallyFinished == state.at # "Idle" ~> state.at = "Finished" \/ early

-----------------------------------------------------------------------------
(* The inductive invariant: how far each state of the contract means that  *)
(* the coins have got                                                      *)

CoinsAt(indices, cur) == SumFunctionOnSet(AmountsIn(task.coins, cur), indices)

\* the coins of the task at some indices are on the DEX, at others still here
CoinsSplit(there, here) ==
    \A c \in Currencies : /\ dex[c] = Held[c] + CoinsAt(there, c)
                          /\ local[c] = Given(c) + CoinsAt(here, c)

AllCoins == DOMAIN task.coins

\* the operation of the state is done, and it is the contract's turn
Done == Delivering \/ \E p \in Own : p.status = "acked"

\* the contract waits for one answer at most, to a packet of this kind
Awaits(kind) ==
    /\ \A p \in Own : p.kind = kind /\ Own = {p}
    /\ Delivering => Own = {}

PacketsInv ==
    /\ IsFiniteSet(packets)
    /\ \A p, q \in packets : p.id = q.id => p = q

(***************************************************************************)
(* Up to the swap nothing may be healed, so this holds whenever Heal comes. *)
(***************************************************************************)
OutInv ==
    /\ state.at \in {"Idle", "OpenIca", "TransferOut"} =>
          ~early /\ swapped = << >> /\ Back = {} /\ state.amount = 0
    /\ state.at = "Idle" =>
          /\ state = At("Idle") /\ packets = {}
          /\ IF task.route \in {"LocalLocal", "LocalRemote"}
             THEN CoinsSplit({}, AllCoins) ELSE CoinsSplit(AllCoins, {})
    /\ state.at = "OpenIca" =>
          /\ task.route = "LocalRemote" /\ state.coin_index = 0
          /\ Awaits("open")
          /\ CoinsSplit({}, AllCoins)
    /\ state.at = "TransferOut" =>
          LET i == state.coin_index
          IN  /\ task.route \in {"LocalLocal", "LocalRemote"} /\ i \in AllCoins
              /\ Awaits("out") /\ \A p \in Own : p.coin = task.coins[i]
              /\ Own = {} => Delivering
              /\ CoinsSplit(IF Done THEN 1..i ELSE 1..(i - 1), (i + 1)..Len(task.coins))
    /\ state.at = "SwapExactIn" =>
          /\ task.route # "TransferIn" /\ state.coin_index = 0 /\ state.amount = 0
          /\ swapped = << >> =>
                /\ ~Done /\ \A p \in packets : p.kind = "swap"
                /\ CoinsSplit(AllCoins, {})
    /\ state.at # "TransferInFinish" => state.left = 0

\* the proceeds are here, and no transfer back can be received any more
Received ==
    /\ \A p \in Back : p.left = 0
    /\ local[Out] = given + Proceeds /\ dex[Out] + Refunds = Held[Out]

\* the proceeds are not here; one transfer back may be received, not later than that
Pending(left) ==
    /\ \A p \in Back : p.left <= left
    /\ \A p, q \in Back : p.left > 0 /\ q.left > 0 => p = q
    /\ local[Out] = given /\ dex[Out] + Refunds = Held[Out] + Proceeds

(***************************************************************************)
(* From the swap on, unless Heal came early.                               *)
(***************************************************************************)
InInv ==
    /\ state.at = "SwapExactIn" =>
          /\ Awaits("swap") /\ Back = {}
          /\ Len(swapped) <= 1
          /\ swapped # << >> =>
                /\ \/ Delivering /\ state.resp = swapped
                   \/ \E p \in Own : p.status = "acked" /\ swapped = <<p.result>>
                /\ local[Out] = given /\ dex[Out] = Held[Out] + Proceeds
    /\ state.at \in {"TransferInInit", "TransferInFinish", "Finished"} =>
          /\ state.amount = Proceeds /\ state.coin_index = 0
          /\ task.route = "LocalRemote" => state.at = "Finished"
          /\ Len(swapped) = IF task.route = "TransferIn" THEN 0 ELSE 1
          /\ \A p \in Back : /\ p.coin = [cur |-> Out, amount |-> Proceeds]
                            /\ p.status = "sent"
    /\ state.at = "TransferInInit" =>
          /\ Awaits("in") /\ \A p \in Own : p.coin = [cur |-> Out, amount |-> Proceeds]
          /\ IF Done THEN Received \/ Pending(IBC_TIMEOUT) ELSE Pending(0)
    /\ state.at = "TransferInFinish" =>
          /\ Own = {} /\ ~Delivering
          /\ Received \/ Pending(state.left)
    /\ state.at = "Finished" =>
          /\ Own = {} /\ ~Delivering
          /\ IF task.route = "LocalRemote"
             THEN Back = {} /\ Pending(0)
             ELSE Received \/ (Pending(IBC_TIMEOUT) /\ given >= Proceeds)

DexInv == TypeOK /\ PacketsInv /\ OutInv /\ (~early => InInv)
=============================================================================
