------------------------------- MODULE Profit -------------------------------
(***************************************************************************)
(* Contract profit: at its time alarms it swaps whatever else it has got   *)
(* for NLS, and sends the NLS over to treasury but for a reserve.          *)
(*                                                                         *)
(* The swap is the protocol of module Dex with a local output: it ends at  *)
(* a handler that meets an NLS balance of no less than the proceeds.  Each *)
(* packet on the way there carries tips to the relayers in NLS, which are  *)
(* taken from the same account as it is sent.  On its answer one of them   *)
(* is paid and the other one is given back.                                *)
(***************************************************************************)
EXTENDS Integers

CONSTANTS
    IBC_FEE_RESERVE,    \* in NLS
    ACK_TIP,            \* of a packet: paid if it is acknowledged
    TIMEOUT_TIP,        \* paid if it times out
    ProfitCadences      \* the cadences that profit is configured with

ASSUME ProfitAssumption ==
    /\ IBC_FEE_RESERVE \in Nat
    /\ ACK_TIP \in Nat
    /\ TIMEOUT_TIP \in Nat
    /\ ProfitCadences \subseteq Nat

VARIABLES
    profit_state,   \* State: OpenIca, Idle and BuyBack
    profit_config,  \* Config: cadence_hours
    profit_alarm,   \* the alarm of profit in timealarms, external
    profit_nls,     \* its balances in the bank, external: NLS, and the rest
    profit_rest,
    proceeds,       \* of the swap under way: the NLS due, and on the way
    locked,         \* the tips of the packets on the way, external
    tipped          \* history: the tips that relayers have got

tips == <<locked, tipped>>
profitVars == <<profit_state, profit_config, profit_alarm, profit_nls,
                profit_rest, proceeds, tips>>

NoProfitAlarm == -1

NoProceeds == [due |-> 0, coming |-> 0]

\* profit::Config::new
ProfitConfig(cadence) == cadence

\* Idle::setup_time_alarm: an alarm replaces the one before it
SetupTimeAlarm(cadence, now) == now + cadence

\* State::start at the instantiation: OpenIca, and no alarm
ProfitInit ==
    /\ profit_state = "OpenIca"
    /\ profit_config \in {ProfitConfig(cadence) : cadence \in ProfitCadences}
    /\ profit_alarm = NoProfitAlarm
    /\ profit_nls = 0
    /\ profit_rest = 0
    /\ proceeds = NoProceeds
    /\ locked = 0
    /\ tipped = 0

\* Enterable for Idle
EnterIdle(now) ==
    /\ profit_state' = "Idle"
    /\ profit_alarm' = SetupTimeAlarm(profit_config, now)

\* Profit::transfer_nls: what is sent to treasury of a balance
TransferNls(nls) == IF nls > IBC_FEE_RESERVE THEN nls - IBC_FEE_RESERVE ELSE 0

\* OpenIca::connected on State::on_open_ica
OnOpenIca(now) ==
    /\ profit_state = "OpenIca"
    /\ EnterIdle(now)
    /\ UNCHANGED <<profit_config, profit_nls, profit_rest, proceeds, tips>>

\* The fee of a packet: IbcFee of a transfer out, of a swap and of a transfer in
IbcFee == ACK_TIP + TIMEOUT_TIP

(***************************************************************************)
(* A packet is sent, and its fee is locked.  A contract that is short of   *)
(* it fails, and all of its transaction with it.                           *)
(***************************************************************************)
SubmitPacket ==
    /\ profit_nls >= IbcFee
    /\ profit_nls' = profit_nls - IbcFee
    /\ locked' = locked + IbcFee
    /\ UNCHANGED tipped

\* A packet is acknowledged or it times out: the fee module of the network
PacketAnswered(tip) ==
    /\ tip \in {ACK_TIP, TIMEOUT_TIP}
    /\ locked >= IbcFee
    /\ locked' = locked - IbcFee
    /\ tipped' = tipped + tip
    /\ profit_nls' = profit_nls + (IbcFee - tip)
    /\ UNCHANGED <<profit_state, profit_config, profit_alarm, profit_rest, proceeds>>

ProfitDue(now) == profit_alarm # NoProfitAlarm /\ profit_alarm <= now

\* SplitCoins over the balances: there is nothing but NLS
OnlyNls == profit_rest = 0

\* Idle::send_nls, on ExecuteMsg::TimeAlarm
SendNls(now, sent) ==
    /\ profit_state = "Idle"
    /\ ProfitDue(now)
    /\ OnlyNls
    /\ EnterIdle(now)
    /\ sent = TransferNls(profit_nls)
    /\ profit_nls' = profit_nls - sent
    /\ UNCHANGED <<profit_config, profit_rest, proceeds, tips>>

\* Idle::try_enter_buy_back, on ExecuteMsg::TimeAlarm: the rest of coins leave,
\* the first of them with this packet
TryEnterBuyBack(now) ==
    /\ profit_state = "Idle"
    /\ ProfitDue(now)
    /\ ~OnlyNls
    /\ profit_state' = "BuyBack"
    /\ profit_alarm' = NoProfitAlarm
    /\ profit_rest' = 0
    /\ SubmitPacket
    /\ UNCHANGED <<profit_config, proceeds>>

(***************************************************************************)
(* Another packet of the buy-back: the transfer out of the next coin, the  *)
(* swap, or once more the one that timed out, failed or was healed; dex.   *)
(***************************************************************************)
NextPacket ==
    /\ profit_state = "BuyBack"
    /\ SubmitPacket
    /\ UNCHANGED <<profit_state, profit_config, profit_alarm, profit_rest, proceeds>>

\* The coins got swapped and the proceeds are sent back: dex
SwappedBack(amount) ==
    /\ profit_state = "BuyBack"
    /\ proceeds = NoProceeds
    /\ proceeds' = [due |-> amount, coming |-> amount]
    /\ SubmitPacket
    /\ UNCHANGED <<profit_state, profit_config, profit_alarm, profit_rest>>

\* They arrive, be profit still waiting for them or not
ProceedsArrive ==
    /\ proceeds.coming > 0
    /\ profit_nls' = profit_nls + proceeds.coming
    /\ proceeds' = [proceeds EXCEPT !.coming = 0]
    /\ UNCHANGED <<profit_state, profit_config, profit_alarm, profit_rest, tips>>

\* mutant: the proceeds are sent on, wherever they are
FinishBuyBackWithProceeds(now, sent) ==
    /\ profit_state = "BuyBack"
    /\ proceeds.due > 0
    /\ profit_nls >= proceeds.due
    /\ EnterIdle(now)
    /\ sent = TransferNls(profit_nls) + proceeds.coming
    /\ profit_nls' = profit_nls - TransferNls(profit_nls)
    /\ proceeds' = [proceeds EXCEPT !.due = 0]
    /\ UNCHANGED <<profit_config, profit_rest, tips>>

(***************************************************************************)
(* BuyBack::finish, on a handler of dex that finds the NLS due in the      *)
(* account, that which had been there before included.                     *)
(***************************************************************************)
FinishBuyBack(now, sent) ==
    /\ profit_state = "BuyBack"
    /\ proceeds.due > 0
    /\ profit_nls >= proceeds.due
    /\ EnterIdle(now)
    /\ sent = TransferNls(profit_nls)
    /\ profit_nls' = profit_nls - sent
    /\ proceeds' = [proceeds EXCEPT !.due = 0]
    /\ UNCHANGED <<profit_config, profit_rest, tips>>

\* ExecuteMsg::Config by the owner, supported in Idle only
TryUpdateConfig(now, cadence) ==
    /\ profit_state = "Idle"
    /\ profit_config' = ProfitConfig(cadence)
    /\ profit_alarm' = SetupTimeAlarm(cadence, now)
    /\ UNCHANGED <<profit_state, profit_nls, profit_rest, proceeds, tips>>

\* Leases send the margin interest and others send anything, external
Earn(nls, rest) ==
    /\ profit_nls' = profit_nls + nls
    /\ profit_rest' = profit_rest + rest
    /\ UNCHANGED <<profit_state, profit_config, profit_alarm, proceeds, tips>>
=============================================================================
