------------------------------ MODULE Treasury ------------------------------
(***************************************************************************)
(* Contract treasury: at its time alarms it rewards the pools of all       *)
(* registered protocols for the time since the last dispatch, at a rate    *)
(* that depends on their total value locked.                               *)
(***************************************************************************)
EXTENDS Interest, Versioning, FiniteSets, Functions, Sequences

CONSTANTS
    SCALE_FACTOR,   \* of a total value locked, to a coin
    Cadences,       \* the cadences that treasury is configured with
    RewardScales    \* the vectors of bars that it is configured with

ASSUME TreasuryAssumption ==
    /\ SCALE_FACTOR \in Nat \ {0}
    /\ Cadences \subseteq Nat
    /\ RewardScales \subseteq Seq([tvl : Nat, apr : Nat])

VARIABLES
    treasury_config,    \* Config: cadence_hours and tvl_to_apr
    last_dispatch,      \* DispatchLog
    treasury_alarm,     \* the alarm of treasury in timealarms, external
    treasury_nls        \* its balance in the bank, external

treasuryVars == <<treasury_config, last_dispatch, treasury_alarm, treasury_nls>>

TIMEALARMS == "timealarms"

\* No alarm is set
NoAlarm == -1

----------------------------------------------------------------------------
(* RewardScale *)

\* TotalValueLocked::as_coin
AsCoin(tvl) == tvl * SCALE_FACTOR

\* RewardScale::try_from a vector of bars: one is at zero, no two at the same
TryFromBars(bars) ==
    /\ \E i \in DOMAIN bars : bars[i].tvl = 0
    /\ \A i, j \in DOMAIN bars : bars[i].tvl = bars[j].tvl => i = j

\* Those of them that a total value reaches
BarsUpTo(bars, tvl_total) == {i \in DOMAIN bars : AsCoin(bars[i].tvl) <= tvl_total}

\* RewardScale::get_apr, of the last bar in the order of value
GetApr(bars, tvl_total) ==
    LET upTo == BarsUpTo(bars, tvl_total)
        last == CHOOSE i \in upTo : \A j \in upTo : bars[j].tvl <= bars[i].tvl
    IN  bars[last].apr

----------------------------------------------------------------------------
(* RewardCalculator over the pools: of each, whether it answers, its        *)
(* balance in stable and the price of NLS in stable                        *)

\* Pool::distribute_rewards, in NLS
PoolReward(pool, apr, period) ==
    Total(InterestOver(PercentOf(apr, pool.balance), period), Inv(pool.nls))

\* RewardCalculator::new
TotalValue(pools) == SumFunction([p \in DOMAIN pools |-> pools[p].balance])

AprOf(bars, pools) == GetApr(bars, TotalValue(pools))

\* RewardCalculator::distribute
Distribute(pools, apr, period) ==
    [p \in DOMAIN pools |-> PoolReward(pools[p], apr, period)]

\* What leaves the account along with DistributeRewards
Distributed(rewards) == SumFunction(rewards)

----------------------------------------------------------------------------
\* Config::new
TreasuryConfig(cadence, bars) == [cadence |-> cadence, tvl_to_apr |-> bars]

\* setup_alarm: an alarm replaces the one before it
SetupAlarm(cadence, now) == treasury_alarm' = now + cadence

\* The alarm is due
TreasuryDue(now) == treasury_alarm # NoAlarm /\ treasury_alarm <= now

\* mutant: the log is left as it is
UpdateLogNot(now) == now >= last_dispatch /\ UNCHANGED last_dispatch

\* DispatchLog::update
UpdateLog(now) == now >= last_dispatch /\ last_dispatch' = now

\* setup_dispatching, at the instantiation
TreasuryInit(now) ==
    /\ treasury_config \in {TreasuryConfig(cadence, bars) : cadence \in Cadences,
                            bars \in {b \in RewardScales : TryFromBars(b)}}
    /\ last_dispatch = now
    /\ treasury_alarm = now + treasury_config.cadence

\* try_build_reward: all registered pools and oracles answer
CanBuildReward(pools) == \A p \in DOMAIN pools : pools[p].answers

(***************************************************************************)
(* ExecuteMsg::TimeAlarm, try_dispatch.  Where one pool gives no balance,  *)
(* no price converts its reward, or the account is short of NLS, there is  *)
(* no reward for any, and timealarms tries again.                          *)
(***************************************************************************)
TryDispatch(sender, now, pools, rewards) ==
    /\ Check(TIMEALARMS, sender)
    /\ TreasuryDue(now)
    /\ SetupAlarm(treasury_config.cadence, now)
    /\ UpdateLog(now)
    /\ CanBuildReward(pools)
    /\ rewards = Distribute(pools, AprOf(treasury_config.tvl_to_apr, pools),
                            now - last_dispatch)
    /\ Distributed(rewards) <= treasury_nls
    /\ treasury_nls' = treasury_nls - Distributed(rewards)
    /\ UNCHANGED treasury_config

\* SudoMsg::Config: the alarm already set is left as it is
UpdateCadenceHours(cadence) ==
    /\ treasury_config' = [treasury_config EXCEPT !.cadence = cadence]
    /\ UNCHANGED <<last_dispatch, treasury_alarm, treasury_nls>>

\* SudoMsg::Rewards
UpdateTvlToApr(bars) ==
    /\ TryFromBars(bars)
    /\ treasury_config' = [treasury_config EXCEPT !.tvl_to_apr = bars]
    /\ UNCHANGED <<last_dispatch, treasury_alarm, treasury_nls>>
=============================================================================
