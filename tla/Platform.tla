------------------------------ MODULE Platform ------------------------------
(***************************************************************************)
(* The contracts of the platform at work together: admin with its registry *)
(* of protocols, treasury that rewards the pools of those, and the profit  *)
(* contract of a protocol that feeds treasury with NLS.                    *)
(***************************************************************************)
EXTENDS Admin, Treasury, Profit

CONSTANTS
    Pools,      \* of each protocol: what its pool and oracle may answer to treasury
    Earnings,   \* of profit: NLS, and the rest
    Yields,     \* of its buy-backs, in NLS
    MaxTime,    \* bound on the time
    MaxTransactions,    \* bound on those with admin
    MaxEarned   \* bound on what profit earns

\* What a pool and its oracle may answer: the balance in stable, and the price
\* of NLS in stable
PoolType == [answers : BOOLEAN, balance : Nat,
             nls : [amount : Nat \ {0}, quote : Nat \ {0}]]

ASSUME PlatformAssumption ==
    /\ DOMAIN Pools = Names
    /\ \A n \in Names : Pools[n] \subseteq PoolType
    /\ Earnings \subseteq [nls : Nat, rest : Nat]
    /\ Yields \subseteq Nat \ {0}
    /\ MaxEarned \in Nat

VARIABLES
    now,        \* the time of the block
    pool,       \* of each protocol: the answers to treasury
    rewarded,   \* history: the NLS that each pool has been rewarded with
    span,       \* history: the time that each pool has been rewarded for
    present,    \* history: the time that each pool has been registered for
    earned,     \* history: the NLS that profit has got, of any origin
    transactions    \* history: the number of those with admin

platformVars == <<now, pool, rewarded, span, present, earned, transactions>>
vars == <<adminVars, treasuryVars, profitVars, platformVars>>

START == 1

Init ==
    /\ AdminInit
    /\ TreasuryInit(START)
    /\ treasury_nls = 0
    /\ ProfitInit
    /\ now = START
    /\ pool \in {p \in [Names -> UNION Range(Pools)] : \A n \in Names : p[n] \in Pools[n]}
    /\ rewarded = [n \in Names |-> 0]
    /\ span = [n \in Names |-> 0]
    /\ present = [n \in Names |-> 0]
    /\ earned = 0
    /\ transactions = 0

\* The contracts of a registered protocol answer unless they are void
Answers(n) ==
    code[protocols[n]["lpp"]] # VoidCode /\ code[protocols[n]["oracle"]] # VoidCode

\* treasury::contract::protocols, and PoolImpl::new for each
RegisteredPools ==
    [n \in DOMAIN protocols |->
        [pool[n] EXCEPT !.answers = @ /\ Answers(n)]]

Dispatch ==
    /\ Quiet
    /\ \E rewards \in {Distribute(RegisteredPools,
                                  AprOf(treasury_config.tvl_to_apr, RegisteredPools),
                                  now - last_dispatch)} :
         /\ TryDispatch(TIMEALARMS, now, RegisteredPools, rewards)
         /\ rewarded' = [n \in Names |-> rewarded[n] +
                            IF n \in DOMAIN protocols THEN rewards[n] ELSE 0]
         /\ span' = [n \in Names |-> span[n] +
                        IF n \in DOMAIN protocols THEN now - last_dispatch ELSE 0]
    /\ UNCHANGED <<adminVars, profitVars, now, pool, present, earned,
                   transactions>>

TreasurySudo ==
    /\ Quiet
    /\ \/ \E cadence \in Cadences : UpdateCadenceHours(cadence)
       \/ \E bars \in RewardScales : UpdateTvlToApr(bars)
    /\ UNCHANGED <<adminVars, profitVars, platformVars>>

\* NLS sent to treasury
Sends(Action(_)) ==
    \E sent \in 0 .. MaxEarned :
        /\ Action(sent)
        /\ treasury_nls' = treasury_nls + sent

ProfitSends ==
    /\ \/ Sends(LAMBDA sent : SendNls(now, sent))
       \/ Sends(LAMBDA sent : FinishBuyBack(now, sent))
    /\ UNCHANGED <<treasury_config, last_dispatch, treasury_alarm, earned>>

ProfitEarns ==
    /\ \E got \in Earnings :
         /\ earned + got.nls <= MaxEarned
         /\ profit_rest + got.rest <= 1
         /\ Earn(got.nls, got.rest)
         /\ earned' = earned + got.nls
    /\ UNCHANGED treasuryVars

ProfitSwaps ==
    /\ \E amount \in Yields :
         /\ earned + amount <= MaxEarned
         /\ SwappedBack(amount)
         /\ earned' = earned + amount
    /\ UNCHANGED treasuryVars

ProfitAlone ==
    /\ \/ OnOpenIca(now)
       \/ TryEnterBuyBack(now)
       \/ NextPacket
       \/ \E tip \in {ACK_TIP, TIMEOUT_TIP} : PacketAnswered(tip)
       \/ ProceedsArrive
       \/ \E cadence \in ProfitCadences : TryUpdateConfig(now, cadence)
    /\ UNCHANGED <<treasuryVars, earned>>

ProfitStep ==
    /\ Quiet
    /\ ProfitSends \/ ProfitEarns \/ ProfitSwaps \/ ProfitAlone
    /\ UNCHANGED <<adminVars, now, pool, rewarded, span,
                   present, transactions>>

AdminStep ==
    /\ AdminNext
    /\ transactions' = transactions + (IF Quiet THEN 1 ELSE 0)
    /\ transactions' <= MaxTransactions
    /\ present' = [n \in Names |-> IF n \in DOMAIN protocols' THEN present[n] ELSE 0]
    /\ UNCHANGED <<treasuryVars, profitVars, now, pool, rewarded, span, earned>>

\* Time passes, and the pools and prices change meanwhile
Tick ==
    /\ Quiet
    /\ now < MaxTime
    /\ now' = now + 1
    /\ \E n \in Names : \E answer \in Pools[n] : pool' = [pool EXCEPT ![n] = answer]
    /\ present' = [n \in Names |-> IF n \in DOMAIN protocols THEN present[n] + 1 ELSE 0]
    /\ UNCHANGED <<adminVars, treasuryVars, profitVars, rewarded, span, earned,
                   transactions>>

Next == Dispatch \/ TreasurySudo \/ ProfitStep \/ AdminStep \/ Tick

Spec == Init /\ [][Next]_vars

----------------------------------------------------------------------------
(***************************************************************************)
(* No NLS gets lost or made up between profit, treasury and the pools: it  *)
(* is with one of them, on its way, locked with a packet, or paid to the   *)
(* relayer of one.  A buy-back may finish before its proceeds arrive, and  *)
(* before its last packet is answered.                                     *)
(***************************************************************************)
NlsAccountedFor ==
    profit_nls + locked + tipped + proceeds.coming + treasury_nls
        + Distributed(rewarded) = earned

(***************************************************************************)
(* Treasury rewards each moment once: a pool gets its rewards for all the  *)
(* time up to the last dispatch that it has been registered, however many  *)
(* attempts to dispatch have failed in between; and none gets them for     *)
(* more than the time that there has been.                                 *)
(***************************************************************************)
EachMomentRewardedOnce ==
    \A n \in Names :
        /\ span[n] <= last_dispatch - START
        /\ n \in DOMAIN protocols => span[n] >= present[n] - (now - last_dispatch)

----------------------------------------------------------------------------
(***************************************************************************)
(* The inductive invariant.  The last dispatch is not ahead of the time,   *)
(* and the time that a protocol is registered counts from zero.            *)
(***************************************************************************)
PlatformTypes ==
    /\ treasury_config \in [cadence : Cadences,
                            tvl_to_apr : {bars \in RewardScales : TryFromBars(bars)}]
    /\ treasury_nls \in Nat
    /\ profit_nls \in Nat
    /\ proceeds \in [due : Nat, coming : Nat]
    /\ locked \in Nat
    /\ tipped \in Nat
    /\ pool \in [Names -> PoolType]
    /\ rewarded \in [Names -> Nat]
    /\ span \in [Names -> Nat]
    /\ present \in [Names -> Nat]
    /\ earned \in Nat
    /\ now \in Nat
    /\ last_dispatch \in START .. now

PlatformInv ==
    /\ AdminInv
    /\ PlatformTypes
    /\ \A n \in Names \ DOMAIN protocols : present[n] = 0
    /\ NlsAccountedFor
    /\ EachMomentRewardedOnce
=============================================================================
