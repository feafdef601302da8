-------------------------------- MODULE Lpp --------------------------------
(***************************************************************************)
(* The Liquidity Providers' Pool contract, protocol/contracts/lpp.         *)
(*                                                                         *)
(* Lenders deposit LPN and receive nLPN at a price that grows with the     *)
(* interest the pool earns; leases borrow LPN and repay it with interest;  *)
(* NLS rewards are distributed pro rata to the nLPN held.  A transaction   *)
(* is atomic: an error or a panic anywhere in a handler reverts it, so     *)
(* every error path is a disabled action.                                  *)
(***************************************************************************)
EXTENDS LppLoan, Prices, FiniteSets, Functions

CONSTANTS
    Lenders,            \* accounts that deposit
    Leases,             \* accounts of lease contracts
    Codes,              \* code identifiers of lease contracts
    MaxUnits,           \* the greatest percent, u32::MAX permilles in the code
    BorrowRates,        \* InterestRate records the protocol may configure
    MinUtilizations,    \* permilles the protocol may configure
    DepositAmounts, WithdrawAmounts, LoanAmounts, RepayAmounts,
    RewardAmounts, DonationAmounts,
    MaxBalance,         \* bound: LPN the pool may hold
    MaxRewards,         \* bound: NLS ever distributed
    MaxTime             \* bound: last instant of time

\* the rates that pass InterestRate::validate
InterestRate == [base : 0..HUNDRED, optimal : 1..(HUNDRED - 1),
                 addon : 0..HUNDRED]

ASSUME ConstantsAssumption ==
    /\ MaxUnits \in Nat /\ MaxBalance \in Nat /\ MaxRewards \in Nat
    /\ MaxTime \in Nat
    /\ IsFiniteSet(Lenders) /\ IsFiniteSet(Leases)
    /\ BorrowRates \subseteq InterestRate
    /\ MinUtilizations \subseteq 0..HUNDRED
    /\ DepositAmounts \subseteq Nat \ {0}
    /\ WithdrawAmounts \subseteq Nat
    /\ LoanAmounts \subseteq Nat
    /\ RepayAmounts \subseteq Nat \ {0}
    /\ RewardAmounts \subseteq Nat \ {0}
    /\ DonationAmounts \subseteq Nat \ {0}

VARIABLES
    balance,    \* LPN on the pool's bank account
    nls,        \* NLS on the pool's bank account
    deposits,   \* Deposit::DEPOSITS, the default record where none is stored
    globals,    \* Deposit::GLOBALS
    loans,      \* Repo::STORAGE, zero principal where none is stored
    total,      \* Total::STORAGE
    config,     \* Config::STORAGE
    codeOf,     \* the platform's code id of each lease contract
    rewarded,   \* history: NLS distributed so far
    dust,       \* history: less than 1 / FACTOR per receipt was distributed once
    now         \* block time

vars == <<balance, nls, deposits, globals, loans, total, config, codeOf,
          rewarded, dust, now>>

-----------------------------------------------------------------------------
(* Loans, loans.rs *)

HasLoan(lease) == loans[lease].principal_due > 0

-----------------------------------------------------------------------------
(* The totals over all loans, state/total.rs *)

ZeroInterestRate == Rational(0, 1000)

TotalNew == [principal |-> 0, interest |-> 0, rate |-> ZeroInterestRate,
             last_update |-> 0]

TotalInterestDueByNow(t, time) ==
    InterestOver(RationalOf(t.rate, t.principal), time - t.last_update)
        + t.interest

\* mutant: the interest accrued so far is not recorded before the update
TotalBorrowNoAccrual(t, time, amount, rate) ==
    [principal   |-> t.principal + amount,
     interest    |-> t.interest,
     rate        |-> Rational(RationalOf(t.rate, t.principal)
                                  + PercentOf(rate, amount),
                              t.principal + amount),
     last_update |-> time]

TotalBorrow(t, time, amount, rate) ==
    [principal   |-> t.principal + amount,
     interest    |-> TotalInterestDueByNow(t, time),
     rate        |-> Rational(RationalOf(t.rate, t.principal)
                                  + PercentOf(rate, amount),
                              t.principal + amount),
     last_update |-> time]

SaturatingSub(a, b) == IF b <= a THEN a - b ELSE 0

\* subtracting more than the total principal panics, see RepayLoan
TotalRepay(t, time, interest, principal, rate) ==
    [principal   |-> t.principal - principal,
     interest    |-> SaturatingSub(TotalInterestDueByNow(t, time), interest),
     rate        |-> IF principal = t.principal
                     THEN ZeroInterestRate
                     ELSE Rational(SaturatingSub(RationalOf(t.rate, t.principal),
                                                 PercentOf(rate, principal)),
                                   t.principal - principal),
     last_update |-> time]

-----------------------------------------------------------------------------
(* The pool, lpp.rs and borrow.rs *)

TotalDue == total.principal + TotalInterestDueByNow(total, now)

TotalLpn == balance + TotalDue

Utilization(bal, due) ==
    IF bal = 0 THEN HUNDRED ELSE FromRatio(due, due + bal)

(***************************************************************************)
(* LiquidityPool::deposit_capacity, Some(capacity) once a minimum          *)
(* utilization is configured.  bal excludes the deposit being made.        *)
(***************************************************************************)
DepositCapacity(bal, due) ==
    IF Utilization(bal, due) > config.min_utilization
    THEN SafeMul(due, HUNDRED, config.min_utilization) - bal - due
    ELSE 0

\* LiquidityPool::calculate_price
CalculatePrice ==
    IF globals.balance_nlpn = 0
    THEN Identity
    ELSE Price(globals.balance_nlpn, TotalLpn)

UtilizationMax(r) == FromRatio(r.optimal, HUNDRED - r.optimal)

\* InterestRate::calculate
CalculateRate(r, liability, bal) ==
    LET max == UtilizationMax(r)
        utilization == IF bal = 0 \/ FromRatio(liability, bal) > max
                       THEN max ELSE FromRatio(liability, bal)
    IN  r.base + SafeMul(utilization, r.addon, r.optimal)

(***************************************************************************)
(* LiquidityPool::query_quote: None without enough liquidity.  The 32-bit  *)
(* conversion of liability / balance comes before it is capped, and panics *)
(* when only a tiny balance would remain.                                  *)
(***************************************************************************)
QuoteAvailable(amount) ==
    /\ amount <= balance
    /\ amount < balance =>
          FromRatioFits(TotalDue + amount, balance - amount, MaxUnits)

Quote(amount) ==
    CalculateRate(config.borrow_rate, TotalDue + amount, balance - amount)

-----------------------------------------------------------------------------
(* Deposits and rewards, state/deposit.rs *)

NoDeposit == [deposited_nlpn |-> 0, reward_per_token |-> NoPrice,
              pending_rewards |-> 0]

CalculateReward(deposit) ==
    deposit.pending_rewards
        + Total(deposit.deposited_nlpn, globals.reward_per_token)
        - Total(deposit.deposited_nlpn, deposit.reward_per_token)

\* the subtraction in calculate_reward panics rather than go below zero
RewardComputable(deposit) ==
    Total(deposit.deposited_nlpn, deposit.reward_per_token)
        <= deposit.pending_rewards
               + Total(deposit.deposited_nlpn, globals.reward_per_token)

\* mutant: the reward per token the deposit has been accounted to is kept
UpdateRewardsStale(deposit) ==
    [deposit EXCEPT !.pending_rewards = CalculateReward(deposit)]

UpdateRewards(deposit) ==
    [deposit EXCEPT !.pending_rewards = CalculateReward(deposit),
                    !.reward_per_token = globals.reward_per_token]

\* Deposit::deposit
Deposited(deposit, nlpn) ==
    [UpdateRewards(deposit) EXCEPT !.deposited_nlpn = @ + nlpn]

\* Deposit::withdraw; withdrawing everything removes the deposit
Withdrawn(deposit, nlpn) ==
    IF nlpn = deposit.deposited_nlpn THEN NoDeposit
    ELSE [UpdateRewards(deposit) EXCEPT !.deposited_nlpn = @ - nlpn]

\* Deposit::claim_rewards
Claimed(deposit) == [UpdateRewards(deposit) EXCEPT !.pending_rewards = 0]

\* LiquidityPool::withdraw_lpn, past the check of the liquidity
WithdrawLpn(nlpn) == Total(nlpn, CalculatePrice)

-----------------------------------------------------------------------------
Init ==
    /\ balance = 0 /\ nls = 0 /\ rewarded = 0 /\ now = 0 /\ dust = FALSE
    /\ deposits = [l \in Lenders |-> NoDeposit]
    /\ globals = [balance_nlpn |-> 0, reward_per_token |-> NoPrice]
    /\ loans = [l \in Leases |-> NoLoan]
    /\ total = TotalNew
    /\ config \in [lease_code : Codes, borrow_rate : BorrowRates,
                   min_utilization : MinUtilizations]
    /\ codeOf \in [Leases -> {config.lease_code}]

(***************************************************************************)
(* ExecuteMsg::Deposit.  The capacity check and the price use the balance  *)
(* before the funds came in.                                               *)
(***************************************************************************)
Deposit(lender, amount) ==
    /\ balance + amount <= MaxBalance
    /\ config.min_utilization > 0 => amount <= DepositCapacity(balance, TotalDue)
    /\ RewardComputable(deposits[lender])
    /\ LET minted == Total(amount, Inv(CalculatePrice))
       IN  /\ deposits' = [deposits EXCEPT ![lender] = Deposited(@, minted)]
           /\ globals' = [globals EXCEPT !.balance_nlpn = @ + minted]
    /\ balance' = balance + amount
    /\ UNCHANGED <<nls, loans, total, config, codeOf, rewarded, dust, now>>

\* mutant: closing a deposit leaves its receipts in the global balance
WithdrawKeepsGlobals(lender, amount) ==
    LET payment == Total(amount, CalculatePrice)
        updated == UpdateRewards(deposits[lender])
        closes  == amount = deposits[lender].deposited_nlpn
    IN  /\ amount > 0
        /\ payment <= balance
        /\ amount <= deposits[lender].deposited_nlpn
        /\ closes => updated.pending_rewards <= nls
        /\ deposits' = [deposits EXCEPT ![lender] =
               IF closes THEN NoDeposit
               ELSE [updated EXCEPT !.deposited_nlpn = @ - amount]]
        /\ globals' = IF closes THEN globals
                      ELSE [globals EXCEPT !.balance_nlpn = @ - amount]
        /\ balance' = balance - payment
        /\ nls' = IF closes THEN nls - updated.pending_rewards ELSE nls
        /\ UNCHANGED <<loans, total, config, codeOf, rewarded, dust, now>>

(***************************************************************************)
(* ExecuteMsg::Burn.  Burning the last receipt closes the deposit and pays *)
(* its rewards in the same transaction.  Taking more receipts off the      *)
(* global balance than it has panics.                                      *)
(***************************************************************************)
Withdraw(lender, amount) ==
    LET payment == WithdrawLpn(amount)
        updated == UpdateRewards(deposits[lender])
        closes  == amount = deposits[lender].deposited_nlpn
    IN  /\ amount > 0
        /\ payment <= balance
        /\ amount <= deposits[lender].deposited_nlpn
        /\ RewardComputable(deposits[lender])
        /\ amount <= globals.balance_nlpn
        /\ closes => updated.pending_rewards <= nls
        /\ deposits' = [deposits EXCEPT ![lender] = Withdrawn(@, amount)]
        /\ globals' = [globals EXCEPT !.balance_nlpn = @ - amount]
        /\ balance' = balance - payment
        /\ nls' = IF closes THEN nls - updated.pending_rewards ELSE nls
        /\ UNCHANGED <<loans, total, config, codeOf, rewarded, dust, now>>

\* What a receipt gets of the rewards, in Deposit::distribute_rewards
PartialPrice(rewards) == Coprime(globals.balance_nlpn, rewards)

\* That price is below the unit lossy_add rounds to
IsDust(rewards) == FACTOR * rewards < globals.balance_nlpn

\* mutant: the new reward per token replaces the accumulated one
RewardPerTokenReplaced(rewards) == PartialPrice(rewards)

(***************************************************************************)
(* The accumulated reward per token.  The denominators multiply with every *)
(* distribution, so that sooner or later the sum is not an exact one.      *)
(***************************************************************************)
RewardPerToken(rewards) ==
    PriceAdd(globals.reward_per_token, PartialPrice(rewards))

\* ExecuteMsg::DistributeRewards.  A sum that overflows panics
DistributeRewards(rewards) ==
    /\ rewarded + rewards <= MaxRewards
    /\ globals.balance_nlpn > 0
    /\ RewardPerToken(rewards) # Panic
    /\ globals' = [globals EXCEPT !.reward_per_token = RewardPerToken(rewards)]
    /\ nls' = nls + rewards
    /\ rewarded' = rewarded + rewards
    /\ dust' = (dust \/ IsDust(rewards))
    /\ UNCHANGED <<balance, deposits, loans, total, config, codeOf, now>>

\* ExecuteMsg::ClaimRewards, refused when there is nothing to pay
ClaimRewards(lender) ==
    LET updated == UpdateRewards(deposits[lender])
    IN  /\ RewardComputable(deposits[lender])
        /\ updated.pending_rewards > 0
        /\ updated.pending_rewards <= nls
        /\ deposits' = [deposits EXCEPT ![lender] = Claimed(@)]
        /\ nls' = nls - updated.pending_rewards
        /\ UNCHANGED <<balance, globals, loans, total, config, codeOf,
                       rewarded, dust, now>>

\* mutant: a second loan overwrites the first one
OpenLoanOverwrite(lease, amount) ==
    /\ codeOf[lease] = config.lease_code
    /\ amount > 0
    /\ QuoteAvailable(amount)
    /\ loans' = [loans EXCEPT ![lease] = Loan(amount, Quote(amount), now)]
    /\ total' = TotalBorrow(total, now, amount, Quote(amount))
    /\ balance' = balance - amount
    /\ UNCHANGED <<nls, deposits, globals, config, codeOf, rewarded, dust, now>>

(***************************************************************************)
(* ExecuteMsg::OpenLoan by a contract of the configured lease code.        *)
(***************************************************************************)
OpenLoan(lease, amount) ==
    /\ codeOf[lease] = config.lease_code
    /\ amount > 0
    /\ QuoteAvailable(amount)
    /\ ~HasLoan(lease)
    /\ loans' = [loans EXCEPT ![lease] = Loan(amount, Quote(amount), now)]
    /\ total' = TotalBorrow(total, now, amount, Quote(amount))
    /\ balance' = balance - amount
    /\ UNCHANGED <<nls, deposits, globals, config, codeOf, rewarded, dust, now>>

\* LiquidityPool::try_repay_loan: the totals past the shares of a repayment
TotalRepaid(lease, shares) ==
    TotalRepay(total, now, shares.interest, shares.principal,
               loans[lease].annual_interest_rate)

(***************************************************************************)
(* ExecuteMsg::RepayLoan; the excess goes back to the lease.               *)
(***************************************************************************)
RepayLoan(lease, amount) ==
    LET shares == RepayShares(loans[lease], now, amount)
    IN  /\ codeOf[lease] = config.lease_code
        /\ HasLoan(lease)
        /\ shares.principal <= total.principal
        /\ balance + shares.interest + shares.principal <= MaxBalance
        /\ loans' = [loans EXCEPT ![lease] = shares.loan]
        /\ total' = TotalRepaid(lease, shares)
        /\ balance' = balance + amount - shares.excess
        /\ UNCHANGED <<nls, deposits, globals, config, codeOf, rewarded, dust, now>>

\* ExecuteMsg::NewLeaseCode by the lease code admin
NewLeaseCode(code) ==
    /\ config' = [config EXCEPT !.lease_code = code]
    /\ UNCHANGED <<balance, nls, deposits, globals, loans, total, codeOf,
                   rewarded, dust, now>>

\* SudoMsg::NewBorrowRate
NewBorrowRate(rate) ==
    /\ config' = [config EXCEPT !.borrow_rate = rate]
    /\ UNCHANGED <<balance, nls, deposits, globals, loans, total, codeOf,
                   rewarded, dust, now>>

\* SudoMsg::MinUtilization
MinUtilization(percent) ==
    /\ config' = [config EXCEPT !.min_utilization = percent]
    /\ UNCHANGED <<balance, nls, deposits, globals, loans, total, codeOf,
                   rewarded, dust, now>>

\* the platform migrates a lease contract to the configured code
MigrateLease(lease) ==
    /\ codeOf' = [codeOf EXCEPT ![lease] = config.lease_code]
    /\ UNCHANGED <<balance, nls, deposits, globals, loans, total, config,
                   rewarded, dust, now>>

\* anybody may send LPN to the pool's account
Donate(amount) ==
    /\ balance + amount <= MaxBalance
    /\ balance' = balance + amount
    /\ UNCHANGED <<nls, deposits, globals, loans, total, config, codeOf,
                   rewarded, dust, now>>

\* block time advances
Tick ==
    /\ now < MaxTime
    /\ now' = now + 1
    /\ UNCHANGED <<balance, nls, deposits, globals, loans, total, config,
                   codeOf, rewarded, dust>>

LenderNext(lender) ==
    \/ \E amount \in DepositAmounts : Deposit(lender, amount)
    \/ \E amount \in WithdrawAmounts : Withdraw(lender, amount)
    \/ ClaimRewards(lender)

LeaseNext(lease) ==
    \/ \E amount \in LoanAmounts : OpenLoan(lease, amount)
    \/ \E amount \in RepayAmounts : RepayLoan(lease, amount)
    \/ MigrateLease(lease)

Next ==
    \/ \E lender \in Lenders : LenderNext(lender)
    \/ \E lease \in Leases : LeaseNext(lease)
    \/ \E rewards \in RewardAmounts : DistributeRewards(rewards)
    \/ \E code \in Codes : NewLeaseCode(code)
    \/ \E rate \in BorrowRates : NewBorrowRate(rate)
    \/ \E percent \in MinUtilizations : MinUtilization(percent)
    \/ \E amount \in DonationAmounts : Donate(amount)
    \/ Tick

Spec == Init /\ [][Next]_vars
-----------------------------------------------------------------------------
(* Correctness properties *)

RationalType == [nom : Nat, den : Nat \ {0}]

PriceType == [amount : Nat \ {0}, quote : Nat]

TotalType == [principal : Nat, interest : Nat, rate : RationalType,
              last_update : Nat]

DepositType == [deposited_nlpn : Nat, reward_per_token : PriceType,
                pending_rewards : Nat]

(***************************************************************************)
(* Type invariant: the amounts and times every handler stores are          *)
(* naturals, and no rate or price it stores has a zero denominator.        *)
(***************************************************************************)
TypeOK ==
    /\ balance \in Nat /\ nls \in Nat /\ rewarded \in Nat /\ now \in Nat
    /\ dust \in BOOLEAN
    /\ deposits \in [Lenders -> DepositType]
    /\ globals \in [balance_nlpn : Nat, reward_per_token : PriceType]
    /\ loans \in [Leases -> LoanType]
    /\ total \in TotalType
    /\ config \in [lease_code : Codes, borrow_rate : BorrowRates,
                   min_utilization : MinUtilizations]
    /\ codeOf \in [Leases -> Codes]

(***************************************************************************)
(* The assertion of calculate_price, lpp.rs: the nLPN price is never less  *)
(* than the initial one, i.e. the LPN the pool holds or is owed covers     *)
(* every receipt one to one, whatever the rounding of the totals lost.     *)
(***************************************************************************)
PriceNotBelowInitial == TotalLpn >= globals.balance_nlpn

\* the inductive invariant behind it: the totals were updated in the past
PoolInv ==
    /\ TypeOK
    /\ total.last_update <= now
    /\ PriceNotBelowInitial

(***************************************************************************)
(* What one receipt is worth never decreases: no deposit, withdrawal,      *)
(* loan, repayment or passage of time dilutes the other lenders.           *)
(***************************************************************************)
ReceiptsNeverDiluted ==
    [][globals.balance_nlpn > 0 /\ globals'.balance_nlpn > 0 =>
          TotalLpn' * globals.balance_nlpn >= TotalLpn * globals'.balance_nlpn]_vars

(***************************************************************************)
(* The running total of the principals is the sum over the open loans, so  *)
(* Total::repay never hits its "Unexpected overflow" panic.                *)
(***************************************************************************)
PrincipalsAddUp ==
    total.principal = SumFunction([l \in Leases |-> loans[l].principal_due])

(***************************************************************************)
(* The issued nLPN are exactly the ones on the lenders' accounts.          *)
(***************************************************************************)
ReceiptsAddUp ==
    globals.balance_nlpn =
        SumFunction([l \in Lenders |-> deposits[l].deposited_nlpn])

(***************************************************************************)
(* A deposit is let in only while it leaves the pool utilized at least at  *)
(* the configured minimum (try_deposit's UtilizationBelowMinimalRates).    *)
(***************************************************************************)
DepositKeepsMinUtilization ==
    [][\A lender \in Lenders, amount \in DepositAmounts :
          Deposit(lender, amount) =>
              FromRatio(TotalDue', TotalLpn') >= config.min_utilization]_vars

(***************************************************************************)
(* Changing a deposit neither gains nor loses rewards: as long as nothing  *)
(* is distributed or paid out, every lender's accounted reward stays.      *)
(***************************************************************************)
RewardsOnlyFromDistribution ==
    [][nls' = nls =>
          \A lender \in Lenders :
              CalculateReward(deposits[lender])' = CalculateReward(deposits[lender])]_vars

(***************************************************************************)
(* The reward arithmetic never underflows: calculate_reward would panic in *)
(* every Deposit, Burn and ClaimRewards of the lender and lock its funds.  *)
(* The sum of the rewards per token may be rounded down, and it may lose   *)
(* more than it is given when that is less than 1 / FACTOR per receipt: a  *)
(* distribution of so little is excluded.                                  *)
(***************************************************************************)
RewardsAlwaysComputable ==
    ~dust => \A lender \in Lenders : RewardComputable(deposits[lender])

\* the ratio of a price is not above that of another
NotAbove(p, q) == p.quote * q.amount <= q.quote * p.amount

\* no deposit is accounted to a reward per token above the global one
RewardsNotAhead ==
    ~dust => \A lender \in Lenders :
        NotAbove(deposits[lender].reward_per_token, globals.reward_per_token)

\* the inductive invariant behind the sums and the rewards
BooksInv ==
    /\ PoolInv
    /\ PrincipalsAddUp
    /\ ReceiptsAddUp
    /\ RewardsNotAhead
=============================================================================
