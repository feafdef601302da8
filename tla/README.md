# TLA+ models of the Nolus money market

Nolus is a set of CosmWasm contracts.  Lenders deposit a stable currency, LPN,
into a liquidity pool; customers open *leases*, margin positions financed by the
pool, whose assets are kept in an interchain account (ICA) on a DEX network; the
protocol watches the positions with price and time alarms and liquidates the
ones whose loan-to-value (LTV) ratio gets too high.  A *protocol* is a set of
contracts for one DEX and one LPN; the *platform* is what all protocols share.

A contract handles one message at a time.  A message and all the messages it
sends are one transaction: an error or a panic anywhere reverts everything.  So
an error path of a handler is a *disabled* action in these modules, and a
sub-message is a part of the action that sends it.  What is not atomic is what
crosses a network: the packets of a swap, the dispatch of alarms, the replies.
Where the order of the messages *within* a transaction is the point (`Admin`,
`Alarms`) the messages are steps of their own, and the failure of one is an
action that restores the state from before.

## 1. Inventory

| component (source) | state | operations | hard behaviour | module |
|---|---|---|---|---|
| lpp, `protocol/contracts/lpp` | deposits, nLPN total, reward per token, loans, totals, config | Deposit, Burn, ClaimRewards, DistributeRewards, OpenLoan, RepayLoan, NewLeaseCode, NewBorrowRate, MinUtilization | rounding of the price, of rewards, of the totals against the single loans | `Lpp`, `LppLoan` |
| lease, `protocol/contracts/lease` | one of 12 states with that of a swap, the position, the close policy, the loan and the margin paid by, alarms | open, Repay, ClosePosition, ChangeClosePolicy, Close, PriceAlarm, TimeAlarm, Heal, the DEX answers, queries | a payment, an alarm and a swap in any order; interest split between two contracts; branches left `unimplemented!` or `unreachable!` | `LeaseLoan`, `Position`, `Lease`; `LeaseContract`, `LeaseLifecycle` |
| dex, `protocol/packages/dex` | the state of a swap task, a stored response | start of four routes, Response, Error, Timeout, OpenAck, TimeAlarm, Heal | lost, late, refused packets; refunds; failed delivery of a response; polling | `Dex`, `SwapStates` |
| swap, the DEX clients, `protocol/packages/swap`; platform bank and ICA wrappers | bank and ICA accounts | send, receive, drain, transfer, swap | coins under different names on each network, several coins in one message | `Wire` |
| currencies, `protocol/packages/currencies`, `tools/topology` | generated at build | resolve symbols, groups, pools | two walks over a graph of networks that must agree | `Topology`, `Currencies` |
| finance, `platform/packages/finance` | - | percents, ratios, prices, interest, liability levels | rounding, sums and products that do not fit | `Finance`, `Interest`, `Position`, `Prices` |
| oracle and marketprice | feeders, observations, config, swap tree, price alarms, queue in delivery | RegisterFeeder, RemoveFeeder, FeedPrices, UpdateConfig, SwapTree, migrate; AddPriceAlarm, DispatchAlarms, reply; queries | expired feeds, quorum, means, a tree walked with a stack; failing subscribers, batches | `Oracle`, `PriceFeeds`, `SupportedPairs`; `PriceAlarms`, `Alarms` |
| timealarms, `platform/packages/time-oracle` | alarms by second, queue in delivery | AddAlarm, DispatchAlarms, reply | failing subscribers, batches | `Dispatcher`, `TimeAlarms`, `Alarms` |
| leaser, `protocol/contracts/leaser`, and the lease codes of lpp and reserve | leases per customer, config | OpenLease and its reply, FinalizeLease, MigrateLeases(Cont), Config, CloseProtocol | batches with a continuation key while leases come and go | `Leaser` |
| reserve | funds, lease code | CoverLiquidationLosses, NewLeaseCode | not enough funds | inside `Lease` and `Leaser` |
| profit, `protocol/contracts/profit` | Idle or BuyBack, config | TimeAlarm, DEX answers, Config | proceeds that come in late; tips locked with packets | `Profit` |
| treasury, `platform/contracts/treasury` | reward scale, cadence, dispatch log | TimeAlarm, Configure, RewardScale | one pool's error fails all | `Treasury` |
| admin, `platform/contracts/admin` | protocols, expected instantiation, DEX admin | Instantiate, Register, Deregister, Migrate, Execute, ChangeDexAdmin | a migration that fails midway; the order of messages | `Admin` |
| versioning, access-control, void | a record of the predecessor | update_software, check | which code may replace which | `Versioning` |

How they interact: a lease calls the pool (OpenLoan, RepayLoan), the reserve
(CoverLiquidationLosses), the profit contract (the margin), the leaser (its
end), the oracle and the timealarms (alarms), and runs swap tasks of `dex`; the
alarms call the lease, the profit and the treasury back, at most once per alarm
set; the profit feeds the treasury with NLS, which rewards the pools; the leaser
creates and migrates leases, tells the pool and the reserve their new code and
asks admin to deregister the protocol.

## 2. The modules and the code

### Pool and lease

`Finance` - `SafeMul` is `Fractionable::safe_mul`, the one place where amounts are
rounded, always down.  `Interest` - the interest over a period and the period a
payment of it covers (`finance/src/interest.rs`).  `Prices` - sums and products of
prices, in lowest terms and of a fixed width (`finance/src/price/mod.rs`).  A sum whose
amounts do not fit is not an error: `PriceAdd` then rounds both prices down to units of
`FACTOR` (`LossyAdd`).  A product that does not fit loses its lowest bits
(`TrimDown`).  `Panic` is the outcome when nothing is left, or the lossy sum does not
fit either.  The rewards of `Lpp` and the means of `PriceFeeds` are made of these.

`LppLoan` - a loan of the pool (`lpp/src/loan.rs`).  `Lpp` uses it for the pool's
own loans, `LeaseLoan` for the copy the lease computes with before it sends a
repayment.  `Treasury` uses `Interest` for the rewards.

`Lpp` - one action per message.  `deposits`, `globals`, `loans`, `total` and
`config` are the storage items of the same names; `balance` and `nls` the bank
accounts.  `Donate` is a bank transfer by anybody.  `dust` is a history variable: a
distribution was of less than 1 / `FACTOR` per receipt.  `BooksInv` at its end, like
`DexInv`, `AdminInv` and `PlatformInv` at the end of theirs, is the inductive
invariant of the proofs.

`LeaseLoan` - `Overdue`, `LoanState` and `LoanRepay` of the lease: the margin on
top of the pool's interest, the order overdue interest, overdue margin, due
interest, due margin, principal.  `Position` - close policy, LTV zones, the
choice between no, a partial and a full liquidation, the range of prices of the
alarms (`Steadiness`).

`Lease` - one lease with its amounts.  `state.at` names the contract's state
("Init" is before the instantiation) with the amount in sale or in swap.  A swap
task is its start and its finish with a yield taken from `Yields`; the protocol
in between is `Dex`.  `TryRepay` is the whole of a payment.  `sent` is what the
last transaction sent to the pool and to the profit together.  The environment is
the price and the time (both move while the lease watches them, `Watching`), LPN
sent to the lease out of order (`Donate`), and the reserve's funds.

`LeaseContract` - the same contract as its callers meet it: any message from anybody in
any state.  `at` is the contract's state and `swap` that of its swap, whose handlers are
the tables of `SwapStates`; what amounts decide is a choice.  `StateResponse` is the
query.  A task is a record that says where it ends and, on its own, how many messages to
the leaser it sends with that (`finalizer_msgs`): the last repayment
(`payment/close.rs:92`) and the transfer of a paid lease's assets
(`paid/transfer_in.rs:123`) do, the other tasks do not.  `LeaseLifecycle` is the
abstract specification it implements: which state may come after which.

`SwapStates` - for each state of `out_local::State` and `out_remote::State` the
messages it handles and where they lead to, the delivery of responses included.

`Dex` - a swap task with its packets.  `packets` are the IBC packets on the way, each
with the time left until its timeout; `Response`, `Error` and `Timeout` are the handlers
of the answers; a delivery in a sub-message may fail (`state.resp` is then the stored
response and a time alarm is set).  The networks are external: `Execute*`, `Reject`,
`RefundBack`.  `Heal` is open to anybody at any time; the history variable `early` tells
whether it ever came with an answer still on its way.  The account may have coins of the
output currency in the beginning and get more at any time (`given`, `Give`), and the
check of the proceeds compares the whole balance as the code does, so a task may finish
with others' coins ahead of its proceeds.

`Topology` - the bank and the DEX symbol of a currency by the channels it comes
through.  `Currencies` - the types that the build of `currencies` generates:
groups, pools, buddies.  `Wire` - a lease's coins over the bank, the transfer
channel, the DEX (a client for Astroport and one for Osmosis) and back, accounts
being bags of symbols; the networks' transfer modules and the DEXes are external.

### Alarms and prices

`AlarmService` - abstract: an alarm stays armed until its subscriber handles it
with success, and a subscriber is woken up only if its alarm is due.
`Dispatcher`, `TimeAlarms`, `PriceAlarms` - the storage of the two services and
their queues in delivery.  `Alarms` - the two composed with their subscribers.
`messages` are the sub-messages of the transaction in progress.  `asked_time` and
`asked_price` are history variables: what the subscribers asked for in their own
units, so that the effect of rounding can be stated.  `prices` are any of
`PricesSet`.

`PriceFeeds` - marketprice: the feeders, the configuration, the queue of observations of
each pair, samples and their discounted mean, and the actions on them.  `fed` is a
history variable, every observation ever made, against which the queue that `retain`
trims is compared; `prolonged` tells whether the validity of observations was ever
prolonged.  `SupportedPairs` - the human readable and the stored swap tree (package
tree), its validation, paths.  `Oracle` - the contract composed of the two: the feeds of
the tree's pairs, changes of the tree, migration to a code with other pools.  Each of
its actions on the feeds is a conjunction with the action of `PriceFeeds`, and the
others leave the feeds as they are, so `FeedsSpec` allows whatever `Oracle` does to
them.

### Leaser and platform

`Versioning` - which code may replace which; codes of this tree keep no record of
themselves, their predecessors did.  It has the permission of a single user
(access-control) too.

`Leaser` - the registry, batches, and the lease codes of the pool and the reserve.
`MigrateBatch` is the whole of a batch: the customers one by one, each with all of
its leases, while they fit.  `next_customer` is the key handed back.

`Admin` - the registry of protocols.  `batch` has the messages of the transaction
in progress, in order; `saved` is the state to return to on an error.  `Treasury`,
`Profit` - the rewards dispatch and the buy-back.  Each packet of a buy-back takes
`IbcFee`, the two tips, from profit's account (`SubmitPacket`; an account short of it
fails the transaction), and its answer pays one to the relayer and gives the other back
(`PacketAnswered`): that is what `IBC_FEE_RESERVE` is kept for.  `Platform` composes the three:
treasury rewards the pools of the protocols that admin has registered, with the
NLS that profit sends.

## 3. What is checked

All runs are exhaustive over the given constants.

| run | shows | instance |
|---|---|---|
| `lpp_pool` | the price of nLPN is never below the initial one and a receipt is never worth less than before; the principals add up to the total | a lender, two leases, two lease codes, two minimum utilizations, a year of 2 instants |
| `lpp_rewards` | receipts add up; rewards are computable unless dust is distributed, and come from distributions only | two lenders, a lease, two rates, amounts of 3 bits, `FACTOR` 5: most sums are lossy |
| `dex_protocol` | an answer meets its sender; one swap is executed once; it finishes with its proceeds or with others' coins that suffice, nothing is lost or transferred twice; a started task finishes | the tasks of buy-back, sale, opening and closing, timeout 2, 3 packets, up to two gifts of 2 |
| `lease` | a settled lease has no loan; no LPN is left behind; a partial liquidation heals; a price that calls for an action raises an alarm; lease and pool agree on every payment; no debt is forgiven; trouble is handled | three prices (healthy, partial and full liquidation), a take profit, a payment of a part and a swapped one of all, a swap that loses 5%, 3 instants, so that interest gets overdue |
| `lease_contract` | queries never meet `unreachable!`; the leaser is told once, as the lease ends; the contract implements `LeaseLifecycle` | customer, both alarm contracts, a stranger, 3 packets |
| `alarms` | every reply meets the alarm it is about; a crossed price alarm is selected in spite of rounding; both services implement `AlarmService`; no time alarm starves | two subscribers, alarms at the end and at the begin of a second of 2 units, two currencies, prices that coincide once normalized, batches of 1 and 2 |
| `leaser` | a migration that reports done has left no lease behind; a lease refused meanwhile is served again unless the batches are blocked | three customers, one a smart contract, three leases, four codes, batches of 1 and 3 |
| `platform` | migrations go before messages; a protocol leaves as a whole; each NLS is accounted for, tips included; each moment is rewarded once | one protocol registered and one to be, two codes of its pool, migrations that are refused midway, 3 instants, a pool that may fail to answer, tips of 1, earnings just enough for the packets of a buy-back |
| `oracle` | a pair is priced while there is a quorum; prices lie within what was observed but for the roundings; moderate prices are computable; all queries agree; swap paths are right | four currencies, two feeders, two price configurations, four trees, two codes with other pools, 4 instants, amounts of 14 bits and `FACTOR` 1024 with prices whose sums and products do not fit, moderate between 1/3 and 3 (`Spread`), 1/40 lost per rounding (`Precision`) |
| `wire` | the symbols of a currency agree; generated pools match; each message's coin is where it is to be; nothing is left behind | four networks, six currencies, topologies with the DEX one and two hops away and a currency of any of the networks, both DEXes, payments with coins of no currency |
| `lease_stop_loss_payment`, `oracle_full_discount` | counterexamples, see section 6 | |

Bounds.  Amounts are chosen so that each division rounds (interest of 50% over
half a year on 6 or 7, LTVs one unit around the levels), time so that interest
gets due and overdue and observations expire, packets so that a refund, a repeated
transfer and its answer are on the way together, batches so that one ends before
the last customer and one takes them all.  `MaxBalance`, `MaxRewards`,
`MaxTime`, `MaxPackets`, `MaxGiven`, `MaxFeeds`, `MaxChanges`, `MaxTransactions` and
`MaxEarned` are the only bounds of the state; the theorems have none of them on the values
they speak of.  Leases end, pools may become idle, tasks finish and bounded time
stops, so deadlock is not checked there; it is for the alarms and the lease
contract.

Fairness.  `Dex`: relayers hand over every answer and refund, alarms are
dispatched (the handlers' errors leave them due), time goes on; somebody calls
Heal on a contract that waits for nothing, which is what Heal is for; and an
operation repeated over and over again gets through once (strong fairness per kind
of packet), without which no retry could help.  `Lease`: time goes on and due
alarms are dispatched; nothing is assumed of the customer or of the DEX.  `Alarms`:
a transaction goes through (weak fairness of `Deliver`), the off-chain dispatcher
keeps asking and blocks keep coming (strong fairness, since the transactions in
between disable both for a while); each subscriber may fail forever.  `Leaser`: the
owner continues a migration "until no key is provided", as the message's doc asks.
No like property is stated of price alarms: a failed one gets back at the very
place of the index it was taken from, so `max_count` ones that fail forever do
starve those behind.

## 4. What is proved

Checked by TLAPS, for all values of the constants allowed by the named assumptions.

* `FinanceProofs`: the arithmetic and the sums.  Multiplication by a ratio is
  monotone and loses less than one; `RestOfInterest` says that paying a part of the
  interest, which covers a period rounded down, leaves at least the rest of the
  interest due: the fact behind every statement on debts.  The lemmas on
  `SumFunction` say that the sum of a function on a finite set is a natural, and how
  it changes with one of its values.  A fold is a function of the library defined by
  recursion; what it computes is shown by a least counterexample among the numbers
  of elements.
* `LppProofs`: `TypeCorrect`, `PriceNeverBelowInitial`, `NeverDiluted`,
  `MinUtilizationKept`.  The inductive invariant is `PoolInv`: the types, the
  totals were updated in the past, and the pool's worth covers the receipts.  The
  middle conjunct is needed since the interest of a negative period would shrink
  the worth.  Every action either keeps the worth and the receipts, or changes
  them with a rounding in favour of the pool.  `PrincipalsAlwaysAddUp`,
  `ReceiptsAlwaysAddUp`, `RewardsComputable`, `RewardsKeptByDeposits` and
  `TotalsNeverUnderflow` rest on `BooksInv`: `PoolInv`, the two sums and
  `RewardsNotAhead`, no deposit's reward per token being above the global one.  The
  sums are needed for the subtractions: a loan's principal is a part of the total
  since all others are naturals.  The order of rewards per token is needed because a
  reward is the difference of two rounded amounts, which is monotone in the price.  A
  lossy sum keeps it (`PriceAddGrows`): rounding the accumulated price to units of
  `FACTOR` loses less than one unit, and a distribution that is not dust adds one.
* `LeaseProofs`: `TypeCorrect`, `SettledIsRepaid`, `OpenedOwes`,
  `LeaseAndPoolAgree`, `DebtKept`, `NothingEverStranded`, `AlarmsCoverTrouble`,
  `PartialSaleHeals`.  The inductive invariant is `LeaseInv`: the types, the alarms
  are well-formed, a partial sale leaves a part
  of the position, an opened or opening lease owes a principal, a settled one has no
  loan.  `NothingEverStranded` adds `AccountInv`, an empty account before the lease
  is opened, and the fact that only a payment of all of the due leaves a change
  (`RepayLeavesNoChange`).  `DebtKept` and `NothingEverStranded` assume that no stop
  loss is set; the run `lease_stop_loss_payment` shows the assumption is necessary.
  `AlarmsCoverTrouble` adds `AlarmsFit`: alarms set at this very moment are those of
  the position and the debt as they are, at some price that left nothing to do.
  Then only the price may have changed, and the range of prices left by the
  levels around it, rounded, has no gap.  `PartialSaleHeals` is proved of the states
  with `InterestCovered`: the proceeds of the sale cover the interest due.  Proceeds
  that pay for a part of the interest pay for a period rounded down, and the interest
  of up to a unit of time is due again, which no fixed number of assets bounds.
* `DexProofs`: `TypeCorrect`, `AnswersAlwaysMeetTheirSender`, `NeverSwappedTwice`,
  `CoinsAlwaysReachTheDex`, `AlwaysFinishedWithProceeds`, for any coins and any number
  of packets.  The inductive invariant is `DexInv`.  `PacketsInv` says
  that the packets are finitely many, with different ids.  `OutInv` says, for each coin
  of the task,
  whether it is here, on its way or at the DEX, by the index of the transfer in
  progress: that part holds whenever Heal comes.  `InInv` is about what comes from
  the swap on, unless Heal came early: the one packet awaited is that of the state,
  and the proceeds are either received, with all transfers back expired, or not
  received, with at most one that still may be (`Received`, `Pending`), others' coins
  (`Given`) counted apart; a check of the balance they pass alone may end the task in
  either case.  The time left
  of that transfer is needed, since a polling that gives up and transfers again must
  not do so while the first one can still arrive.
* `PlatformProofs`: `PlatformTypesCorrect`, `NlsAlwaysAccountedFor`,
  `AlwaysRewardedOnce`, `AlwaysMigratedBeforeTold`, `ProtocolsLeaveAsAWhole`.
  The inductive invariant is
  `PlatformInv`: the types, the two accounts of NLS (tips locked and paid included) and
  of time, an absent protocol
  counts its time from zero, and `AdminInv` on the batch: migrations go first, a
  deregistration stands alone and there are no messages between transactions.  A
  deregistration puts the migrations of the protocol's contracts in the place of
  itself, so that without its being alone they could come after a message.
  `ProtocolsLeaveAsAWhole` adds `LeavingInv`: either no protocol has left in the
  transaction, and no contract is or is about to become void in it, or one has, and each
  of its contracts is void or has its migration to void ahead.  It is proved under
  `VoidLeftToRemoval`, that no proposal migrates a contract to void and that no other
  code is of the void release: admin would let a proposal migrate any contract to any
  code, and it is for the governance not to.  The instance of the run satisfies it
  (`ProperRemoval`).
* `LeaseContractProofs`: `QueriesAnswered`, `NotifiedOnce`, `ImplementsLifecycle`,
  `StrangersRetry`.  The invariant `ContractInv` says that each task keeps to its
  part, `TaskStates`, of the enum of states that several tasks share.  The part is
  closed under every handler (`LocalHandlers`, `RemoteHandlers`), the delivery of a
  stored response included (`LocalOutcomes`, `RemoteOutcomes`).  A response is
  stored only by a state that expects one; without that conjunct a delivery could
  lead out of the part.  `NotifiedOnce` rests on `TasksNotify` and `OnlyTasksEnd`: just the
  tasks that end in a final state notify, and no state but the end of a task leads there.
* `LeaserProofs`: `RegistryExact`, `DoneIsServed`.  The invariant `LeaserInv` says
  that the registry is just the leases under way, that pool, reserve and leaser have
  the same lease code, and that a lease of another code belongs to a customer at or
  past the continuation key (`OthersAreAhead`).  `BatchIsComplete` is the heart: a
  batch migrates a lease or leaves it at or past the next key.  The registry is part
  of the invariant since batches go by the registry and not by the leases.
* `OracleProofs`, on the alarms: `RepliesMeet`, `SubscribersUnique`, `NoneMissed`, and the
  refinements `TimeAlarmsImplement` and `PriceAlarmsImplement`.  The inductive
  invariant is `AlarmsInv`: the messages of a transaction are of one service, go
  to different subscribers and match its queue (`QueueInv`; were a subscriber
  twice in a batch, its alarm set in between would be taken for the one out for
  delivery); an alarm is kept no earlier than the second asked for, and is out
  only past it (`TimeInv`); the pair of price alarms stored is the one asked for,
  either kept or out at prices that cross it (`PriceInv`).  The arithmetic is in
  `Seconds`, `NormalizedAntitone` and `WellBelowNormalized`: rounding keeps the
  order, up to one unit.
* `OracleProofs`, on the feeds: `FeedsInvariant`, `AlwaysPricedWhileQuorum`,
  `AlwaysWithinObservations`, of `FeedsSpec`.  The inductive invariant is `FeedsInv`:
  the queue of a pair holds observations made, with proper prices and in the order of
  their times, and holds all that are valid unless the validity was prolonged.  The
  order is what the iterator over the sample periods relies on: it stops at the first
  observation of a later period.  Keeping the valid ones takes that time only grows, so
  what `retain` drops is not valid later either.  A mean may be below every observation,
  since a lossy sum is rounded down, and above every one, since a product is trimmed on
  both sides.  How far is what is proved: a sum (`PriceAddBetween`) and a product
  (`LossyMulBetween`) of moderate prices lose at most 1 / `Precision` of them each, a
  price is rounded `RoundingSteps` times at most, and so it stays that close to the
  range of the observations.  `RoundingAssumption` says for which widths, `FACTOR`,
  `Spread` and `Precision`; the widths of the code, 128 bits and 10^18, satisfy it for a
  `Spread` and a `Precision` of 10^6 with up to 10^5 roundings and a weight of 0.1%.  In
  the same room no operation leaves nothing of a moderate price, so that a panic takes a
  discount factor of 100%, which is what `oracle_full_discount` finds, or an observation
  that is not moderate.  The recursive functions (the greatest common divisor, the
  powers of two, the samples, the averages, a message's feeds) are first shown to exist,
  by induction over the numbers they go down (`GcdAt`, `Pow2At`, `IterationSolved`).

Only model-checked:

* the liveness properties (`EventuallyFinished`, `TroubleHandled`,
  `NoTimeAlarmStarves`, `RefusedIsServedAgain`), which are out of the prover's reach;
* `PricesAgree` and `SwapPathSound` of `Oracle`, and the four properties of `Wire`: what
  trees, paths and symbols compute is defined with RECURSIVE operators and needs an
  induction over trees;
* `PartialLiquidationHeals` of the states without `InterestCovered`.

## 5. Not modelled

u128 overflow of amounts (it reverts, and no amount comes near; that of prices is
modelled, see `Prices`), the tips of the packets of leases' swaps, which their accounts
pay as profit's does, gas, events, formatting and
the encoding of DEX messages as protobuf; currency visitors, which the compiler
types; the quotes of the leaser and the pool, read-only sums of what is modelled;
several leases sharing one pool *and* following their own state machines at once
(the pool is modelled with several loans, the lease with one, the leaser with
several leases without amounts); a subscriber that dispatches alarms while it
handles one (no contract does); schema and sdk, which re-export; scripts and tests.

## 6. Where the code and what is said of it disagree

* `lease_stop_loss_payment`: a payment that leaves a stop loss triggered starts
  the sale without the messages of the payment; the margin counts as paid.
* `oracle_full_discount`: a discount factor of 100% is accepted, but with more than
  one sample the mean multiplies a price by 0%, which panics.

More were seen while modelling; they delay or revert, or are known to the code:

* the totals of the pool may keep interest due after all loans are repaid, since
  they accrue at a blended rate (`lpp/src/state/total.rs:108`), and rounding may
  account a unit more of rewards to the lenders than the pool holds
  (`lpp/src/state/deposit.rs:149`);
* a distribution of less than 1 / 10^18 NLS per receipt may lower the accumulated reward
  per token (`finance/src/price/mod.rs:189`, rounding both prices down), after which
  `calculate_reward` underflows for whoever is up to date; `RewardsAlwaysComputable`
  exempts it, `dust`.  It takes more than 10^18 receipts for each unit of NLS;
* the price of a currency three or more legs away may differ in its last bits between the
  queries, which multiply the legs from the other end each (`PricesAgree`);
* a swap task of a local output takes others' coins on the account for its proceeds
  (`dex/src/impl_/transfer_in.rs:41`); the proceeds come in later, and
  `FinishedWithProceeds` says so;
* a currency of a network between the host and the DEX gets a bank symbol with the way to
  the DEX and back (`tools/topology/src/currency_resolution.rs:199`), Host>Mid,
  Mid>Dex, Dex>Mid, while its coins sent home from the DEX come with Host>Mid only.
  `SymbolsAgree` exempts it in that direction, `ComesFromThePath`;
* Heal during a swap in flight executes the swap twice
  (`dex/src/impl_/swap_exact_in.rs:282`), so `Dex` states its properties of tasks
  that were healed past a failure only (`~early`);
* a lease opened between two batches of a migration has no record of its version
  (`versioning/src/software/mod.rs:57`), so a later migration over it is refused; the
  continuation key of a customer that is a smart contract is refused
  (`leaser/src/contract.rs:222`).  `RefusedIsServedAgain` exempts both, `Blocked`;
* a prolonged feed validity finds that observations are gone already
  (`marketprice/src/feed/cw/observations.rs:75`), `prolonged` in `PriceFeeds`;
* a policy change on a position already in need of a liquidation stops at
  `unimplemented!` (`close_policy/change.rs:76`); the debug assertion
  `receipt.close() <=> status is CloseStatusDTO::Paid` (`repayable.rs:101`) fails when
  a payment closes the loan of a lease with a take profit; interest accruing after
  the alarms are set may make a position one to liquidate within its "steady" range
  and period (`position/steady.rs:18`).

## 7. Plan

1. Proofs: that a task of `Dex` implements an abstract swap (one yield, once).
2. A pool with several leases that follow their own state machines.
