---------------------------- MODULE PriceFeeds ----------------------------
(***************************************************************************)
(* Package marketprice: the observations of the price of a currency pair,  *)
(* how long they are valid, and the price computed out of them.  Feeders   *)
(* observe a pair's price independently of each other.  The price exists   *)
(* only while enough of them have observed it lately; it is a moving       *)
(* average over sample periods, a sample being the mean of the last        *)
(* observation of each feeder in the period.                               *)
(***************************************************************************)
EXTENDS Prices, FiniteSets, SequencesExt

CONSTANTS
    Accounts,       \* may be registered as feeders, or not
    Pairs,          \* <<currency, quote currency>>, the legs of any swap tree
    PriceConfigs,   \* the governance chooses among
    PriceMessages,  \* sequences of [pair, price] that feeders send
    Spread,         \* prices between 1 / Spread and Spread are moderate
    Precision       \* a rounding of a moderate price loses 1 / Precision of it

VARIABLES
    block_time,
    feeders,        \* storage "feeders"
    config,         \* storage "config"
    observations,   \* storage "o11s", a queue per pair
    fed,            \* history: all observations ever accepted, per pair
    prolonged       \* history: the feed validity has grown at least once

feedsVars == <<block_time, feeders, config, observations, fed, prolonged>>

----------------------------------------------------------------------------
(* Config *)

PriceConfig(min, period, samples, discount) ==
    [min_feeders |-> min, sample_period |-> period,
     samples_number |-> samples, discount_factor |-> discount]

\* Config::check_invariant
ValidConfig(conf) ==
    /\ conf.min_feeders > 0 /\ conf.min_feeders <= HUNDRED
    /\ conf.sample_period > 0
    /\ conf.samples_number > 0
    /\ conf.discount_factor > 0 /\ conf.discount_factor <= HUNDRED

FeedValidity(conf) == conf.sample_period * conf.samples_number

\* Config::feed_valid_since
FeedValidSince(conf, at) ==
    IF FeedValidity(conf) <= at THEN at - FeedValidity(conf) ELSE 0

\* Config::min_feeders
MinFeeders(conf, total) == PercentOf(conf.min_feeders, total)

\* The configurations and the messages are those that the types let in
ASSUME FeedsAssumption ==
    /\ \A conf \in PriceConfigs :
          /\ conf \in [min_feeders : Nat, sample_period : Nat,
                       samples_number : Nat, discount_factor : Nat]
          /\ ValidConfig(conf)
    /\ \A msgs \in PriceMessages :
          /\ Len(msgs) \in Nat /\ DOMAIN msgs = 1 .. Len(msgs)
          /\ \A i \in DOMAIN msgs :
                /\ msgs[i].price \in [amount : Nat, quote : Nat]
                /\ Positive(msgs[i].price)
                /\ Fits(msgs[i].price.amount) /\ Fits(msgs[i].price.quote)

\* How many times a price of the configuration is rounded at most: in the sum
\* and the mean of a sample, and twice in each step of the moving average
RoundingSteps(conf) == Cardinality(Accounts) + 2 * (conf.samples_number - 1)

(***************************************************************************)
(* What makes Spread and Precision right: FACTOR and the width of amounts  *)
(* leave room for moderate prices, weighed by a discount as well.          *)
(***************************************************************************)
ASSUME RoundingAssumption ==
    /\ Spread \in Nat \ {0} /\ Precision \in Nat \ {0}
    /\ IsFiniteSet(Accounts) /\ Accounts # {}
    /\ Fits(HUNDRED)
    /\ Fits(2 * FACTOR * Spread * Cardinality(Accounts))
    /\ \A conf \in PriceConfigs :
          /\ 2 * RoundingSteps(conf) <= Precision
          /\ \A weight \in {conf.discount_factor, HUNDRED - conf.discount_factor} \ {0} :
                2 * HUNDRED * Spread * Precision <= FACTOR * weight

----------------------------------------------------------------------------
(* Observation and the queue of them that the storage keeps per pair *)

Observation(from, at, p) == [feeder |-> from, time |-> at, price |-> p]

\* Observation::valid_since
ValidSince(observation, since) == since < observation.time

\* Observations::retain.  Pops from the front until a valid one comes
Retain(queue, since) ==
    LET valid == {i \in DOMAIN queue : ValidSince(queue[i], since)}
    IN  IF valid = {} THEN <<>> ELSE SubSeq(queue, Min(valid), Len(queue))

\* Observations::register
Register(queue, observation) == Append(queue, observation)

\* PriceFeed::add_observation
AddObservation(queue, from, at, p, since) ==
    Register(Retain(queue, since), Observation(from, at, p))

----------------------------------------------------------------------------
(* sample.rs: a price per period, of the last observation of each feeder.  *)
(* The code iterates over the queue; a part of it is a set of places here. *)

\* SampleBuilder::next.  The observations within (start, end]
Within(queue, places, start, end) ==
    {i \in places : ValidSince(queue[i], start) /\ ~ValidSince(queue[i], end)}

FeedersOf(queue, places) == {queue[i].feeder : i \in places}

\* SampleBuilder::sample_prices
LastByFeeder(queue, places) ==
    [f \in FeedersOf(queue, places) |->
        queue[Max({i \in places : queue[i].feeder = f})].price]

\* mutant: the sum of the prices is taken for their mean
MeanOfSum(queue, places) ==
    LET prices == LastByFeeder(queue, places)
    IN  LossyMul(FoldFunction(PriceAdd, NoPrice, prices), 1, 1)

(***************************************************************************)
(* SampleBuilder::end_of_period.  A sum that is rounded depends on the     *)
(* order of its terms, that of a hash map in the code.                     *)
(***************************************************************************)
Mean(queue, places) ==
    LET prices == LastByFeeder(queue, places)
    IN  LossyMul(FoldFunction(PriceAdd, NoPrice, prices),
                 1, Cardinality(DOMAIN prices))

(***************************************************************************)
(* from_observations: the sample of a period with no observations is that  *)
(* of the period before.                                                   *)
(***************************************************************************)
NextSample(queue, places, before) ==
    IF places = {} THEN before ELSE Mean(queue, places)

Samples(queue, valid, start, conf) ==
    LET period(i) == Within(queue, valid, start + (i - 1) * conf.sample_period,
                            start + i * conf.sample_period)
        sample[i \in 0 .. conf.samples_number] ==
            IF i = 0 THEN NoPrice
            ELSE NextSample(queue, period(i), sample[i - 1])
    IN  sample

----------------------------------------------------------------------------
(* PriceFeed *)

\* PriceFeed::valid_observations
ValidObservations(queue, since) ==
    {i \in DOMAIN queue : ValidSince(queue[i], since)}

\* mutant: the observations are counted, not the feeders
EnoughObservations(queue, places, conf, total) ==
    Cardinality(places) >= MinFeeders(conf, total)

\* PriceFeed::has_enough_feeders over count_unique_feeders
HasEnoughFeeders(queue, places, conf, total) ==
    Cardinality(FeedersOf(queue, places)) >= MinFeeders(conf, total)

(***************************************************************************)
(* discount * sample + (1 - discount) * average.  A sum rounded to zero    *)
(* panics only when multiplied, as every price computed is sooner or later *)
(* (LegCmd, PriceCollect); it does here already.                           *)
(***************************************************************************)
Discount(conf, average, sample) ==
    LET sum == PriceAdd(PercentOfPrice(conf.discount_factor, sample),
                        PercentOfPrice(HUNDRED - conf.discount_factor, average))
    IN  IF Positive(sum) THEN sum ELSE Panic

\* A step of the moving average, which starts from the first sample priced
NextAverage(conf, average, sample) ==
    IF average = NoPrice THEN sample ELSE Discount(conf, average, sample)

\* The fold of PriceFeed::calc_price
Average(sample, conf) ==
    LET average[i \in 0 .. conf.samples_number] ==
            IF i = 0 THEN NoPrice
            ELSE NextAverage(conf, average[i - 1], sample[i])
    IN  average

\* PriceFeed::calc_price
CalcPrice(queue, conf, at, total) ==
    LET since == FeedValidSince(conf, at)
        valid == ValidObservations(queue, since)
    IN  IF HasEnoughFeeders(queue, valid, conf, total)
        THEN Average(Samples(queue, valid, since, conf), conf)[conf.samples_number]
        ELSE NoPrice

----------------------------------------------------------------------------
(* PriceFeeds: the queues of all pairs *)

\* PriceFeeds::price_of_feed
PriceOfFeed(queues, pair, conf, at, total) ==
    CalcPrice(queues[pair], conf, at, total)

\* PriceFeeds::add_observation, of a price message [pair, price]
AddTo(queues, from, at, msg, since) ==
    [queues EXCEPT ![msg.pair] = AddObservation(@, from, at, msg.price, since)]

\* PriceFeeds::feed
Feed(queues, conf, at, from, msgs) ==
    LET feed[i \in 0 .. Len(msgs)] ==
            IF i = 0 THEN queues
            ELSE AddTo(feed[i - 1], from, at, msgs[i], FeedValidSince(conf, at))
    IN  feed[Len(msgs)]

(***************************************************************************)
(* PriceCollect: one leg more of the path to the base currency.  A pair    *)
(* with no pool cannot be resolved and panics.                             *)
(***************************************************************************)
CollectLeg(acc, leg, queues, pooled, conf, at, total) ==
    LET p == PriceOfFeed(queues, leg, conf, at, total)
    IN  CASE acc \in {NoPrice, Panic} -> acc
          [] leg \notin pooled -> Panic
          [] p = NoPrice -> NoPrice
          [] OTHER -> PriceMul(acc, p)

\* PriceFeeds::price, of the first currency of a path in the last one
PriceAlong(path, queues, pooled, conf, at, total) ==
    LET collect[i \in 1..Len(path)] ==
            IF i = 1 THEN Identity
            ELSE CollectLeg(collect[i - 1], <<path[i - 1], path[i]>>, queues,
                            pooled, conf, at, total)
    IN  collect[Len(path)]

----------------------------------------------------------------------------
(* The feeds of an oracle: its feeders, its configuration and its queues,  *)
(* and the operations on them.                                             *)

\* Feeders::total_registered
TotalRegistered == Cardinality(feeders)

\* At the block time and for the number of feeders registered then
PairPrice(pair) ==
    PriceOfFeed(observations, pair, config, block_time, TotalRegistered)

\* Config::store of 'instantiate'
FeedsInit ==
    /\ block_time = 1
    /\ feeders = {}
    /\ config \in PriceConfigs
    /\ observations = [p \in Pairs |-> <<>>]
    /\ fed = [p \in Pairs |-> {}]
    /\ prolonged = FALSE

\* Feeders::try_register over PriceFeeders::register
RegisterFeeder(account) ==
    /\ account \notin feeders
    /\ feeders' = feeders \cup {account}
    /\ UNCHANGED <<block_time, config, observations, fed, prolonged>>

\* Feeders::try_remove over PriceFeeders::remove
RemoveFeeder(account) ==
    /\ account \in feeders
    /\ feeders' = feeders \ {account}
    /\ UNCHANGED <<block_time, config, observations, fed, prolonged>>

\* SudoMsg::UpdateConfig
UpdateConfig(new) ==
    /\ new # config
    /\ config' = new
    /\ prolonged' = (prolonged \/ FeedValidity(new) > FeedValidity(config))
    /\ UNCHANGED <<block_time, feeders, observations, fed>>

(***************************************************************************)
(* ExecuteMsg::FeedPrices over Feeds::feed_prices: a message is taken if   *)
(* all pairs of it are supported, that is in the swap tree.                *)
(***************************************************************************)
FeedPrices(sender, msgs, supported) ==
    /\ sender \in feeders
    /\ \A i \in DOMAIN msgs : msgs[i].pair \in supported
    /\ observations' = Feed(observations, config, block_time, sender, msgs)
    /\ fed' = [p \in Pairs |-> fed[p] \cup
                 {Observation(sender, block_time, msgs[i].price) :
                     i \in {j \in DOMAIN msgs : msgs[j].pair = p}}]
    /\ UNCHANGED <<block_time, feeders, config, prolonged>>

\* A new block
NextBlock ==
    /\ block_time' = block_time + 1
    /\ UNCHANGED <<feeders, config, observations, fed, prolonged>>

\* All that may happen to the feeds, under whatever swap tree of those pairs
FeedsNext ==
    \/ \E a \in Accounts : RegisterFeeder(a)
    \/ \E a \in Accounts : RemoveFeeder(a)
    \/ \E c \in PriceConfigs : UpdateConfig(c)
    \/ \E a \in Accounts, msgs \in PriceMessages, supported \in SUBSET Pairs :
          FeedPrices(a, msgs, supported)
    \/ NextBlock

FeedsSpec == FeedsInit /\ [][FeedsNext]_feedsVars

----------------------------------------------------------------------------
(* Properties *)

\* The observations of a pair ever made that are valid at the moment
Fresh(pair) ==
    {o \in fed[pair] : ValidSince(o, FeedValidSince(config, block_time))}

Quorum(pair) ==
    LET senders == {o.feeder : o \in Fresh(pair)}
    IN  senders # {} /\ Cardinality(senders) >= MinFeeders(config, TotalRegistered)

(***************************************************************************)
(* A pair has a price exactly while enough feeders have observed it within *)
(* the feed validity, whatever has been dropped from the queue in the      *)
(* meantime by feeds under this and under former configurations.  Only a   *)
(* prolonged validity may find that observations are gone already.         *)
(* (PriceFeed::calc_price, Observations::retain)                           *)
(***************************************************************************)
PricedWhileQuorum ==
    \A pair \in Pairs :
        LET priced == PairPrice(pair) # NoPrice
        IN  (priced => Quorum(pair)) /\ (Quorum(pair) /\ ~prolonged => priced)

\* All valid observations of a pair are moderate
Moderate(pair) ==
    \A o \in Fresh(pair) :
        o.price.amount <= Spread * o.price.quote /\ o.price.quote <= Spread * o.price.amount

\* p is not above q but for what the rounding may have taken off
NotAboveBut(p, q, steps) ==
    p.quote * q.amount * (Precision - steps) <= q.quote * p.amount * Precision

(***************************************************************************)
(* Of moderate observations a price can be computed, unless the discount   *)
(* factor is 100%: no rounding leaves nothing of it.  And it is within the *)
(* range of the valid observations of its pair but for its roundings:      *)
(* neither the mean of a sample, nor repeating the sample over silent      *)
(* periods, nor discounting brings it out, and what the lossy operations   *)
(* lose does not build up beyond 1 / Precision for each of them.           *)
(* (sample.rs, calc_price, lossy_add and trim_down of price/mod.rs)        *)
(***************************************************************************)
PriceWithinObservations ==
    \A pair \in Pairs :
        LET p == PairPrice(pair)
            steps == RoundingSteps(config)
        IN  Moderate(pair) /\ p # NoPrice =>
                IF p = Panic
                  THEN config.discount_factor = HUNDRED
                  ELSE /\ \E o \in Fresh(pair) : NotAboveBut(o.price, p, steps)
                       /\ \E o \in Fresh(pair) : NotAboveBut(p, o.price, steps)
=============================================================================
