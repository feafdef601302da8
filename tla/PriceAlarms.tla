---------------------------- MODULE PriceAlarms ----------------------------
(***************************************************************************)
(* The price alarms of the oracle: package marketprice, alarms, and the    *)
(* oracle's contract/alarms.  A subscriber has an alarm below a price and  *)
(* may have one above or equal to another of the same currency.  They are  *)
(* kept by the inverse of the price, scaled to an integer, so a rising     *)
(* price goes down the index.                                              *)
(***************************************************************************)
EXTENDS Dispatcher, Finance

CONSTANTS
    Currencies,         \* numbered in the order of the swap tree
    NORM_SCALE          \* 10^18 in the code

ASSUME PriceAlarmsAssumption ==
    /\ Currencies \subseteq Nat
    /\ NORM_SCALE \in Nat \ {0}

VARIABLES
    prices,                 \* by currency, NoPrice when there is none
    alarms_below,           \* by subscriber, a normalized price or NoAlarm
    alarms_above_or_equal,  \* likewise
    price_in_delivery       \* Deque<AlarmWithSubscriber>

priceAlarmsVars ==
    <<alarms_below, alarms_above_or_equal, price_in_delivery>>

\* Price::invariant_held: neither amount is zero
Prices == [amount : Nat \ {0}, quote : Nat \ {0}]

\* NormalizedPrice::new
Normalized(cur, of) == [currency |-> cur, price |-> Total(NORM_SCALE, Inv(of))]

NoAlarm == [currency |-> None, price |-> None]

\* Alarm::invariant_held; above = NoPrice for None
AlarmInvariant(alarm) ==
    alarm.above # NoPrice => PriceLe(alarm.below, alarm.above)

\* mutant: a price equal to the one of the alarm counts as below it
AlarmsBelowOrEqual(c) ==
    {[currency |-> c, side |-> 0, price |-> alarms_below[s].price, receiver |-> s] :
        s \in {u \in Subscribers :
                  /\ alarms_below[u].currency = c
                  /\ alarms_below[u].price <= Normalized(c, prices[c]).price}}

\* PriceAlarms::iter_below
AlarmsBelow(c) ==
    {[currency |-> c, side |-> 0, price |-> alarms_below[s].price, receiver |-> s] :
        s \in {u \in Subscribers :
                  /\ alarms_below[u].currency = c
                  /\ alarms_below[u].price < Normalized(c, prices[c]).price}}

\* mutant: the lower bound of the range leaves out the price itself
AlarmsAbove(c) ==
    {[currency |-> c, side |-> 1, price |-> alarms_above_or_equal[s].price,
      receiver |-> s] :
        s \in {u \in Subscribers :
                  /\ alarms_above_or_equal[u].currency = c
                  /\ alarms_above_or_equal[u].price > Normalized(c, prices[c]).price}}

\* PriceAlarms::iter_above_or_equal; the bound is of the empty address, which
\* precedes any subscriber with an alarm at the very price
AlarmsAboveOrEqual(c) ==
    {[currency |-> c, side |-> 1, price |-> alarms_above_or_equal[s].price,
      receiver |-> s] :
        s \in {u \in Subscribers :
                  /\ alarms_above_or_equal[u].currency = c
                  /\ alarms_above_or_equal[u].price >= Normalized(c, prices[c]).price}}

\* contract/alarms/iter.rs: a currency with no price is passed over
PriceAlarmsSelection ==
    UNION {AlarmsBelow(c) \cup AlarmsAboveOrEqual(c) :
               c \in {d \in Currencies : prices[d] # NoPrice}}

\* By currency, those below first, then up the index
EarlierEntry ==
    {pair \in PriceAlarmsSelection \X PriceAlarmsSelection :
         LET x == pair[1]
             y == pair[2]
         IN  \/ x.currency < y.currency
             \/ /\ x.currency = y.currency
                /\ \/ x.side < y.side
                   \/ x.side = y.side /\ x.price < y.price
                   \/ x.side = y.side /\ x.price = y.price /\ x.receiver < y.receiver}

\* PriceAlarms::add_alarm
WithAlarmBelow(subscriber, alarm) ==
    [alarms_below EXCEPT ![subscriber] = Normalized(alarm.currency, alarm.below)]

WithAlarmAbove(subscriber, alarm) ==
    [alarms_above_or_equal EXCEPT ![subscriber] =
         IF alarm.above = NoPrice THEN NoAlarm
         ELSE Normalized(alarm.currency, alarm.above)]

(***************************************************************************)
(* Oracle::try_notify_alarms, with PriceAlarms::out_for_delivery on each   *)
(* alarm.  That fails, and the transaction with it, for a subscriber with  *)
(* no alarm below, be it due to an earlier entry of the batch.             *)
(***************************************************************************)
TryNotifyPriceAlarms(batch) ==
    LET sent == {batch[i].receiver : i \in DOMAIN batch}
    IN  /\ price_in_delivery = <<>>
        /\ \A s \in sent : alarms_below[s] # NoAlarm
        /\ \A i, j \in DOMAIN batch :
               batch[i].receiver = batch[j].receiver => i = j
        /\ price_in_delivery' = price_in_delivery \o
               [i \in DOMAIN batch |->
                    [subscriber |-> batch[i].receiver,
                     below |-> alarms_below[batch[i].receiver],
                     above |-> alarms_above_or_equal[batch[i].receiver]]]
        /\ alarms_below' = [s \in Subscribers |->
               IF s \in sent THEN NoAlarm ELSE alarms_below[s]]
        /\ alarms_above_or_equal' = [s \in Subscribers |->
               IF s \in sent THEN NoAlarm ELSE alarms_above_or_equal[s]]

\* PriceAlarms::last_delivered
PriceAlarmDelivered ==
    /\ price_in_delivery # <<>>
    /\ price_in_delivery' = Tail(price_in_delivery)

\* mutant: the alarm is left in the queue
PriceAlarmFailedKept ==
    LET alarm == Head(price_in_delivery)
    IN  /\ price_in_delivery # <<>>
        /\ alarms_below' = [alarms_below EXCEPT ![alarm.subscriber] = alarm.below]
        /\ alarms_above_or_equal' = [alarms_above_or_equal EXCEPT
               ![alarm.subscriber] = IF alarm.above = NoAlarm THEN @ ELSE alarm.above]
        /\ UNCHANGED price_in_delivery

\* PriceAlarms::last_failed: both alarms get back as they were
PriceAlarmFailed ==
    LET alarm == Head(price_in_delivery)
    IN  /\ price_in_delivery # <<>>
        /\ price_in_delivery' = Tail(price_in_delivery)
        /\ alarms_below' = [alarms_below EXCEPT ![alarm.subscriber] = alarm.below]
        /\ alarms_above_or_equal' = [alarms_above_or_equal EXCEPT
               ![alarm.subscriber] = IF alarm.above = NoAlarm THEN @ ELSE alarm.above]
=============================================================================
