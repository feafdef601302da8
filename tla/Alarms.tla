------------------------------- MODULE Alarms -------------------------------
(***************************************************************************)
(* The services of alarms at work: contract timealarms, the price alarms   *)
(* of the oracle, and their subscribers.  A dispatch and the messages it   *)
(* sends are one transaction: nothing else happens between them.  A        *)
(* subscriber that fails undoes what it did, and the reply tells the       *)
(* service.  One that succeeds may set its alarms anew in the meantime, as *)
(* a lease does.                                                           *)
(***************************************************************************)
EXTENDS TimeAlarms, PriceAlarms

CONSTANTS
    AlarmTimes,     \* the times that alarms are asked for
    PriceAlarmsSet, \* the price alarms asked for
    PricesSet,      \* the prices that the feeds make, external
    MaxCounts,      \* the max_count of dispatches
    MaxTime         \* bound on the block time

ASSUME AlarmsAssumption ==
    /\ AlarmTimes \subseteq Nat
    /\ PriceAlarmsSet \subseteq [currency : Currencies, below : Prices,
                                  above : Prices \cup {NoPrice}]
    /\ \A alarm \in PriceAlarmsSet : AlarmInvariant(alarm)
    /\ PricesSet \subseteq [Currencies -> Prices \cup {NoPrice}]
    /\ MaxCounts \subseteq Nat \ {0}
    /\ MaxTime \in Nat

VARIABLES
    messages,       \* of the transaction in progress, yet to be handled
    woken,          \* the one the last step has handled
    asked_time,     \* history: what the subscribers have last asked for
    asked_price

timeVars == <<time_alarms, time_in_delivery>>
vars == <<now, prices, messages, woken, asked_time, asked_price, timeVars,
          priceAlarmsVars>>

NoOne == [service |-> "none", to |-> None]

\* Not setting a price alarm
NoneAsked == [currency |-> None, below |-> NoPrice, above |-> NoPrice]

Init ==
    /\ now = SECOND
    /\ prices \in PricesSet
    /\ time_alarms = [s \in Subscribers |-> None]
    /\ time_in_delivery = <<>>
    /\ alarms_below = [s \in Subscribers |-> NoAlarm]
    /\ alarms_above_or_equal = [s \in Subscribers |-> NoAlarm]
    /\ price_in_delivery = <<>>
    /\ messages = <<>>
    /\ woken = NoOne
    /\ asked_time = [s \in Subscribers |-> None]
    /\ asked_price = [s \in Subscribers |-> NoneAsked]

----------------------------------------------------------------------------
(* Setting alarms: of their own accord, or while handling one *)

\* ExecuteMsg::AddAlarm, if there is a time
AddAlarm(subscriber, time) ==
    \/ /\ time = None
       /\ UNCHANGED <<time_alarms, asked_time>>
    \/ /\ time # None
       /\ MayAddTimeAlarm(time)
       /\ time_alarms' = WithTimeAlarm(subscriber, time)
       /\ asked_time' = [asked_time EXCEPT ![subscriber] = time]

\* ExecuteMsg::AddPriceAlarm, if there is an alarm
AddPriceAlarm(subscriber, alarm) ==
    \/ /\ alarm = NoneAsked
       /\ UNCHANGED <<alarms_below, alarms_above_or_equal, asked_price>>
    \/ /\ alarm # NoneAsked
       /\ alarms_below' = WithAlarmBelow(subscriber, alarm)
       /\ alarms_above_or_equal' = WithAlarmAbove(subscriber, alarm)
       /\ asked_price' = [asked_price EXCEPT ![subscriber] = alarm]

SetAlarms(subscriber, time, alarm) ==
    /\ messages = <<>>
    /\ AddAlarm(subscriber, time)
    /\ AddPriceAlarm(subscriber, alarm)
    /\ woken' = NoOne
    /\ UNCHANGED <<now, prices, messages, time_in_delivery, price_in_delivery>>

----------------------------------------------------------------------------
(* Dispatching *)

\* AlarmsDispatcher::send_to
Messages(name, subscribers) ==
    [i \in DOMAIN subscribers |-> [service |-> name, to |-> subscribers[i]]]

\* ExecuteMsg::DispatchAlarms of the timealarms
DispatchTimeAlarms(max_count) ==
    /\ messages = <<>>
    /\ \E batch \in Take(TimeAlarmsSelection, EarlierAlarm, max_count) :
           /\ TryNotifyTimeAlarms(batch)
           /\ messages' = Messages("time", batch)
    /\ woken' = NoOne
    /\ UNCHANGED <<now, prices, priceAlarmsVars, asked_time, asked_price>>

\* ExecuteMsg::DispatchAlarms of the oracle
DispatchPriceAlarms(max_count) ==
    /\ messages = <<>>
    /\ \E batch \in Take(PriceAlarmsSelection, EarlierEntry, max_count) :
           /\ TryNotifyPriceAlarms(batch)
           /\ messages' = Messages("price",
                              [i \in DOMAIN batch |-> batch[i].receiver])
    /\ woken' = NoOne
    /\ UNCHANGED <<now, prices, timeVars, asked_time, asked_price>>

\* The next message of the transaction reaches its subscriber
NextMessage(service) ==
    /\ messages # <<>>
    /\ Head(messages).service = service
    /\ messages' = Tail(messages)
    /\ woken' = Head(messages)

\* The subscriber handles a time alarm, then SubMsgResult::Ok to the reply
DeliverTimeAlarm(time, alarm) ==
    /\ NextMessage("time")
    /\ AddAlarm(Head(messages).to, time)
    /\ AddPriceAlarm(Head(messages).to, alarm)
    /\ TimeAlarmDelivered
    /\ UNCHANGED <<now, prices, price_in_delivery>>

\* The subscriber fails on a time alarm, then SubMsgResult::Err to the reply
FailTimeAlarm ==
    /\ NextMessage("time")
    /\ TimeAlarmFailed
    /\ UNCHANGED <<now, prices, priceAlarmsVars, asked_time, asked_price>>

\* Likewise for a price alarm
DeliverPriceAlarm(time, alarm) ==
    /\ NextMessage("price")
    /\ AddAlarm(Head(messages).to, time)
    /\ AddPriceAlarm(Head(messages).to, alarm)
    /\ PriceAlarmDelivered
    /\ UNCHANGED <<now, prices, time_in_delivery>>

FailPriceAlarm ==
    /\ NextMessage("price")
    /\ PriceAlarmFailed
    /\ UNCHANGED <<now, prices, timeVars, asked_time, asked_price>>

----------------------------------------------------------------------------
(* The environment, external *)

\* The next block; at least a unit of time passes
Tick ==
    /\ messages = <<>>
    /\ now < MaxTime
    /\ now' = now + 1
    /\ woken' = NoOne
    /\ UNCHANGED <<prices, messages, timeVars, priceAlarmsVars, asked_time,
                   asked_price>>

\* New feeds, or feeds that expire
PricesMove ==
    /\ messages = <<>>
    /\ prices' \in PricesSet
    /\ woken' = NoOne
    /\ UNCHANGED <<now, messages, timeVars, priceAlarmsVars, asked_time,
                   asked_price>>

Times == AlarmTimes \cup {None}

Asks == PriceAlarmsSet \cup {NoneAsked}

Deliver ==
    \/ \E time \in Times, alarm \in Asks :
           DeliverTimeAlarm(time, alarm) \/ DeliverPriceAlarm(time, alarm)
    \/ FailTimeAlarm
    \/ FailPriceAlarm

DispatchTime == \E max_count \in MaxCounts : DispatchTimeAlarms(max_count)

Next ==
    \/ \E s \in Subscribers, time \in Times, alarm \in Asks :
           SetAlarms(s, time, alarm)
    \/ DispatchTime
    \/ \E max_count \in MaxCounts : DispatchPriceAlarms(max_count)
    \/ Deliver
    \/ Tick
    \/ PricesMove

Spec == Init /\ [][Next]_vars

(***************************************************************************)
(* A transaction goes through.  The off-chain dispatcher keeps asking the  *)
(* timealarms to dispatch and blocks keep coming, in spite of the other    *)
(* transactions that come in between: strong fairness, since each of them  *)
(* makes the two wait for its end.                                         *)
(***************************************************************************)
FairSpec == Spec /\ WF_vars(Deliver) /\ SF_vars(DispatchTime) /\ SF_vars(Tick)

----------------------------------------------------------------------------
(* Properties *)

PriceLt(p, q) == ~PriceLe(q, p)

StoredAlarms == [currency : Currencies, price : Nat]

TypeOK ==
    /\ now \in Nat
    /\ prices \in PricesSet
    /\ time_alarms \in [Subscribers -> Nat \cup {None}]
    /\ time_in_delivery \in Seq(Subscribers)
    /\ alarms_below \in [Subscribers -> StoredAlarms \cup {NoAlarm}]
    /\ alarms_above_or_equal \in [Subscribers -> StoredAlarms \cup {NoAlarm}]
    /\ price_in_delivery \in Seq([subscriber : Subscribers, below : StoredAlarms,
                                  above : StoredAlarms \cup {NoAlarm}])
    /\ messages \in Seq([service : {"time", "price"}, to : Subscribers])
    /\ asked_time \in [Subscribers -> Times]
    /\ asked_price \in [Subscribers -> Asks]

(***************************************************************************)
(* The queue of each service holds what the messages yet to be handled are *)
(* about, in their order.  So a reply never meets an empty queue, nor the  *)
(* alarm of somebody else, and a dispatch never meets a queue left by an   *)
(* earlier one, on which ensure_no_in_delivery would stop it for good.     *)
(***************************************************************************)
RepliesMeetAlarms ==
    /\ time_in_delivery =
           IF messages # <<>> /\ Head(messages).service = "time"
           THEN [i \in DOMAIN messages |-> messages[i].to] ELSE <<>>
    /\ [i \in DOMAIN price_in_delivery |-> price_in_delivery[i].subscriber] =
           IF messages # <<>> /\ Head(messages).service = "price"
           THEN [i \in DOMAIN messages |-> messages[i].to] ELSE <<>>

(***************************************************************************)
(* The debug assertion assert_unique_subscribers of try_notify_alarms: no  *)
(* subscriber is selected both for its alarm below and for the one above,  *)
(* by whatever order its alarms were set and replaced; and a selected one  *)
(* has the alarm below that out_for_delivery loads.                        *)
(***************************************************************************)
UniqueSubscribers ==
    \A x, y \in PriceAlarmsSelection :
        /\ alarms_below[x.receiver] # NoAlarm
        /\ x.receiver = y.receiver => x = y

\* The alarm is crossed by at least a unit of the normalized prices
WellBelow(p, below) ==
    NORM_SCALE * (p.amount * below.quote - below.amount * p.quote)
        >= p.quote * below.quote

(***************************************************************************)
(* No rounding of the normalized prices hides an alarm that is crossed:    *)
(* one above or equal is selected at its very price, one below at the      *)
(* latest when the price is lower by a unit of the inverse.                *)
(***************************************************************************)
CrossedIsSelected ==
    \A s \in Subscribers :
        LET alarm == asked_price[s]
            p     == prices[alarm.currency]
        IN  /\ alarms_below[s] # NoAlarm
            /\ p # NoPrice
            /\ \/ WellBelow(p, alarm.below)
               \/ alarm.above # NoPrice /\ PriceLe(alarm.above, p)
            => \E x \in PriceAlarmsSelection : x.receiver = s

TimeArmed ==
    {s \in Subscribers : \/ time_alarms[s] # None
                         \/ \E i \in DOMAIN time_in_delivery :
                                time_in_delivery[i] = s}

TimeDue == {s \in Subscribers : asked_time[s] <= now}

TimeWoken == {s \in Subscribers : woken = [service |-> "time", to |-> s]}

TimeService == INSTANCE AlarmService WITH
    armed <- TimeArmed, due <- TimeDue, woken <- TimeWoken

(***************************************************************************)
(* Contract timealarms is a service of alarms: no alarm is lost to a       *)
(* failure or to a batch, none is delivered before the time it was set     *)
(* for, although the service counts in whole seconds.                      *)
(***************************************************************************)
TimeAlarmsServe == TimeService!Spec

(***************************************************************************)
(* A price crosses the alarm below if it is lower.  It crosses the one     *)
(* above if it is not lower, or is the same one once normalized.           *)
(***************************************************************************)
Crossed(alarm) ==
    LET p == prices[alarm.currency]
    IN  /\ p # NoPrice
        /\ \/ PriceLt(p, alarm.below)
           \/ /\ alarm.above # NoPrice
              /\ \/ PriceLe(alarm.above, p)
                 \/ Normalized(alarm.currency, alarm.above)
                        = Normalized(alarm.currency, p)

PriceArmed ==
    {s \in Subscribers : \/ alarms_below[s] # NoAlarm
                         \/ \E i \in DOMAIN price_in_delivery :
                                price_in_delivery[i].subscriber = s}

PriceDue ==
    {s \in Subscribers : asked_price[s] # NoneAsked /\ Crossed(asked_price[s])}

PriceWoken == {s \in Subscribers : woken = [service |-> "price", to |-> s]}

PriceService == INSTANCE AlarmService WITH
    armed <- PriceArmed, due <- PriceDue, woken <- PriceWoken

(***************************************************************************)
(* The price alarms of the oracle are a service of alarms: the pair of     *)
(* alarms of a subscriber is not lost, and is delivered only at a price    *)
(* that crosses one of the two as the subscriber has set them.             *)
(***************************************************************************)
PriceAlarmsServe == PriceService!Spec

(***************************************************************************)
(* No time alarm starves: whoever fails, and whatever the count of alarms  *)
(* per dispatch, an alarm is eventually out for delivery or replaced.      *)
(* Those of the last two seconds before MaxTime do not count, since at the *)
(* bound there is no later second that the failed ones would be put in.    *)
(***************************************************************************)
NoTimeAlarmStarves ==
    \A s \in Subscribers, second \in 0 .. AsSeconds(MaxTime) - 2 :
        time_alarms[s] = second ~> time_alarms[s] # second
=============================================================================
