----------------------------- MODULE TimeAlarms -----------------------------
(***************************************************************************)
(* The state of contract timealarms and the operations on it, package      *)
(* time-oracle.  A subscriber has at most one alarm, kept in whole         *)
(* seconds.  An alarm out for delivery leaves the index and waits in a     *)
(* queue for the reply to its message.                                     *)
(***************************************************************************)
EXTENDS Dispatcher

CONSTANT SECOND         \* the units of time, nanoseconds, in a second

ASSUME TimeAlarmsAssumption == SECOND \in Nat \ {0}

VARIABLES
    now,                \* the block time
    time_alarms,        \* by subscriber, seconds or None
    time_in_delivery    \* Deque<Addr>

\* Timestamp::seconds
AsSeconds(time) == time \div SECOND

\* mutant: alarms of the present second are selected, too
TimeAlarmsSelectionNow ==
    {s \in Subscribers : /\ time_alarms[s] # None
                         /\ time_alarms[s] <= AsSeconds(now)}

(***************************************************************************)
(* Alarms::alarms_selection.  The inclusive bound is of the empty address, *)
(* which precedes any subscriber with an alarm at the present second.      *)
(***************************************************************************)
TimeAlarmsSelection ==
    {s \in Subscribers : /\ time_alarms[s] # None
                         /\ time_alarms[s] < AsSeconds(now)}

\* The order of the index, over those with an alarm
EarlierAlarm ==
    {pair \in Subscribers \X Subscribers :
         \/ time_alarms[pair[1]] < time_alarms[pair[2]]
         \/ time_alarms[pair[1]] = time_alarms[pair[2]] /\ pair[1] < pair[2]}

\* TimeAlarms::try_add refuses a time in the past
MayAddTimeAlarm(time) == time >= now

\* Alarms::add
WithTimeAlarm(subscriber, time) ==
    [time_alarms EXCEPT ![subscriber] = AsSeconds(time)]

\* TimeAlarms::try_notify, with Alarms::out_for_delivery on each alarm
TryNotifyTimeAlarms(batch) ==
    /\ time_in_delivery = <<>>
    /\ time_alarms' = [s \in Subscribers |->
                           IF \E i \in DOMAIN batch : batch[i] = s THEN None
                           ELSE time_alarms[s]]
    /\ time_in_delivery' = time_in_delivery \o batch

\* Alarms::last_delivered
TimeAlarmDelivered ==
    /\ time_in_delivery # <<>>
    /\ time_in_delivery' = Tail(time_in_delivery)

\* mutant: a failed alarm gets back to the front of the index
TimeAlarmFailedFirst ==
    /\ time_in_delivery # <<>>
    /\ time_in_delivery' = Tail(time_in_delivery)
    /\ time_alarms' = [time_alarms EXCEPT ![Head(time_in_delivery)] = 0]

\* Alarms::last_failed: due again in this very second, behind the older ones
TimeAlarmFailed ==
    /\ time_in_delivery # <<>>
    /\ time_in_delivery' = Tail(time_in_delivery)
    /\ time_alarms' = [time_alarms EXCEPT
                           ![Head(time_in_delivery)] = AsSeconds(now) - 1]
=============================================================================
