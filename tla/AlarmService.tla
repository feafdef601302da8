---------------------------- MODULE AlarmService ----------------------------
(***************************************************************************)
(* What a service of alarms promises its subscribers, whatever the alarms  *)
(* are about: an alarm is armed until its subscriber handles it with       *)
(* success, a subscriber is woken up only if its alarm is due, and one at  *)
(* a time.  Modules TimeAlarms and PriceAlarms implement it, as composed   *)
(* in module Alarms.                                                       *)
(***************************************************************************)
CONSTANT Subscribers

VARIABLES
    armed,      \* the subscribers with an alarm
    due,        \* those whose alarm is due, as time and prices go
    woken       \* the subscriber that the last step has woken up, if any

Init ==
    /\ armed = {}
    /\ woken = {}

\* A subscriber sets its alarm, in place of the one it may have
Arm(s) ==
    /\ armed' = armed \cup {s}
    /\ woken' = {}

\* The subscriber may fail, or may set another alarm, and remains armed then
Wake(s) ==
    /\ s \in armed
    /\ s \in due
    /\ armed' \in {armed, armed \ {s}}
    /\ woken' = {s}

\* The service works on something else
Rest ==
    /\ armed' = armed
    /\ woken' = {}

Next == Rest \/ \E s \in Subscribers : Arm(s) \/ Wake(s)

Spec == Init /\ [][Next]_<<armed, woken>>
=============================================================================
