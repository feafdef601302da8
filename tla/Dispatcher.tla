----------------------------- MODULE Dispatcher -----------------------------
(***************************************************************************)
(* What both services of alarms have in common: the batch of alarms a      *)
(* dispatch takes from the front of an ordered index, and the dispatcher   *)
(* of platform/packages/platform/src/dispatcher.rs, which schedules one    *)
(* message per alarm, with a reply in any case.                            *)
(***************************************************************************)
EXTENDS Integers, Sequences

CONSTANT Subscribers    \* addresses, as numbers since they are ordered

ASSUME SubscribersAssumption == Subscribers \subseteq Nat

\* None of an Option
None == -1

(***************************************************************************)
(* Iterator::take over an index: in the order of the index, from its front *)
(* on, all selected or as many as allowed.  The order is a set of pairs.   *)
(***************************************************************************)
IsTake(batch, selected, order, max_count) ==
    /\ Len(batch) <= max_count
    /\ \A i, j \in DOMAIN batch : i < j => <<batch[i], batch[j]>> \in order
    /\ \A x \in selected :
           \/ \E i \in DOMAIN batch : batch[i] = x
           \/ /\ Len(batch) = max_count
              /\ \A i \in DOMAIN batch : <<batch[i], x>> \in order

Take(selected, order, max_count) ==
    {batch \in UNION {[1 .. n -> selected] : n \in 0 .. max_count} :
         IsTake(batch, selected, order, max_count)}
=============================================================================
