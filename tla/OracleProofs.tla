---------------------------- MODULE OracleProofs ----------------------------
(***************************************************************************)
(* Proofs about the oracles.  The services of alarms, for any subscribers, *)
(* alarms and prices: a reply meets the alarm it is about, a subscriber is *)
(* notified once per dispatch, and both services implement module          *)
(* AlarmService.  The price feeds, for any feeders, configurations and     *)
(* observations: a pair has a price exactly while it has a quorum, and the *)
(* price is within the range of the valid observations but for what its    *)
(* roundings take off it, and can be computed unless fully discounted.     *)
(***************************************************************************)
EXTENDS Alarms, PriceFeeds, FinanceProofs, SequenceTheorems

----------------------------------------------------------------------------
(* The inductive invariant *)

\* The messages are of one service, go to different subscribers, and are the
\* ones that the queue of the service holds
QueueInv ==
    /\ \A i \in 1 .. Len(messages) : messages[i].service = messages[1].service
    /\ \A i, j \in 1 .. Len(messages) : messages[i].to = messages[j].to => i = j
    /\ Len(time_in_delivery) =
           IF Len(messages) # 0 /\ messages[1].service = "time"
           THEN Len(messages) ELSE 0
    /\ Len(price_in_delivery) =
           IF Len(messages) # 0 /\ messages[1].service = "price"
           THEN Len(messages) ELSE 0
    /\ \A i \in 1 .. Len(time_in_delivery) : time_in_delivery[i] = messages[i].to
    /\ \A i \in 1 .. Len(price_in_delivery) :
           price_in_delivery[i].subscriber = messages[i].to

\* An alarm is kept at the second asked for, or a later one that has passed,
\* and is out for delivery past the second asked for
TimeInv ==
    /\ \A s \in Subscribers :
           time_alarms[s] # None =>
               asked_time[s] # None /\ AsSeconds(asked_time[s]) <= time_alarms[s]
    /\ \A i \in 1 .. Len(time_in_delivery) :
           /\ asked_time[time_in_delivery[i]] # None
           /\ AsSeconds(asked_time[time_in_delivery[i]]) < AsSeconds(now)

\* What is stored of the alarm that a subscriber has asked for
Keeps(s, below, above) ==
    /\ asked_price[s] \in PriceAlarmsSet
    /\ below = Normalized(asked_price[s].currency, asked_price[s].below)
    /\ above = IF asked_price[s].above = NoPrice THEN NoAlarm
               ELSE Normalized(asked_price[s].currency, asked_price[s].above)

\* The alarms of a subscriber are the ones it has asked for, and either kept
\* or out for delivery at a price that crosses one of them
PriceInv ==
    /\ \A s \in Subscribers :
           IF alarms_below[s] = NoAlarm THEN alarms_above_or_equal[s] = NoAlarm
           ELSE Keeps(s, alarms_below[s], alarms_above_or_equal[s])
    /\ \A i \in 1 .. Len(price_in_delivery) :
           /\ alarms_below[price_in_delivery[i].subscriber] = NoAlarm
           /\ Keeps(price_in_delivery[i].subscriber, price_in_delivery[i].below,
                    price_in_delivery[i].above)
           /\ Crossed(asked_price[price_in_delivery[i].subscriber])

AlarmsInv == TypeOK /\ QueueInv /\ TimeInv /\ PriceInv

----------------------------------------------------------------------------
(* Sequences and arithmetic *)

(***************************************************************************)
(* The head and the tail of a sequence by their elements.                  *)
(***************************************************************************)
LEMMA TailElements ==
    ASSUME NEW S, NEW q \in Seq(S), Len(q) # 0
    PROVE  /\ q # <<>>
           /\ Head(q) = q[1] /\ q[1] \in S
           /\ Tail(q) \in Seq(S)
           /\ Len(Tail(q)) = Len(q) - 1
           /\ \A i \in 1 .. Len(q) - 1 : Tail(q)[i] = q[i + 1]
<1>1. q # <<>>
  BY EmptySeq
<1> QED
  BY <1>1, HeadTailProperties, LenProperties

(***************************************************************************)
(* A sequence is empty exactly if its length is zero.                      *)
(***************************************************************************)
LEMMA EmptyLen ==
    ASSUME NEW S, NEW q \in Seq(S)
    PROVE  q = <<>> <=> Len(q) = 0
BY EmptySeq

(***************************************************************************)
(* A batch is a sequence of selected alarms in the order of the index.     *)
(***************************************************************************)
LEMMA BatchIsSeq ==
    ASSUME NEW selected, NEW order, NEW max_count \in Nat,
           NEW batch \in Take(selected, order, max_count)
    PROVE  /\ batch \in Seq(selected)
           /\ Len(batch) \in Nat
           /\ DOMAIN batch = 1 .. Len(batch)
           /\ \A i \in 1 .. Len(batch) : batch[i] \in selected
           /\ \A i, j \in 1 .. Len(batch) :
                  i < j => <<batch[i], batch[j]>> \in order
<1>1. PICK n \in 0 .. max_count : batch \in [1 .. n -> selected]
  BY DEF Take
<1>2. batch \in Seq(selected)
  BY <1>1, SeqDef
<1>3. /\ Len(batch) \in Nat
      /\ DOMAIN batch = 1 .. Len(batch)
      /\ \A i \in 1 .. Len(batch) : batch[i] \in selected
  BY <1>2, LenProperties
<1>4. IsTake(batch, selected, order, max_count)
  BY DEF Take
<1> QED
  BY <1>2, <1>3, <1>4 DEF IsTake

(***************************************************************************)
(* Seconds are naturals, and an earlier second is an earlier time.         *)
(***************************************************************************)
LEMMA Seconds ==
    ASSUME NEW a \in Nat, NEW b \in Nat
    PROVE  /\ AsSeconds(a) \in Nat
           /\ AsSeconds(a) < AsSeconds(b) => a < b
<1>1. SECOND \in Nat /\ SECOND > 0
  BY TimeAlarmsAssumption
<1>2. a \div SECOND \in Nat /\ b \div SECOND \in Nat
  BY <1>1
<1>3. b <= a => b \div SECOND <= a \div SECOND
  BY <1>1
<1> QED
  BY <1>2, <1>3 DEF AsSeconds

(***************************************************************************)
(* Normalized prices are naturals and go down as the prices go up.         *)
(***************************************************************************)
LEMMA NormalizedAntitone ==
    ASSUME NEW c \in Currencies, NEW p \in Prices, NEW q \in Prices
    PROVE  /\ Normalized(c, p) \in StoredAlarms
           /\ Normalized(c, p).currency = c
           /\ PriceLe(p, q) => Normalized(c, q).price <= Normalized(c, p).price
<1> DEFINE pa == p.amount
           pq == p.quote
           qa == q.amount
           qq == q.quote
           N  == NORM_SCALE
<1>1. /\ pa \in Nat /\ pq \in Nat /\ qa \in Nat /\ qq \in Nat /\ N \in Nat
      /\ pq > 0 /\ qq > 0
  BY PriceAlarmsAssumption DEF Prices
<1>2. /\ Normalized(c, p) = [currency |-> c, price |-> (pa * N) \div pq]
      /\ Normalized(c, q) = [currency |-> c, price |-> (qa * N) \div qq]
  BY DEF Normalized, Total, Inv, Price, SafeMul
<1> DEFINE x == (pa * N) \div pq
           y == (qa * N) \div qq
<1> HIDE DEF pa, pq, qa, qq, N
<1>3. pa * N \in Nat /\ qa * N \in Nat
  BY <1>1
<1>4. /\ x \in Nat /\ y \in Nat
      /\ pa * N < x * pq + pq
      /\ y * qq <= qa * N
  BY <1>1, <1>3
<1> HIDE DEF x, y
<1>5. ASSUME pq * qa <= qq * pa, y > x
      PROVE  FALSE
  <2>1. y >= x + 1
    BY <1>4, <1>5
  <2>2. (x + 1) * qq <= y * qq
    BY <2>1, <1>1, <1>4
  <2>3. (x + 1) * qq <= qa * N
    BY <2>2, <1>1, <1>3, <1>4
  <2>4. ((x + 1) * qq) * pq <= (qa * N) * pq
    BY <2>3, <1>1, <1>3, <1>4
  <2>5. (qa * N) * pq = (pq * qa) * N
    BY <1>1
  <2>6. (pq * qa) * N <= (qq * pa) * N
    BY <1>1, <1>5
  <2>7. (qq * pa) * N = (pa * N) * qq
    BY <1>1
  <2>8. (pa * N) * qq < (x * pq + pq) * qq
    BY <1>1, <1>3, <1>4
  <2>9. (x * pq + pq) * qq = ((x + 1) * qq) * pq
    BY <1>1, <1>4
  <2>10. /\ ((x + 1) * qq) * pq \in Int /\ (qa * N) * pq \in Int
         /\ (pq * qa) * N \in Int /\ (qq * pa) * N \in Int
         /\ (pa * N) * qq \in Int /\ (x * pq + pq) * qq \in Int
    BY <1>1, <1>4
  <2> QED
    BY <2>4, <2>5, <2>6, <2>7, <2>8, <2>9, <2>10
<1>6. PriceLe(p, q) => y <= x
  BY <1>4, <1>5 DEF PriceLe, pa, pq, qa, qq
<1> QED
  BY <1>2, <1>4, <1>6 DEF x, y, StoredAlarms

----------------------------------------------------------------------------
(* The selection of price alarms *)

(***************************************************************************)
(* What a selected entry says of the alarms of its receiver.               *)
(***************************************************************************)
LEMMA SelectedEntry ==
    ASSUME TypeOK, PriceInv, NEW x \in PriceAlarmsSelection
    PROVE  LET s     == x.receiver
               alarm == asked_price[s]
               p     == prices[alarm.currency]
           IN  /\ s \in Subscribers
               /\ alarms_below[s] # NoAlarm
               /\ Keeps(s, alarms_below[s], alarms_above_or_equal[s])
               /\ p \in Prices
               /\ x.currency = alarm.currency
               /\ \/ /\ x = [currency |-> alarm.currency, side |-> 0,
                             price |-> alarms_below[s].price, receiver |-> s]
                     /\ Normalized(alarm.currency, alarm.below).price
                            < Normalized(alarm.currency, p).price
                  \/ /\ x = [currency |-> alarm.currency, side |-> 1,
                             price |-> alarms_above_or_equal[s].price, receiver |-> s]
                     /\ alarm.above # NoPrice
                     /\ Normalized(alarm.currency, alarm.above).price
                            >= Normalized(alarm.currency, p).price
<1>1. PICK c \in Currencies :
          prices[c] # NoPrice /\ x \in AlarmsBelow(c) \cup AlarmsAboveOrEqual(c)
  BY DEF PriceAlarmsSelection
<1>2. c # None /\ NoAlarm.currency = None
  BY PriceAlarmsAssumption DEF None, NoAlarm
<1>3. prices[c] \in Prices
  BY <1>1, AlarmsAssumption DEF TypeOK
<1>4. \A s \in Subscribers :
          Keeps(s, alarms_below[s], alarms_above_or_equal[s]) =>
              /\ asked_price[s].currency \in Currencies
              /\ alarms_below[s].currency = asked_price[s].currency
              /\ alarms_above_or_equal[s] # NoAlarm =>
                     /\ asked_price[s].above # NoPrice
                     /\ alarms_above_or_equal[s].currency = asked_price[s].currency
  BY AlarmsAssumption DEF Keeps, Normalized
<1>5. CASE x \in AlarmsBelow(c)
  <2>1. PICK s \in Subscribers :
            /\ alarms_below[s].currency = c
            /\ alarms_below[s].price < Normalized(c, prices[c]).price
            /\ x = [currency |-> c, side |-> 0, price |-> alarms_below[s].price,
                    receiver |-> s]
    BY <1>5 DEF AlarmsBelow
  <2>2. alarms_below[s] # NoAlarm
    BY <2>1, <1>2
  <2>3. Keeps(s, alarms_below[s], alarms_above_or_equal[s])
    BY <2>2 DEF PriceInv
  <2>4. asked_price[s].currency = c
    BY <2>1, <2>3, <1>4
  <2>5. alarms_below[s] = Normalized(c, asked_price[s].below)
    BY <2>3, <2>4 DEF Keeps
  <2>6. x.receiver = s /\ x.currency = c
    BY <2>1
  <2> QED
    BY <2>1, <2>2, <2>3, <2>4, <2>5, <2>6, <1>3
<1>6. CASE x \in AlarmsAboveOrEqual(c)
  <2>1. PICK s \in Subscribers :
            /\ alarms_above_or_equal[s].currency = c
            /\ alarms_above_or_equal[s].price >= Normalized(c, prices[c]).price
            /\ x = [currency |-> c, side |-> 1,
                    price |-> alarms_above_or_equal[s].price, receiver |-> s]
    BY <1>6 DEF AlarmsAboveOrEqual
  <2>2. alarms_above_or_equal[s] # NoAlarm
    BY <2>1, <1>2
  <2>3. /\ alarms_below[s] # NoAlarm
        /\ Keeps(s, alarms_below[s], alarms_above_or_equal[s])
    BY <2>2 DEF PriceInv
  <2>4. asked_price[s].currency = c /\ asked_price[s].above # NoPrice
    BY <2>1, <2>2, <2>3, <1>4
  <2>5. alarms_above_or_equal[s] = Normalized(c, asked_price[s].above)
    BY <2>3, <2>4 DEF Keeps
  <2>6. x.receiver = s /\ x.currency = c
    BY <2>1
  <2> QED
    BY <2>1, <2>3, <2>4, <2>5, <2>6, <1>3
<1> QED
  BY <1>1, <1>5, <1>6

(***************************************************************************)
(* An alarm is selected only if it is crossed.                             *)
(***************************************************************************)
LEMMA SelectedIsCrossed ==
    ASSUME TypeOK, PriceInv, NEW x \in PriceAlarmsSelection
    PROVE  Crossed(asked_price[x.receiver])
<1> DEFINE s     == x.receiver
           alarm == asked_price[s]
           c     == alarm.currency
           p     == prices[c]
<1>1. /\ alarm \in PriceAlarmsSet
      /\ p \in Prices
      /\ \/ Normalized(c, alarm.below).price < Normalized(c, p).price
         \/ /\ alarm.above # NoPrice
            /\ Normalized(c, alarm.above).price >= Normalized(c, p).price
  BY SelectedEntry DEF Keeps
<1>2. /\ c \in Currencies
      /\ alarm.below \in Prices
      /\ alarm.above # NoPrice => alarm.above \in Prices
  BY <1>1, AlarmsAssumption
<1>3. p # NoPrice
  BY <1>1 DEF Prices, NoPrice, Price
<1>4. CASE Normalized(c, alarm.below).price < Normalized(c, p).price
  <2>1. Normalized(c, alarm.below).price \in Nat /\ Normalized(c, p).price \in Nat
    BY <1>1, <1>2, NormalizedAntitone DEF StoredAlarms
  <2>2. ~PriceLe(alarm.below, p)
    BY <1>1, <1>2, <1>4, <2>1, NormalizedAntitone
  <2> QED
    BY <1>3, <2>2 DEF Crossed, PriceLt
<1>5. CASE /\ alarm.above # NoPrice
           /\ Normalized(c, alarm.above).price >= Normalized(c, p).price
  <2> DEFINE a == alarm.above
  <2>1. a \in Prices
    BY <1>2, <1>5
  <2>2. PriceLe(a, p) \/ PriceLe(p, a)
    <3>1. /\ p.amount \in Nat /\ p.quote \in Nat
          /\ a.amount \in Nat /\ a.quote \in Nat
      BY <1>1, <2>1 DEF Prices
    <3>2. p.quote * a.amount \in Nat /\ a.quote * p.amount \in Nat
      BY <3>1
    <3> QED
      BY <3>2 DEF PriceLe
  <2>3. PriceLe(p, a) => Normalized(c, a) = Normalized(c, p)
    <3>1. SUFFICES ASSUME PriceLe(p, a) PROVE Normalized(c, a) = Normalized(c, p)
      OBVIOUS
    <3>2. /\ Normalized(c, a) \in StoredAlarms /\ Normalized(c, p) \in StoredAlarms
          /\ Normalized(c, a).price <= Normalized(c, p).price
      BY <3>1, <1>1, <1>2, <2>1, NormalizedAntitone
    <3>3. Normalized(c, a).price = Normalized(c, p).price
      BY <3>2, <1>5 DEF StoredAlarms
    <3> QED
      BY <3>3 DEF Normalized
  <2> QED
    BY <1>3, <1>5, <2>2, <2>3 DEF Crossed
<1> QED
  BY <1>1, <1>4, <1>5

(***************************************************************************)
(* The assertion assert_unique_subscribers.                                *)
(***************************************************************************)
LEMMA SelectedOnce ==
    ASSUME TypeOK, PriceInv
    PROVE  UniqueSubscribers
<1> SUFFICES ASSUME NEW x \in PriceAlarmsSelection, NEW y \in PriceAlarmsSelection,
                    x.receiver = y.receiver
             PROVE  x = y
  BY SelectedEntry DEF UniqueSubscribers
<1> DEFINE s     == x.receiver
           alarm == asked_price[s]
           c     == alarm.currency
           p     == prices[c]
           low   == Normalized(c, alarm.below).price
           high  == Normalized(c, alarm.above).price
           at    == Normalized(c, p).price
<1>1. /\ alarm \in PriceAlarmsSet
      /\ p \in Prices
  BY SelectedEntry DEF Keeps
<1>2. ~(alarm.above # NoPrice /\ low < at /\ high >= at)
  <2> SUFFICES ASSUME alarm.above # NoPrice, low < at, high >= at PROVE FALSE
    OBVIOUS
  <2>1. /\ c \in Currencies /\ alarm.below \in Prices /\ alarm.above \in Prices
        /\ AlarmInvariant(alarm)
    BY <1>1, AlarmsAssumption
  <2>2. PriceLe(alarm.below, alarm.above)
    BY <2>1 DEF AlarmInvariant
  <2>3. high <= low /\ high \in Nat /\ low \in Nat /\ at \in Nat
    BY <1>1, <2>1, <2>2, NormalizedAntitone DEF StoredAlarms
  <2> QED
    BY <2>3
<1>3. \/ /\ x = [currency |-> c, side |-> 0, price |-> alarms_below[s].price,
                 receiver |-> s]
         /\ low < at
      \/ /\ x = [currency |-> c, side |-> 1,
                 price |-> alarms_above_or_equal[s].price, receiver |-> s]
         /\ alarm.above # NoPrice /\ high >= at
  BY SelectedEntry
<1>4. \/ /\ y = [currency |-> c, side |-> 0, price |-> alarms_below[s].price,
                 receiver |-> s]
         /\ low < at
      \/ /\ y = [currency |-> c, side |-> 1,
                 price |-> alarms_above_or_equal[s].price, receiver |-> s]
         /\ alarm.above # NoPrice /\ high >= at
  BY SelectedEntry
<1> QED
  BY <1>2, <1>3, <1>4

----------------------------------------------------------------------------
(* Parts of the actions *)

(***************************************************************************)
(* Setting a time alarm touches the ones of the subscriber only.           *)
(***************************************************************************)
LEMMA AddAlarmPart ==
    ASSUME TypeOK, TimeInv, NEW s \in Subscribers, NEW time \in Times,
           AddAlarm(s, time)
    PROVE  /\ time_alarms' \in [Subscribers -> Nat \cup {None}]
           /\ asked_time' \in [Subscribers -> Times]
           /\ \A u \in Subscribers \ {s} : /\ time_alarms'[u] = time_alarms[u]
                                           /\ asked_time'[u] = asked_time[u]
           /\ \A u \in Subscribers :
                  time_alarms'[u] # None =>
                      /\ asked_time'[u] # None
                      /\ AsSeconds(asked_time'[u]) <= time_alarms'[u]
           /\ \/ time_alarms' = time_alarms
              \/ time_alarms'[s] # None
<1>1. CASE time = None
  BY <1>1 DEF AddAlarm, TypeOK, TimeInv
<1>2. CASE time # None
  <2>1. time \in Nat
    BY <1>2, AlarmsAssumption DEF Times
  <2>2. AsSeconds(time) \in Nat /\ AsSeconds(time) # None
    BY <2>1, Seconds DEF None
  <2>3. /\ time_alarms' = [time_alarms EXCEPT ![s] = AsSeconds(time)]
        /\ asked_time' = [asked_time EXCEPT ![s] = time]
    BY <1>2 DEF AddAlarm, WithTimeAlarm
  <2> QED
    BY <1>2, <2>2, <2>3 DEF TypeOK, TimeInv
<1> QED
  BY <1>1, <1>2

(***************************************************************************)
(* Setting a price alarm stores the alarm asked for, and touches the ones  *)
(* of the subscriber only.                                                 *)
(***************************************************************************)
LEMMA AddPriceAlarmPart ==
    ASSUME TypeOK, PriceInv, NEW s \in Subscribers, NEW alarm \in Asks,
           AddPriceAlarm(s, alarm)
    PROVE  /\ alarms_below' \in [Subscribers -> StoredAlarms \cup {NoAlarm}]
           /\ alarms_above_or_equal' \in [Subscribers -> StoredAlarms \cup {NoAlarm}]
           /\ asked_price' \in [Subscribers -> Asks]
           /\ \A u \in Subscribers \ {s} :
                  /\ alarms_below'[u] = alarms_below[u]
                  /\ alarms_above_or_equal'[u] = alarms_above_or_equal[u]
                  /\ asked_price'[u] = asked_price[u]
           /\ \A u \in Subscribers :
                  IF alarms_below'[u] = NoAlarm
                  THEN alarms_above_or_equal'[u] = NoAlarm
                  ELSE Keeps(u, alarms_below[u], alarms_above_or_equal[u])'
           /\ \/ alarms_below' = alarms_below
              \/ alarms_below'[s] # NoAlarm
<1>1. CASE alarm = NoneAsked
  BY <1>1, AlarmsAssumption DEF AddPriceAlarm, TypeOK, PriceInv, Keeps, NoneAsked,
     NoPrice, Price
<1>2. CASE alarm # NoneAsked
  <2> DEFINE low  == Normalized(alarm.currency, alarm.below)
             high == IF alarm.above = NoPrice THEN NoAlarm
                     ELSE Normalized(alarm.currency, alarm.above)
  <2>1. alarm \in PriceAlarmsSet
    BY <1>2 DEF Asks
  <2>2. /\ alarm.currency \in Currencies /\ alarm.below \in Prices
        /\ alarm.above # NoPrice => alarm.above \in Prices
    BY <2>1, AlarmsAssumption
  <2>3. low \in StoredAlarms /\ high \in StoredAlarms \cup {NoAlarm}
    BY <2>2, NormalizedAntitone
  <2>4. low # NoAlarm
    BY <2>3, PriceAlarmsAssumption DEF StoredAlarms, NoAlarm, None
  <2>5. /\ alarms_below' = [alarms_below EXCEPT ![s] = low]
        /\ alarms_above_or_equal' = [alarms_above_or_equal EXCEPT ![s] = high]
        /\ asked_price' = [asked_price EXCEPT ![s] = alarm]
    BY <1>2 DEF AddPriceAlarm, WithAlarmBelow, WithAlarmAbove
  <2>6. Keeps(s, alarms_below[s], alarms_above_or_equal[s])'
    BY <2>1, <2>5 DEF Keeps, TypeOK
  <2>7. \A u \in Subscribers \ {s} :
            /\ alarms_below'[u] = alarms_below[u]
            /\ alarms_above_or_equal'[u] = alarms_above_or_equal[u]
            /\ asked_price'[u] = asked_price[u]
    BY <2>5 DEF TypeOK
  <2>8. alarms_below'[s] = low
    BY <2>5 DEF TypeOK
  <2> HIDE DEF low, high
  <2>9. \A u \in Subscribers :
            IF alarms_below'[u] = NoAlarm THEN alarms_above_or_equal'[u] = NoAlarm
            ELSE Keeps(u, alarms_below[u], alarms_above_or_equal[u])'
    <3> TAKE u \in Subscribers
    <3>1. CASE u = s
      BY <3>1, <2>4, <2>6, <2>8
    <3>2. CASE u # s
      BY <3>2, <2>7 DEF PriceInv, Keeps
    <3> QED
      BY <3>1, <3>2
  <2>10. /\ alarms_below' \in [Subscribers -> StoredAlarms \cup {NoAlarm}]
         /\ alarms_above_or_equal' \in [Subscribers -> StoredAlarms \cup {NoAlarm}]
    BY <2>3, <2>5 DEF TypeOK
  <2>11. asked_price' \in [Subscribers -> Asks]
    BY <2>5 DEF TypeOK
  <2> QED
    BY <2>4, <2>7, <2>8, <2>9, <2>10, <2>11
<1> QED
  BY <1>1, <1>2

(***************************************************************************)
(* The next message about a time alarm and the head of the queue of those  *)
(* leave together.                                                         *)
(***************************************************************************)
LEMMA NextTimeMessage ==
    ASSUME TypeOK, QueueInv, NextMessage("time"),
           time_in_delivery' = Tail(time_in_delivery),
           price_in_delivery' = price_in_delivery
    PROVE  /\ QueueInv'
           /\ time_in_delivery' \in Seq(Subscribers)
           /\ messages' \in Seq([service : {"time", "price"}, to : Subscribers])
           /\ Len(price_in_delivery) = 0
           /\ Len(time_in_delivery) # 0
           /\ Head(messages).to \in Subscribers
           /\ Head(messages).to = time_in_delivery[1]
           /\ Head(messages).to = Head(time_in_delivery)
           /\ Head(messages) = [service |-> "time", to |-> Head(messages).to]
           /\ Len(time_in_delivery') = Len(time_in_delivery) - 1
           /\ \A i \in 1 .. Len(time_in_delivery') :
                  /\ time_in_delivery'[i] = time_in_delivery[i + 1]
                  /\ time_in_delivery'[i] \in Subscribers
                  /\ time_in_delivery'[i] # Head(messages).to
<1> DEFINE M == [service : {"time", "price"}, to : Subscribers]
<1>1. messages \in Seq(M) /\ Len(messages) # 0 /\ Len(messages) \in Nat
  BY EmptyLen, LenProperties DEF TypeOK, NextMessage
<1>2. /\ Head(messages) = messages[1] /\ messages[1] \in M
      /\ messages' \in Seq(M)
      /\ Len(messages') = Len(messages) - 1
      /\ \A i \in 1 .. Len(messages) - 1 : messages'[i] = messages[i + 1]
  BY <1>1, TailElements DEF NextMessage
<1>3. messages[1].service = "time"
  BY <1>2 DEF NextMessage
<1>4. Len(time_in_delivery) = Len(messages) /\ Len(price_in_delivery) = 0
  BY <1>1, <1>3 DEF QueueInv
<1>5. /\ Head(time_in_delivery) = time_in_delivery[1]
      /\ time_in_delivery' \in Seq(Subscribers)
      /\ Len(time_in_delivery') = Len(time_in_delivery) - 1
      /\ \A i \in 1 .. Len(time_in_delivery) - 1 :
             time_in_delivery'[i] = time_in_delivery[i + 1]
  BY <1>1, <1>4, TailElements DEF TypeOK
<1>6. \A i \in 1 .. Len(time_in_delivery') : time_in_delivery'[i] \in Subscribers
  BY <1>5, LenProperties
<1>7. time_in_delivery[1] = messages[1].to
  BY <1>1, <1>4 DEF QueueInv
<1>8. \A i \in 1 .. Len(time_in_delivery') :
          /\ i + 1 \in 1 .. Len(messages)
          /\ i + 1 # 1
  BY <1>1, <1>4, <1>5
<1>9. \A i \in 1 .. Len(time_in_delivery') :
          time_in_delivery'[i] # messages[1].to
  BY <1>1, <1>4, <1>5, <1>8 DEF QueueInv
<1>10. QueueInv'
  <2>1. \A i \in 1 .. Len(messages') :
            i \in 1 .. Len(messages) - 1 /\ i + 1 \in 1 .. Len(messages)
    BY <1>1, <1>2
  <2>2. \A i \in 1 .. Len(messages') : messages'[i].service = "time"
    BY <2>1, <1>2, <1>3 DEF QueueInv
  <2>3. \A i, j \in 1 .. Len(messages') :
            messages'[i].to = messages'[j].to => i = j
    <3> TAKE i, j \in 1 .. Len(messages')
    <3> HAVE messages'[i].to = messages'[j].to
    <3>1. messages[i + 1].to = messages[j + 1].to
      BY <2>1, <1>2
    <3>2. i + 1 = j + 1
      BY <2>1, <3>1 DEF QueueInv
    <3> QED
      BY <3>2, <1>1, <1>2
  <2>4. Len(messages') # 0 => messages'[1].service = "time"
    BY <2>2, <1>1, <1>2
  <2>5. \A i \in 1 .. Len(time_in_delivery') :
            time_in_delivery'[i] = messages'[i].to
    <3> TAKE i \in 1 .. Len(time_in_delivery')
    <3>1. i \in 1 .. Len(messages) - 1 /\ i + 1 \in 1 .. Len(messages)
      BY <1>1, <1>4, <1>5
    <3> QED
      BY <3>1, <1>2, <1>4, <1>5 DEF QueueInv
  <2>6. \A i \in 1 .. Len(messages') :
            messages'[i].service = messages'[1].service
    BY <2>2, <2>4, <1>1, <1>2
  <2>7. Len(time_in_delivery') = Len(messages') /\ Len(price_in_delivery') = 0
    BY <1>1, <1>2, <1>4, <1>5
  <2> QED
    BY <2>3, <2>4, <2>5, <2>6, <2>7 DEF QueueInv
<1>11. messages[1] = [service |-> "time", to |-> messages[1].to]
  BY <1>2, <1>3
<1> QED
  BY <1>1, <1>2, <1>4, <1>5, <1>6, <1>7, <1>9, <1>10, <1>11

\* The elements of the queue of price alarms
QueuedAlarms == [subscriber : Subscribers, below : StoredAlarms,
                 above : StoredAlarms \cup {NoAlarm}]

(***************************************************************************)
(* The same about price alarms.                                            *)
(***************************************************************************)
LEMMA NextPriceMessage ==
    ASSUME TypeOK, QueueInv, NextMessage("price"),
           price_in_delivery' = Tail(price_in_delivery),
           time_in_delivery' = time_in_delivery
    PROVE  /\ QueueInv'
           /\ price_in_delivery' \in Seq(QueuedAlarms)
           /\ messages' \in Seq([service : {"time", "price"}, to : Subscribers])
           /\ Len(time_in_delivery) = 0
           /\ Len(price_in_delivery) # 0
           /\ Head(messages).to \in Subscribers
           /\ Head(messages).to = price_in_delivery[1].subscriber
           /\ Head(price_in_delivery) = price_in_delivery[1]
           /\ price_in_delivery[1] \in QueuedAlarms
           /\ Head(messages) = [service |-> "price", to |-> Head(messages).to]
           /\ Len(price_in_delivery') = Len(price_in_delivery) - 1
           /\ \A i \in 1 .. Len(price_in_delivery') :
                  /\ price_in_delivery'[i] = price_in_delivery[i + 1]
                  /\ price_in_delivery'[i].subscriber \in Subscribers
                  /\ price_in_delivery'[i].subscriber # Head(messages).to
<1> DEFINE M == [service : {"time", "price"}, to : Subscribers]
<1>1. messages \in Seq(M) /\ Len(messages) # 0 /\ Len(messages) \in Nat
  BY EmptyLen, LenProperties DEF TypeOK, NextMessage
<1>2. /\ Head(messages) = messages[1] /\ messages[1] \in M
      /\ messages' \in Seq(M)
      /\ Len(messages') = Len(messages) - 1
      /\ \A i \in 1 .. Len(messages) - 1 : messages'[i] = messages[i + 1]
  BY <1>1, TailElements DEF NextMessage
<1>3. messages[1].service = "price"
  BY <1>2 DEF NextMessage
<1>4. Len(price_in_delivery) = Len(messages) /\ Len(time_in_delivery) = 0
  BY <1>1, <1>3 DEF QueueInv
<1>5. price_in_delivery \in Seq(QueuedAlarms)
  BY DEF TypeOK, QueuedAlarms
<1>6. /\ Head(price_in_delivery) = price_in_delivery[1]
      /\ price_in_delivery[1] \in QueuedAlarms
      /\ price_in_delivery' \in Seq(QueuedAlarms)
      /\ Len(price_in_delivery') = Len(price_in_delivery) - 1
      /\ \A i \in 1 .. Len(price_in_delivery) - 1 :
             price_in_delivery'[i] = price_in_delivery[i + 1]
  BY <1>1, <1>4, <1>5, TailElements
<1>7. \A i \in 1 .. Len(price_in_delivery') :
          price_in_delivery'[i] \in QueuedAlarms
  BY <1>6, LenProperties
<1>8. price_in_delivery[1].subscriber = messages[1].to
  BY <1>1, <1>4 DEF QueueInv
<1>9. \A i \in 1 .. Len(price_in_delivery') :
          /\ i \in 1 .. Len(messages) - 1
          /\ i + 1 \in 1 .. Len(messages)
          /\ i + 1 # 1
  BY <1>1, <1>4, <1>6
<1>10. \A i \in 1 .. Len(price_in_delivery') :
           price_in_delivery'[i].subscriber # messages[1].to
  BY <1>1, <1>4, <1>6, <1>9 DEF QueueInv
<1>11. QueueInv'
  <2>1. \A i \in 1 .. Len(messages') :
            i \in 1 .. Len(messages) - 1 /\ i + 1 \in 1 .. Len(messages)
    BY <1>1, <1>2
  <2>2. \A i \in 1 .. Len(messages') : messages'[i].service = "price"
    <3>1. \A i \in 1 .. Len(messages) : messages[i].service = messages[1].service
      BY DEF QueueInv
    <3> QED
      BY <3>1, <2>1, <1>2, <1>3
  <2>3. \A i, j \in 1 .. Len(messages') :
            messages'[i].to = messages'[j].to => i = j
    <3> TAKE i, j \in 1 .. Len(messages')
    <3> HAVE messages'[i].to = messages'[j].to
    <3>1. messages[i + 1].to = messages[j + 1].to
      BY <2>1, <1>2
    <3>2. i + 1 = j + 1
      BY <2>1, <3>1 DEF QueueInv
    <3> QED
      BY <3>2, <1>1, <1>2
  <2>4. Len(messages') # 0 => messages'[1].service = "price"
    BY <2>2, <1>1, <1>2
  <2>5. \A i \in 1 .. Len(price_in_delivery') :
            price_in_delivery'[i].subscriber = messages'[i].to
    BY <1>2, <1>4, <1>6, <1>9 DEF QueueInv
  <2>6. \A i \in 1 .. Len(messages') :
            messages'[i].service = messages'[1].service
    BY <2>2, <2>4, <1>1, <1>2
  <2>7. Len(price_in_delivery') = Len(messages') /\ Len(time_in_delivery') = 0
    BY <1>1, <1>2, <1>4, <1>6
  <2>8. Len(price_in_delivery') =
            IF Len(messages') # 0 /\ messages'[1].service = "price"
            THEN Len(messages') ELSE 0
    BY <2>4, <2>7
  <2>9. Len(time_in_delivery') =
            IF Len(messages') # 0 /\ messages'[1].service = "time"
            THEN Len(messages') ELSE 0
    BY <2>4, <2>7
  <2>10. \A i \in 1 .. Len(time_in_delivery') :
             time_in_delivery'[i] = messages'[i].to
    BY <2>7
  <2> QED
    BY <2>3, <2>5, <2>6, <2>8, <2>9, <2>10 DEF QueueInv
<1>12. messages[1] = [service |-> "price", to |-> messages[1].to]
  BY <1>2, <1>3
<1>13. \A i \in 1 .. Len(price_in_delivery') :
           /\ price_in_delivery'[i] = price_in_delivery[i + 1]
           /\ price_in_delivery'[i].subscriber \in Subscribers
  BY <1>4, <1>6, <1>7, <1>9 DEF QueuedAlarms
<1>14. messages[1].to \in Subscribers
  BY <1>2
<1> QED
  BY <1>1, <1>2, <1>4, <1>6, <1>8, <1>10, <1>11, <1>12, <1>13, <1>14

(***************************************************************************)
(* Between transactions nothing is out for delivery.                       *)
(***************************************************************************)
LEMMA NoTransaction ==
    ASSUME TypeOK, QueueInv, messages = <<>>
    PROVE  /\ Len(messages) = 0
           /\ Len(time_in_delivery) = 0 /\ time_in_delivery = <<>>
           /\ Len(price_in_delivery) = 0 /\ price_in_delivery = <<>>
<1>1. Len(messages) = 0
  BY EmptyLen DEF TypeOK
<1>2. Len(time_in_delivery) = 0 /\ Len(price_in_delivery) = 0
  BY <1>1 DEF QueueInv
<1> QED
  BY <1>1, <1>2, EmptyLen DEF TypeOK

(***************************************************************************)
(* The messages of a batch.                                                *)
(***************************************************************************)
LEMMA BatchMessages ==
    ASSUME NEW name \in {"time", "price"}, NEW subscribers \in Seq(Subscribers)
    PROVE  /\ Messages(name, subscribers) \in
                  Seq([service : {"time", "price"}, to : Subscribers])
           /\ Len(Messages(name, subscribers)) = Len(subscribers)
           /\ \A i \in 1 .. Len(subscribers) :
                  /\ Messages(name, subscribers)[i].service = name
                  /\ Messages(name, subscribers)[i].to = subscribers[i]
<1> DEFINE M == [service : {"time", "price"}, to : Subscribers]
           m == Messages(name, subscribers)
<1> HIDE DEF M
<1>1. /\ Len(subscribers) \in Nat
      /\ DOMAIN subscribers = 1 .. Len(subscribers)
      /\ \A i \in 1 .. Len(subscribers) : subscribers[i] \in Subscribers
  BY LenProperties
<1>2. m \in [1 .. Len(subscribers) -> M]
  BY <1>1 DEF Messages, M
<1> HIDE DEF m
<1>3. m \in Seq(M)
  BY <1>1, <1>2, SeqDef
<1>4. Len(m) = Len(subscribers)
  BY <1>1, <1>2, <1>3, LenProperties
<1>5. \A i \in 1 .. Len(subscribers) :
          m[i].service = name /\ m[i].to = subscribers[i]
  BY <1>1 DEF Messages, m
<1> QED
  BY <1>3, <1>4, <1>5 DEF m, M

----------------------------------------------------------------------------
(* The actions: each keeps the invariant and is a step of both services *)

TimeStep == [TimeService!Next]_<<TimeArmed, TimeWoken>>

PriceStep == [PriceService!Next]_<<PriceArmed, PriceWoken>>

(***************************************************************************)
(* Whom a step has woken up.                                               *)
(***************************************************************************)
LEMMA WokenBy ==
    ASSUME NEW s \in Subscribers
    PROVE  /\ woken' = NoOne => TimeWoken' = {} /\ PriceWoken' = {}
           /\ woken' = [service |-> "time", to |-> s] =>
                  TimeWoken' = {s} /\ PriceWoken' = {}
           /\ woken' = [service |-> "price", to |-> s] =>
                  TimeWoken' = {} /\ PriceWoken' = {s}
<1>1. \A u : /\ NoOne # [service |-> "time", to |-> u]
             /\ NoOne # [service |-> "price", to |-> u]
  BY DEF NoOne
<1>2. \A u : /\ [service |-> "time", to |-> s] # [service |-> "price", to |-> u]
             /\ [service |-> "price", to |-> s] # [service |-> "time", to |-> u]
  OBVIOUS
<1>3. \A u : /\ [service |-> "time", to |-> s] = [service |-> "time", to |-> u]
                    => s = u
             /\ [service |-> "price", to |-> s] = [service |-> "price", to |-> u]
                    => s = u
  OBVIOUS
<1> QED
  BY <1>1, <1>2, <1>3, Zenon DEF TimeWoken, PriceWoken

(***************************************************************************)
(* The same when there are no subscribers.                                 *)
(***************************************************************************)
LEMMA NobodyWoken ==
    ASSUME woken' = NoOne
    PROVE  TimeWoken' = {} /\ PriceWoken' = {}
BY DEF TimeWoken, PriceWoken, NoOne

(***************************************************************************)
(* Setting a time alarm and waking up nobody is a step of the service.     *)
(***************************************************************************)
LEMMA TimeArmStep ==
    ASSUME NEW s \in Subscribers, time_in_delivery' = time_in_delivery,
           \A u \in Subscribers \ {s} : time_alarms'[u] = time_alarms[u],
           time_alarms' = time_alarms \/ time_alarms'[s] # None,
           TimeWoken' = {}
    PROVE  TimeStep
<1>1. CASE time_alarms' = time_alarms
  <2>1. TimeArmed' = TimeArmed
    BY <1>1 DEF TimeArmed
  <2> QED
    BY <2>1 DEF TimeStep, TimeService!Next, TimeService!Rest
<1>2. CASE time_alarms'[s] # None
  <2>1. TimeArmed' = TimeArmed \cup {s}
    BY <1>2 DEF TimeArmed
  <2>2. TimeService!Arm(s)
    BY <2>1 DEF TimeService!Arm
  <2> QED
    BY <2>2 DEF TimeStep, TimeService!Next
<1> QED
  BY <1>1, <1>2

(***************************************************************************)
(* So is setting a price alarm.                                            *)
(***************************************************************************)
LEMMA PriceArmStep ==
    ASSUME NEW s \in Subscribers, price_in_delivery' = price_in_delivery,
           \A u \in Subscribers \ {s} : alarms_below'[u] = alarms_below[u],
           alarms_below' = alarms_below \/ alarms_below'[s] # NoAlarm,
           PriceWoken' = {}
    PROVE  PriceStep
<1>1. CASE alarms_below' = alarms_below
  <2>1. PriceArmed' = PriceArmed
    BY <1>1 DEF PriceArmed
  <2> QED
    BY <2>1 DEF PriceStep, PriceService!Next, PriceService!Rest
<1>2. CASE alarms_below'[s] # NoAlarm
  <2>1. PriceArmed' = PriceArmed \cup {s}
    BY <1>2 DEF PriceArmed
  <2>2. PriceService!Arm(s)
    BY <2>1 DEF PriceService!Arm
  <2> QED
    BY <2>2 DEF PriceStep, PriceService!Next
<1> QED
  BY <1>1, <1>2

(***************************************************************************)
(* Setting alarms arms the subscriber in the services it asks.             *)
(***************************************************************************)
LEMMA SetAlarmsStep ==
    ASSUME AlarmsInv, NEW s \in Subscribers, NEW time \in Times, NEW alarm \in Asks,
           SetAlarms(s, time, alarm)
    PROVE  AlarmsInv' /\ TimeStep /\ PriceStep
<1>1. TypeOK /\ QueueInv /\ TimeInv /\ PriceInv
  BY DEF AlarmsInv
<1>2. /\ messages = <<>> /\ AddAlarm(s, time) /\ AddPriceAlarm(s, alarm)
      /\ woken' = NoOne
      /\ now' = now /\ prices' = prices /\ messages' = messages
      /\ time_in_delivery' = time_in_delivery
      /\ price_in_delivery' = price_in_delivery
  BY DEF SetAlarms
<1>3. /\ Len(time_in_delivery) = 0 /\ time_in_delivery = <<>>
      /\ Len(price_in_delivery) = 0 /\ price_in_delivery = <<>>
  BY <1>1, <1>2, NoTransaction
<1>4. /\ time_alarms' \in [Subscribers -> Nat \cup {None}]
      /\ asked_time' \in [Subscribers -> Times]
      /\ \A u \in Subscribers \ {s} : /\ time_alarms'[u] = time_alarms[u]
                                      /\ asked_time'[u] = asked_time[u]
      /\ \A u \in Subscribers :
             time_alarms'[u] # None =>
                 /\ asked_time'[u] # None
                 /\ AsSeconds(asked_time'[u]) <= time_alarms'[u]
      /\ time_alarms' = time_alarms \/ time_alarms'[s] # None
  BY <1>1, <1>2, AddAlarmPart
<1>5. /\ alarms_below' \in [Subscribers -> StoredAlarms \cup {NoAlarm}]
      /\ alarms_above_or_equal' \in [Subscribers -> StoredAlarms \cup {NoAlarm}]
      /\ asked_price' \in [Subscribers -> Asks]
      /\ \A u \in Subscribers \ {s} : alarms_below'[u] = alarms_below[u]
      /\ \A u \in Subscribers :
             IF alarms_below'[u] = NoAlarm
             THEN alarms_above_or_equal'[u] = NoAlarm
             ELSE Keeps(u, alarms_below[u], alarms_above_or_equal[u])'
      /\ alarms_below' = alarms_below \/ alarms_below'[s] # NoAlarm
  BY <1>1, <1>2, AddPriceAlarmPart
<1>6. TypeOK'
  BY <1>1, <1>2, <1>4, <1>5 DEF TypeOK
<1>7. QueueInv'
  BY <1>1, <1>2 DEF QueueInv
<1>8. TimeInv'
  BY <1>2, <1>3, <1>4 DEF TimeInv
<1>9. PriceInv'
  BY <1>2, <1>3, <1>5 DEF PriceInv
<1>10. TimeWoken' = {} /\ PriceWoken' = {}
  BY <1>2, NobodyWoken
<1>11. TimeStep /\ PriceStep
  BY <1>2, <1>4, <1>5, <1>10, TimeArmStep, PriceArmStep
<1> QED
  BY <1>6, <1>7, <1>8, <1>9, <1>11 DEF AlarmsInv

(***************************************************************************)
(* A dispatch of time alarms moves them from the index to the queue.       *)
(***************************************************************************)
LEMMA DispatchTimeAlarmsStep ==
    ASSUME AlarmsInv, NEW max_count \in MaxCounts, DispatchTimeAlarms(max_count)
    PROVE  AlarmsInv' /\ TimeStep /\ PriceStep
<1>1. TypeOK /\ QueueInv /\ TimeInv /\ PriceInv
  BY DEF AlarmsInv
<1>2. PICK batch \in Take(TimeAlarmsSelection, EarlierAlarm, max_count) :
          TryNotifyTimeAlarms(batch) /\ messages' = Messages("time", batch)
  BY DEF DispatchTimeAlarms
<1>3. /\ messages = <<>> /\ woken' = NoOne
      /\ now' = now /\ prices' = prices
      /\ asked_time' = asked_time /\ asked_price' = asked_price
      /\ alarms_below' = alarms_below
      /\ alarms_above_or_equal' = alarms_above_or_equal
      /\ price_in_delivery' = price_in_delivery
  BY DEF DispatchTimeAlarms, priceAlarmsVars
<1>4. /\ time_in_delivery = <<>> /\ Len(time_in_delivery) = 0
      /\ Len(price_in_delivery) = 0
  BY <1>1, <1>3, NoTransaction
<1>5. /\ batch \in Seq(TimeAlarmsSelection)
      /\ Len(batch) \in Nat
      /\ DOMAIN batch = 1 .. Len(batch)
      /\ \A i \in 1 .. Len(batch) : batch[i] \in TimeAlarmsSelection
      /\ \A i, j \in 1 .. Len(batch) : i < j => <<batch[i], batch[j]>> \in EarlierAlarm
  BY <1>2, AlarmsAssumption, BatchIsSeq
<1>6. \A s \in TimeAlarmsSelection :
          /\ s \in Subscribers /\ time_alarms[s] # None
          /\ time_alarms[s] < AsSeconds(now)
  BY DEF TimeAlarmsSelection
<1>7. batch \in Seq(Subscribers)
  <2>1. TimeAlarmsSelection \subseteq Subscribers
    BY <1>6
  <2> QED
    BY <2>1, <1>5, SeqMonotonic
<1>8. time_in_delivery' = batch
  BY <1>2, <1>4, <1>7, ConcatEmptySeq DEF TryNotifyTimeAlarms
<1>9. \A i, j \in 1 .. Len(batch) : batch[i] = batch[j] => i = j
  <2>1. \A s \in Subscribers : <<s, s>> \notin EarlierAlarm
    <3> SUFFICES ASSUME NEW s \in Subscribers, <<s, s>> \in EarlierAlarm PROVE FALSE
      OBVIOUS
    <3>1. time_alarms[s] \in Int /\ s \in Int
      BY <1>1, SubscribersAssumption DEF TypeOK, None
    <3>2. time_alarms[s] < time_alarms[s] \/ s < s
      BY DEF EarlierAlarm
    <3> QED
      BY <3>1, <3>2
  <2>2. \A i \in 1 .. Len(batch) : batch[i] \in Subscribers
    BY <1>5, <1>6
  <2> TAKE i, j \in 1 .. Len(batch)
  <2> HAVE batch[i] = batch[j]
  <2>3. ~(i < j) /\ ~(j < i)
    BY <2>1, <2>2, <1>5
  <2> QED
    BY <2>3, <1>5
<1>10. time_alarms' = [s \in Subscribers |->
                           IF \E i \in 1 .. Len(batch) : batch[i] = s THEN None
                           ELSE time_alarms[s]]
  BY <1>2, <1>5 DEF TryNotifyTimeAlarms
<1>11. /\ messages' \in Seq([service : {"time", "price"}, to : Subscribers])
       /\ Len(messages') = Len(batch)
       /\ \A i \in 1 .. Len(batch) : /\ messages'[i].service = "time"
                                     /\ messages'[i].to = batch[i]
  BY <1>2, <1>7, BatchMessages
<1>12. TypeOK'
  BY <1>1, <1>3, <1>7, <1>8, <1>10, <1>11 DEF TypeOK
<1>13. QueueInv'
  <2>1. Len(batch) # 0 => 1 \in 1 .. Len(batch)
    BY <1>5
  <2>2. Len(batch) # 0 => messages'[1].service = "time"
    BY <2>1, <1>11
  <2>3. \A i \in 1 .. Len(messages') : messages'[i].service = messages'[1].service
    BY <2>2, <1>5, <1>11
  <2>4. \A i, j \in 1 .. Len(messages') : messages'[i].to = messages'[j].to => i = j
    BY <1>9, <1>11
  <2>5. Len(time_in_delivery') = Len(messages') /\ Len(price_in_delivery') = 0
    BY <1>3, <1>4, <1>8, <1>11
  <2>6. Len(time_in_delivery') =
            IF Len(messages') # 0 /\ messages'[1].service = "time"
            THEN Len(messages') ELSE 0
    BY <2>2, <2>5, <1>11
  <2>7. Len(price_in_delivery') =
            IF Len(messages') # 0 /\ messages'[1].service = "price"
            THEN Len(messages') ELSE 0
    BY <2>2, <2>5, <1>11
  <2>8. \A i \in 1 .. Len(time_in_delivery') : time_in_delivery'[i] = messages'[i].to
    BY <1>8, <1>11
  <2>9. \A i \in 1 .. Len(price_in_delivery') :
            price_in_delivery'[i].subscriber = messages'[i].to
    BY <2>5
  <2> QED
    BY <2>3, <2>4, <2>6, <2>7, <2>8, <2>9 DEF QueueInv
<1>14. TimeInv'
  <2>1. \A s \in Subscribers :
            time_alarms'[s] # None =>
                asked_time'[s] # None /\ AsSeconds(asked_time'[s]) <= time_alarms'[s]
    BY <1>1, <1>3, <1>10 DEF TimeInv
  <2>2. \A i \in 1 .. Len(batch) :
            asked_time[batch[i]] # None /\ AsSeconds(asked_time[batch[i]]) < AsSeconds(now)
    <3> TAKE i \in 1 .. Len(batch)
    <3> DEFINE s == batch[i]
    <3>1. /\ s \in Subscribers /\ time_alarms[s] # None
          /\ time_alarms[s] < AsSeconds(now)
      BY <1>5, <1>6
    <3>2. asked_time[s] # None /\ AsSeconds(asked_time[s]) <= time_alarms[s]
      BY <3>1, <1>1 DEF TimeInv
    <3>3. asked_time[s] \in Nat /\ time_alarms[s] \in Nat /\ now \in Nat
      BY <3>1, <3>2, <1>1, AlarmsAssumption DEF TypeOK, Times
    <3>4. AsSeconds(asked_time[s]) \in Nat /\ AsSeconds(now) \in Nat
      BY <3>3, Seconds
    <3> QED
      BY <3>1, <3>2, <3>3, <3>4
  <2>3. AsSeconds(now') = AsSeconds(now)
    BY <1>3
  <2> QED
    BY <2>1, <2>2, <2>3, <1>3, <1>8 DEF TimeInv
<1>15. PriceInv'
  BY <1>1, <1>3, <1>4 DEF PriceInv, Keeps
<1>16. TimeWoken' = {} /\ PriceWoken' = {}
  BY <1>3, NobodyWoken
<1>17. TimeStep
  <2>1. \A s \in Subscribers :
            (\E i \in 1 .. Len(batch) : batch[i] = s) => time_alarms[s] # None
    BY <1>5, <1>6
  <2>2. TimeArmed' = TimeArmed
    BY <2>1, <1>4, <1>5, <1>8, <1>10 DEF TimeArmed
  <2> QED
    BY <2>2, <1>16 DEF TimeStep, TimeService!Next, TimeService!Rest
<1>18. PriceStep
  <2>1. PriceArmed' = PriceArmed
    BY <1>3 DEF PriceArmed
  <2> QED
    BY <2>1, <1>16 DEF PriceStep, PriceService!Next, PriceService!Rest
<1> QED
  BY <1>12, <1>13, <1>14, <1>15, <1>17, <1>18 DEF AlarmsInv

(***************************************************************************)
(* A dispatch of price alarms moves pairs of them to the queue, of those   *)
(* subscribers only that the prices have crossed an alarm of.              *)
(***************************************************************************)
LEMMA DispatchPriceAlarmsStep ==
    ASSUME AlarmsInv, NEW max_count \in MaxCounts, DispatchPriceAlarms(max_count)
    PROVE  AlarmsInv' /\ TimeStep /\ PriceStep
<1>1. TypeOK /\ QueueInv /\ TimeInv /\ PriceInv
  BY DEF AlarmsInv
<1>2. PICK batch \in Take(PriceAlarmsSelection, EarlierEntry, max_count) :
          /\ TryNotifyPriceAlarms(batch)
          /\ messages' = Messages("price", [i \in DOMAIN batch |-> batch[i].receiver])
  BY DEF DispatchPriceAlarms
<1>3. /\ messages = <<>> /\ woken' = NoOne
      /\ now' = now /\ prices' = prices
      /\ asked_time' = asked_time /\ asked_price' = asked_price
      /\ time_alarms' = time_alarms
      /\ time_in_delivery' = time_in_delivery
  BY DEF DispatchPriceAlarms, timeVars
<1>4. /\ price_in_delivery = <<>> /\ Len(price_in_delivery) = 0
      /\ Len(time_in_delivery) = 0
  BY <1>1, <1>3, NoTransaction
<1>5. /\ Len(batch) \in Nat
      /\ DOMAIN batch = 1 .. Len(batch)
      /\ \A i \in 1 .. Len(batch) : batch[i] \in PriceAlarmsSelection
  BY <1>2, AlarmsAssumption, BatchIsSeq
<1> DEFINE n    == Len(batch)
           to   == [i \in 1 .. n |-> batch[i].receiver]
           sent == {batch[i].receiver : i \in 1 .. n}
           pair(i) == [subscriber |-> batch[i].receiver,
                       below |-> alarms_below[batch[i].receiver],
                       above |-> alarms_above_or_equal[batch[i].receiver]]
           out  == [i \in 1 .. n |-> pair(i)]
<1>6. \A i \in 1 .. n :
          /\ to[i] \in Subscribers
          /\ alarms_below[to[i]] # NoAlarm
          /\ Keeps(to[i], alarms_below[to[i]], alarms_above_or_equal[to[i]])
          /\ Crossed(asked_price[to[i]])
  BY <1>1, <1>5, SelectedEntry, SelectedIsCrossed
<1>7. \A i, j \in 1 .. n : to[i] = to[j] => i = j
  BY <1>2, <1>5 DEF TryNotifyPriceAlarms
<1>8. /\ price_in_delivery' = price_in_delivery \o out
      /\ alarms_below' = [s \in Subscribers |->
             IF s \in sent THEN NoAlarm ELSE alarms_below[s]]
      /\ alarms_above_or_equal' = [s \in Subscribers |->
             IF s \in sent THEN NoAlarm ELSE alarms_above_or_equal[s]]
  BY <1>2, <1>5, Zenon DEF TryNotifyPriceAlarms
<1>9. messages' = Messages("price", to)
  BY <1>2, <1>5, Zenon
<1>10. /\ n \in Nat
       /\ \A s : s \in sent <=> \E i \in 1 .. n : to[i] = s
       /\ \A i \in 1 .. n :
              /\ pair(i) = [subscriber |-> to[i], below |-> alarms_below[to[i]],
                            above |-> alarms_above_or_equal[to[i]]]
              /\ out[i].subscriber = to[i]
              /\ out[i].below = alarms_below[to[i]]
              /\ out[i].above = alarms_above_or_equal[to[i]]
  BY <1>5
<1>11. to \in Seq(Subscribers) /\ Len(to) = n
  <2>1. to \in [1 .. n -> Subscribers]
    BY <1>6
  <2> HIDE DEF to, n
  <2>2. to \in Seq(Subscribers)
    BY <2>1, <1>10, SeqDef
  <2> QED
    BY <2>1, <2>2, <1>10, LenProperties
<1>12. out \in Seq(QueuedAlarms) /\ Len(out) = n
  <2>1. \A i \in 1 .. n : pair(i) \in QueuedAlarms
    <3> HIDE DEF n, to, out, pair
    <3> TAKE i \in 1 .. n
    <3>1. /\ to[i] \in Subscribers
          /\ alarms_below[to[i]] \in StoredAlarms
          /\ alarms_above_or_equal[to[i]] \in StoredAlarms \cup {NoAlarm}
      BY <1>1, <1>6 DEF TypeOK
    <3> QED
      BY <3>1, <1>10 DEF QueuedAlarms
  <2> HIDE DEF pair, n
  <2>2. out \in [1 .. n -> QueuedAlarms]
    BY <2>1
  <2> HIDE DEF out
  <2>3. out \in Seq(QueuedAlarms)
    BY <2>2, <1>10, SeqDef
  <2> QED
    BY <2>2, <2>3, <1>10, LenProperties
<1> HIDE DEF n, to, sent, pair, out
<1>13. price_in_delivery' = out
  BY <1>4, <1>8, <1>12, ConcatEmptySeq
<1>14. /\ messages' \in Seq([service : {"time", "price"}, to : Subscribers])
       /\ Len(messages') = n
       /\ \A i \in 1 .. n : /\ messages'[i].service = "price"
                            /\ messages'[i].to = to[i]
  BY <1>9, <1>11, BatchMessages
<1>15. TypeOK'
  BY <1>1, <1>3, <1>8, <1>12, <1>13, <1>14 DEF TypeOK, QueuedAlarms
<1>16. QueueInv'
  <2>1. n # 0 => messages'[1].service = "price"
    BY <1>10, <1>14
  <2>2. \A i \in 1 .. Len(messages') : messages'[i].service = messages'[1].service
    BY <2>1, <1>10, <1>14
  <2>3. \A i, j \in 1 .. Len(messages') : messages'[i].to = messages'[j].to => i = j
    BY <1>7, <1>14
  <2>4. Len(price_in_delivery') = n /\ Len(time_in_delivery') = 0
    BY <1>3, <1>4, <1>12, <1>13
  <2>5. Len(time_in_delivery') =
            IF Len(messages') # 0 /\ messages'[1].service = "time"
            THEN Len(messages') ELSE 0
    BY <2>1, <2>4, <1>14
  <2>6. Len(price_in_delivery') =
            IF Len(messages') # 0 /\ messages'[1].service = "price"
            THEN Len(messages') ELSE 0
    BY <2>1, <2>4, <1>14
  <2>7. \A i \in 1 .. Len(time_in_delivery') : time_in_delivery'[i] = messages'[i].to
    BY <2>4
  <2>8. \A i \in 1 .. Len(price_in_delivery') :
            price_in_delivery'[i].subscriber = messages'[i].to
    BY <2>4, <1>10, <1>13, <1>14
  <2> QED
    BY <2>2, <2>3, <2>5, <2>6, <2>7, <2>8 DEF QueueInv
<1>17. TimeInv'
  BY <1>1, <1>3, <1>4 DEF TimeInv
<1>18. PriceInv'
  <2>1. \A s \in Subscribers :
            IF alarms_below'[s] = NoAlarm THEN alarms_above_or_equal'[s] = NoAlarm
            ELSE Keeps(s, alarms_below[s], alarms_above_or_equal[s])'
    BY <1>1, <1>3, <1>8 DEF PriceInv, Keeps
  <2>2. \A i \in 1 .. n :
            /\ alarms_below'[to[i]] = NoAlarm
            /\ Keeps(to[i], out[i].below, out[i].above)
            /\ Crossed(asked_price[to[i]])
    BY <1>6, <1>8, <1>10
  <2>3. \A i \in 1 .. n : out[i].subscriber = to[i]
    BY <1>10
  <2> QED
    BY <2>1, <2>2, <2>3, <1>3, <1>12, <1>13 DEF PriceInv, Keeps, Crossed
<1>19. TimeWoken' = {} /\ PriceWoken' = {}
  BY <1>3, NobodyWoken
<1>20. TimeStep
  <2>1. TimeArmed' = TimeArmed
    BY <1>3 DEF TimeArmed
  <2> QED
    BY <2>1, <1>19 DEF TimeStep, TimeService!Next, TimeService!Rest
<1>21. PriceStep
  <2>1. DOMAIN price_in_delivery' = 1 .. n
    BY <1>12, <1>13, LenProperties
  <2>2. \A s \in Subscribers :
            (\E i \in 1 .. n : price_in_delivery'[i].subscriber = s) <=> s \in sent
    <3>1. \A i \in 1 .. n : price_in_delivery'[i].subscriber = to[i]
      BY <1>10, <1>13
    <3>2. \A s : s \in sent <=> \E i \in 1 .. n : to[i] = s
      BY <1>10
    <3> QED
      BY <3>1, <3>2
  <2>3. \A s \in sent : alarms_below[s] # NoAlarm
    BY <1>6, <1>10
  <2>4. DOMAIN price_in_delivery = {}
    BY <1>4
  <2>5. PriceArmed' = PriceArmed
    BY <2>1, <2>2, <2>3, <2>4, <1>8 DEF PriceArmed
  <2> QED
    BY <2>5, <1>19 DEF PriceStep, PriceService!Next, PriceService!Rest
<1> QED
  BY <1>15, <1>16, <1>17, <1>18, <1>20, <1>21 DEF AlarmsInv

(***************************************************************************)
(* Sets that agree but on one element.                                     *)
(***************************************************************************)
LEMMA AllButOne ==
    ASSUME NEW S, NEW A \in SUBSET S, NEW B \in SUBSET S, NEW s \in A,
           \A u \in S \ {s} : u \in B <=> u \in A
    PROVE  B \in {A, A \ {s}}
<1>1. CASE s \in B
  <2>1. B = A
    BY <1>1
  <2> QED
    BY <2>1
<1>2. CASE s \notin B
  <2>1. B = A \ {s}
    BY <1>2
  <2> QED
    BY <2>1
<1> QED
  BY <1>1, <1>2

(***************************************************************************)
(* Whoever handles a time alarm has been armed, and is woken up in time.   *)
(***************************************************************************)
LEMMA TimeWakeStep ==
    ASSUME TypeOK, QueueInv, TimeInv, NextMessage("time"),
           time_in_delivery' = Tail(time_in_delivery),
           price_in_delivery' = price_in_delivery,
           \A u \in Subscribers \ {Head(messages).to} :
               time_alarms'[u] = time_alarms[u]
    PROVE  TimeStep
<1> DEFINE s == Head(messages).to
<1>1. /\ time_in_delivery' \in Seq(Subscribers)
      /\ Len(time_in_delivery) # 0
      /\ s \in Subscribers
      /\ s = time_in_delivery[1]
      /\ Head(messages) = [service |-> "time", to |-> s]
      /\ Len(time_in_delivery') = Len(time_in_delivery) - 1
      /\ \A i \in 1 .. Len(time_in_delivery') :
             /\ time_in_delivery'[i] = time_in_delivery[i + 1]
             /\ time_in_delivery'[i] \in Subscribers
             /\ time_in_delivery'[i] # s
  BY NextTimeMessage
<1>2. /\ Len(time_in_delivery) \in Nat
      /\ DOMAIN time_in_delivery = 1 .. Len(time_in_delivery)
      /\ DOMAIN time_in_delivery' = 1 .. Len(time_in_delivery')
  BY <1>1, LenProperties DEF TypeOK
<1>3. TimeWoken' = {s}
  BY <1>1, WokenBy DEF NextMessage
<1> HIDE DEF s
<1>4. 1 \in DOMAIN time_in_delivery
  BY <1>1, <1>2
<1>5. s \in TimeArmed
  BY <1>4, <1>1 DEF TimeArmed
<1>6. s \in TimeDue
  <2>1. /\ asked_time[s] # None
        /\ AsSeconds(asked_time[s]) < AsSeconds(now)
    BY <1>4, <1>1, <1>2 DEF TimeInv
  <2>2. asked_time[s] \in Nat /\ now \in Nat
    BY <2>1, <1>1, AlarmsAssumption DEF TypeOK, Times
  <2>3. asked_time[s] < now
    BY <2>1, <2>2, Seconds
  <2> QED
    BY <2>2, <2>3, <1>1 DEF TimeDue
<1>7. \A u \in Subscribers \ {s} : u \in TimeArmed' <=> u \in TimeArmed
  <2> TAKE u \in Subscribers \ {s}
  <2>1. (\E i \in 1 .. Len(time_in_delivery') : time_in_delivery'[i] = u)
            <=> (\E i \in 1 .. Len(time_in_delivery) : time_in_delivery[i] = u)
    <3>1. ASSUME NEW i \in 1 .. Len(time_in_delivery), time_in_delivery[i] = u
          PROVE  \E j \in 1 .. Len(time_in_delivery') : time_in_delivery'[j] = u
      <4>1. i # 1
        BY <3>1, <1>1
      <4>2. i - 1 \in 1 .. Len(time_in_delivery')
        BY <4>1, <1>1, <1>2
      <4>3. time_in_delivery'[i - 1] = time_in_delivery[(i - 1) + 1]
        BY <4>2, <1>1
      <4>4. (i - 1) + 1 = i
        BY <1>2
      <4> QED
        BY <3>1, <4>2, <4>3, <4>4
    <3>2. ASSUME NEW i \in 1 .. Len(time_in_delivery'), time_in_delivery'[i] = u
          PROVE  \E j \in 1 .. Len(time_in_delivery) : time_in_delivery[j] = u
      <4>1. i + 1 \in 1 .. Len(time_in_delivery)
        BY <1>1, <1>2
      <4> QED
        BY <4>1, <3>2, <1>1
    <3> QED
      BY <3>1, <3>2
  <2> QED
    BY <2>1, <1>2 DEF TimeArmed, s
<1>8. TimeArmed' \subseteq Subscribers /\ TimeArmed \subseteq Subscribers
  BY DEF TimeArmed
<1>9. TimeArmed' \in {TimeArmed, TimeArmed \ {s}}
  BY <1>5, <1>7, <1>8, AllButOne
<1>10. TimeService!Wake(s)
  BY <1>5, <1>6, <1>9, <1>3 DEF TimeService!Wake
<1> QED
  BY <1>10, <1>1 DEF TimeStep, TimeService!Next

(***************************************************************************)
(* Whoever handles a price alarm has been armed, and the prices have       *)
(* crossed an alarm of its.                                                *)
(***************************************************************************)
LEMMA PriceWakeStep ==
    ASSUME TypeOK, QueueInv, PriceInv, NextMessage("price"),
           price_in_delivery' = Tail(price_in_delivery),
           time_in_delivery' = time_in_delivery,
           \A u \in Subscribers \ {Head(messages).to} :
               alarms_below'[u] = alarms_below[u]
    PROVE  PriceStep
<1> DEFINE s == Head(messages).to
           q == price_in_delivery
<1>1. /\ q' \in Seq(QueuedAlarms)
      /\ Len(q) # 0
      /\ s \in Subscribers
      /\ s = q[1].subscriber
      /\ Head(messages) = [service |-> "price", to |-> s]
      /\ Len(q') = Len(q) - 1
      /\ \A i \in 1 .. Len(q') : q'[i] = q[i + 1] /\ q'[i].subscriber # s
  BY NextPriceMessage
<1>2. /\ Len(q) \in Nat
      /\ DOMAIN q = 1 .. Len(q)
      /\ DOMAIN q' = 1 .. Len(q')
  BY <1>1, LenProperties DEF TypeOK
<1>3. PriceWoken' = {s}
  BY <1>1, WokenBy DEF NextMessage
<1> HIDE DEF s
<1>4. 1 \in DOMAIN q
  BY <1>1, <1>2
<1>5. s \in PriceArmed
  BY <1>4, <1>1 DEF PriceArmed
<1>6. s \in PriceDue
  <2>1. asked_price[s] \in PriceAlarmsSet /\ Crossed(asked_price[s])
    BY <1>1, <1>2, <1>4 DEF PriceInv, Keeps
  <2>2. asked_price[s] # NoneAsked
    BY <2>1, AlarmsAssumption, PriceAlarmsAssumption DEF NoneAsked, None
  <2> QED
    BY <2>1, <2>2, <1>1 DEF PriceDue
<1>7. \A u \in Subscribers \ {s} : u \in PriceArmed' <=> u \in PriceArmed
  <2> TAKE u \in Subscribers \ {s}
  <2>1. ASSUME NEW i \in 1 .. Len(q), q[i].subscriber = u
        PROVE  \E j \in 1 .. Len(q') : q'[j].subscriber = u
    <3>1. i # 1
      BY <2>1, <1>1
    <3>2. i - 1 \in 1 .. Len(q') /\ (i - 1) + 1 = i
      BY <3>1, <1>1, <1>2
    <3>3. q'[i - 1] = q[i]
      BY <3>2, <1>1
    <3> QED
      BY <2>1, <3>2, <3>3
  <2>2. ASSUME NEW i \in 1 .. Len(q'), q'[i].subscriber = u
        PROVE  \E j \in 1 .. Len(q) : q[j].subscriber = u
    <3>1. i + 1 \in 1 .. Len(q)
      BY <1>1, <1>2
    <3> QED
      BY <3>1, <2>2, <1>1
  <2>3. (\E i \in 1 .. Len(q') : q'[i].subscriber = u)
            <=> (\E i \in 1 .. Len(q) : q[i].subscriber = u)
    BY <2>1, <2>2
  <2> QED
    BY <2>3, <1>2 DEF PriceArmed, s
<1>8. PriceArmed' \subseteq Subscribers /\ PriceArmed \subseteq Subscribers
  BY DEF PriceArmed
<1>9. PriceArmed' \in {PriceArmed, PriceArmed \ {s}}
  BY <1>5, <1>7, <1>8, AllButOne
<1>10. PriceService!Wake(s)
  BY <1>3, <1>5, <1>6, <1>9 DEF PriceService!Wake
<1> QED
  BY <1>10, <1>1 DEF PriceStep, PriceService!Next

(***************************************************************************)
(* A delivered time alarm leaves the queue; its subscriber may set others. *)
(***************************************************************************)
LEMMA DeliverTimeAlarmStep ==
    ASSUME AlarmsInv, NEW time \in Times, NEW alarm \in Asks,
           DeliverTimeAlarm(time, alarm)
    PROVE  AlarmsInv' /\ TimeStep /\ PriceStep
<1> DEFINE s == Head(messages).to
<1>1. TypeOK /\ QueueInv /\ TimeInv /\ PriceInv
  BY DEF AlarmsInv
<1>2. /\ NextMessage("time") /\ AddAlarm(s, time) /\ AddPriceAlarm(s, alarm)
      /\ time_in_delivery' = Tail(time_in_delivery)
      /\ now' = now /\ prices' = prices
      /\ price_in_delivery' = price_in_delivery
      /\ woken' = Head(messages)
  BY DEF DeliverTimeAlarm, TimeAlarmDelivered, NextMessage
<1>3. /\ QueueInv'
      /\ time_in_delivery' \in Seq(Subscribers)
      /\ messages' \in Seq([service : {"time", "price"}, to : Subscribers])
      /\ Len(price_in_delivery) = 0
      /\ Len(time_in_delivery) # 0
      /\ s \in Subscribers
      /\ s = time_in_delivery[1]
      /\ Head(messages) = [service |-> "time", to |-> s]
      /\ Len(time_in_delivery') = Len(time_in_delivery) - 1
      /\ \A i \in 1 .. Len(time_in_delivery') :
             /\ time_in_delivery'[i] = time_in_delivery[i + 1]
             /\ time_in_delivery'[i] \in Subscribers
             /\ time_in_delivery'[i] # s
  BY <1>1, <1>2, NextTimeMessage
<1> HIDE DEF s
<1>4. /\ time_alarms' \in [Subscribers -> Nat \cup {None}]
      /\ asked_time' \in [Subscribers -> Times]
      /\ \A u \in Subscribers \ {s} : /\ time_alarms'[u] = time_alarms[u]
                                      /\ asked_time'[u] = asked_time[u]
      /\ \A u \in Subscribers :
             time_alarms'[u] # None =>
                 /\ asked_time'[u] # None
                 /\ AsSeconds(asked_time'[u]) <= time_alarms'[u]
  BY <1>1, <1>2, <1>3, AddAlarmPart
<1>5. /\ alarms_below' \in [Subscribers -> StoredAlarms \cup {NoAlarm}]
      /\ alarms_above_or_equal' \in [Subscribers -> StoredAlarms \cup {NoAlarm}]
      /\ asked_price' \in [Subscribers -> Asks]
      /\ \A u \in Subscribers \ {s} : alarms_below'[u] = alarms_below[u]
      /\ \A u \in Subscribers :
             IF alarms_below'[u] = NoAlarm
             THEN alarms_above_or_equal'[u] = NoAlarm
             ELSE Keeps(u, alarms_below[u], alarms_above_or_equal[u])'
      /\ alarms_below' = alarms_below \/ alarms_below'[s] # NoAlarm
  BY <1>1, <1>2, <1>3, AddPriceAlarmPart
<1>6. TypeOK'
  BY <1>1, <1>2, <1>3, <1>4, <1>5 DEF TypeOK
<1>7. /\ Len(time_in_delivery) \in Nat
      /\ DOMAIN time_in_delivery = 1 .. Len(time_in_delivery)
      /\ DOMAIN time_in_delivery' = 1 .. Len(time_in_delivery')
  BY <1>1, <1>3, LenProperties DEF TypeOK
<1>8. TimeInv'
  <2>1. \A i \in 1 .. Len(time_in_delivery') :
            /\ asked_time'[time_in_delivery'[i]] = asked_time[time_in_delivery[i + 1]]
            /\ i + 1 \in 1 .. Len(time_in_delivery)
    BY <1>3, <1>4, <1>7
  <2>2. \A i \in 1 .. Len(time_in_delivery') :
            /\ asked_time'[time_in_delivery'[i]] # None
            /\ AsSeconds(asked_time'[time_in_delivery'[i]]) < AsSeconds(now')
    BY <2>1, <1>1, <1>2 DEF TimeInv
  <2> QED
    BY <2>2, <1>4 DEF TimeInv
<1>9. PriceInv'
  BY <1>2, <1>3, <1>5 DEF PriceInv
<1>10. TimeWoken' = {s} /\ PriceWoken' = {}
  BY <1>2, <1>3, WokenBy
<1>11. TimeStep
  BY <1>1, <1>2, <1>4, TimeWakeStep DEF s
<1>12. PriceStep
  BY <1>2, <1>3, <1>5, <1>10, PriceArmStep
<1> QED
  BY <1>3, <1>6, <1>8, <1>9, <1>11, <1>12 DEF AlarmsInv

(***************************************************************************)
(* A failed time alarm gets back to the index, at the second before the    *)
(* present one.                                                            *)
(***************************************************************************)
LEMMA FailTimeAlarmStep ==
    ASSUME AlarmsInv, FailTimeAlarm
    PROVE  AlarmsInv' /\ TimeStep /\ PriceStep
<1> DEFINE s == Head(messages).to
<1>1. TypeOK /\ QueueInv /\ TimeInv /\ PriceInv
  BY DEF AlarmsInv
<1>2. /\ NextMessage("time") /\ TimeAlarmFailed
      /\ time_in_delivery' = Tail(time_in_delivery)
      /\ now' = now /\ prices' = prices
      /\ asked_time' = asked_time /\ asked_price' = asked_price
      /\ alarms_below' = alarms_below
      /\ alarms_above_or_equal' = alarms_above_or_equal
      /\ price_in_delivery' = price_in_delivery
      /\ woken' = Head(messages)
  BY DEF FailTimeAlarm, TimeAlarmFailed, NextMessage, priceAlarmsVars
<1>3. /\ QueueInv'
      /\ time_in_delivery' \in Seq(Subscribers)
      /\ messages' \in Seq([service : {"time", "price"}, to : Subscribers])
      /\ Len(price_in_delivery) = 0
      /\ Len(time_in_delivery) # 0
      /\ s \in Subscribers
      /\ s = time_in_delivery[1] /\ s = Head(time_in_delivery)
      /\ Head(messages) = [service |-> "time", to |-> s]
      /\ Len(time_in_delivery') = Len(time_in_delivery) - 1
      /\ \A i \in 1 .. Len(time_in_delivery') :
             time_in_delivery'[i] = time_in_delivery[i + 1]
  BY <1>1, <1>2, NextTimeMessage
<1>4. TimeWoken' = {s} /\ PriceWoken' = {}
  BY <1>2, <1>3, WokenBy
<1>5. time_alarms' = [time_alarms EXCEPT ![s] = AsSeconds(now) - 1]
  BY <1>2, <1>3 DEF TimeAlarmFailed
<1> HIDE DEF s
<1>6. Len(time_in_delivery) \in Nat
  BY <1>1, LenProperties DEF TypeOK
<1>7. asked_time[s] # None /\ AsSeconds(asked_time[s]) < AsSeconds(now)
  BY <1>1, <1>3, <1>6 DEF TimeInv
<1>8. /\ AsSeconds(now) - 1 \in Nat
      /\ AsSeconds(asked_time[s]) <= AsSeconds(now) - 1
  <2>1. asked_time[s] \in Nat /\ now \in Nat
    BY <1>1, <1>3, <1>7, AlarmsAssumption DEF TypeOK, Times
  <2>2. AsSeconds(asked_time[s]) \in Nat /\ AsSeconds(now) \in Nat
    BY <2>1, Seconds
  <2> QED
    BY <2>2, <1>7
<1>9. time_alarms' \in [Subscribers -> Nat \cup {None}]
  BY <1>1, <1>5, <1>8 DEF TypeOK
<1>10. /\ time_alarms'[s] = AsSeconds(now) - 1
       /\ \A u \in Subscribers \ {s} : time_alarms'[u] = time_alarms[u]
  BY <1>1, <1>3, <1>5 DEF TypeOK
<1>11. TypeOK'
  BY <1>1, <1>2, <1>3, <1>9 DEF TypeOK
<1>12. TimeInv'
  <2>1. \A u \in Subscribers :
            time_alarms'[u] # None =>
                asked_time'[u] # None /\ AsSeconds(asked_time'[u]) <= time_alarms'[u]
    BY <1>1, <1>2, <1>7, <1>8, <1>10 DEF TimeInv
  <2>2. \A i \in 1 .. Len(time_in_delivery') : i + 1 \in 1 .. Len(time_in_delivery)
    BY <1>3, <1>6
  <2>3. \A i \in 1 .. Len(time_in_delivery') :
            /\ asked_time'[time_in_delivery'[i]] # None
            /\ AsSeconds(asked_time'[time_in_delivery'[i]]) < AsSeconds(now')
    BY <2>2, <1>1, <1>2, <1>3 DEF TimeInv
  <2> QED
    BY <2>1, <2>3 DEF TimeInv
<1>13. PriceInv'
  BY <1>1, <1>2, <1>3 DEF PriceInv, Keeps
<1>14. TimeStep
  BY <1>1, <1>2, <1>10, TimeWakeStep DEF s
<1>15. PriceStep
  BY <1>2, <1>3, <1>4, PriceArmStep
<1> QED
  BY <1>3, <1>11, <1>12, <1>13, <1>14, <1>15 DEF AlarmsInv

(***************************************************************************)
(* A delivered price alarm leaves the queue; its subscriber may set        *)
(* others.                                                                 *)
(***************************************************************************)
LEMMA DeliverPriceAlarmStep ==
    ASSUME AlarmsInv, NEW time \in Times, NEW alarm \in Asks,
           DeliverPriceAlarm(time, alarm)
    PROVE  AlarmsInv' /\ TimeStep /\ PriceStep
<1> DEFINE s == Head(messages).to
           q == price_in_delivery
<1>1. TypeOK /\ QueueInv /\ TimeInv /\ PriceInv
  BY DEF AlarmsInv
<1>2. /\ NextMessage("price") /\ AddAlarm(s, time) /\ AddPriceAlarm(s, alarm)
      /\ q' = Tail(q)
      /\ now' = now /\ prices' = prices
      /\ time_in_delivery' = time_in_delivery
      /\ woken' = Head(messages)
  BY DEF DeliverPriceAlarm, PriceAlarmDelivered, NextMessage
<1>3. /\ QueueInv'
      /\ q' \in Seq(QueuedAlarms)
      /\ messages' \in Seq([service : {"time", "price"}, to : Subscribers])
      /\ Len(time_in_delivery) = 0
      /\ Len(q) # 0
      /\ s \in Subscribers
      /\ Head(messages) = [service |-> "price", to |-> s]
      /\ Len(q') = Len(q) - 1
      /\ \A i \in 1 .. Len(q') : /\ q'[i] = q[i + 1]
                                 /\ q'[i].subscriber \in Subscribers
                                 /\ q'[i].subscriber # s
  BY <1>1, <1>2, NextPriceMessage
<1>4. TimeWoken' = {} /\ PriceWoken' = {s}
  BY <1>2, <1>3, WokenBy
<1> HIDE DEF s
<1>5. /\ time_alarms' \in [Subscribers -> Nat \cup {None}]
      /\ asked_time' \in [Subscribers -> Times]
      /\ \A u \in Subscribers \ {s} : time_alarms'[u] = time_alarms[u]
      /\ \A u \in Subscribers :
             time_alarms'[u] # None =>
                 /\ asked_time'[u] # None
                 /\ AsSeconds(asked_time'[u]) <= time_alarms'[u]
      /\ time_alarms' = time_alarms \/ time_alarms'[s] # None
  BY <1>1, <1>2, <1>3, AddAlarmPart
<1>6. /\ alarms_below' \in [Subscribers -> StoredAlarms \cup {NoAlarm}]
      /\ alarms_above_or_equal' \in [Subscribers -> StoredAlarms \cup {NoAlarm}]
      /\ asked_price' \in [Subscribers -> Asks]
      /\ \A u \in Subscribers \ {s} : /\ alarms_below'[u] = alarms_below[u]
                                      /\ asked_price'[u] = asked_price[u]
      /\ \A u \in Subscribers :
             IF alarms_below'[u] = NoAlarm
             THEN alarms_above_or_equal'[u] = NoAlarm
             ELSE Keeps(u, alarms_below[u], alarms_above_or_equal[u])'
  BY <1>1, <1>2, <1>3, AddPriceAlarmPart
<1>7. TypeOK'
  BY <1>1, <1>2, <1>3, <1>5, <1>6 DEF TypeOK, QueuedAlarms
<1>8. TimeInv'
  BY <1>2, <1>3, <1>5 DEF TimeInv
<1>9. PriceInv'
  <2>1. \A i \in 1 .. Len(q') : i + 1 \in 1 .. Len(q)
    <3>1. Len(q) \in Nat
      BY <1>1, LenProperties DEF TypeOK
    <3> QED
      BY <3>1, <1>3
  <2> SUFFICES ASSUME NEW i \in 1 .. Len(q')
               PROVE  /\ alarms_below'[q'[i].subscriber] = NoAlarm
                      /\ Keeps(q[i].subscriber, q[i].below, q[i].above)'
                      /\ Crossed(asked_price[q[i].subscriber])'
    BY <1>6 DEF PriceInv
  <2> DEFINE j == i + 1
             u == q[j].subscriber
  <2>2. /\ j \in 1 .. Len(q) /\ q'[i] = q[j]
        /\ u \in Subscribers \ {s}
    BY <2>1, <1>3
  <2>3. /\ alarms_below[u] = NoAlarm
        /\ Keeps(u, q[j].below, q[j].above)
        /\ Crossed(asked_price[u])
    BY <2>2, <1>1 DEF PriceInv
  <2>4. alarms_below'[u] = NoAlarm /\ asked_price'[u] = asked_price[u]
    BY <2>2, <2>3, <1>6
  <2> HIDE DEF j, u
  <2>5. q'[i].subscriber = u /\ q'[i].below = q[j].below /\ q'[i].above = q[j].above
    BY <2>2 DEF u
  <2> QED
    BY <2>3, <2>4, <2>5, <1>2 DEF Keeps, Crossed
<1>10. TimeStep
  BY <1>2, <1>3, <1>4, <1>5, TimeArmStep
<1>11. PriceStep
  BY <1>1, <1>2, <1>6, PriceWakeStep DEF s
<1> QED
  BY <1>3, <1>7, <1>8, <1>9, <1>10, <1>11 DEF AlarmsInv

(***************************************************************************)
(* A failed price alarm gets back as it was, the one above included.       *)
(***************************************************************************)
LEMMA FailPriceAlarmStep ==
    ASSUME AlarmsInv, FailPriceAlarm
    PROVE  AlarmsInv' /\ TimeStep /\ PriceStep
<1> DEFINE s == Head(messages).to
           q == price_in_delivery
<1>1. TypeOK /\ QueueInv /\ TimeInv /\ PriceInv
  BY DEF AlarmsInv
<1>2. /\ NextMessage("price") /\ PriceAlarmFailed
      /\ q' = Tail(q)
      /\ now' = now /\ prices' = prices
      /\ asked_time' = asked_time /\ asked_price' = asked_price
      /\ time_alarms' = time_alarms
      /\ time_in_delivery' = time_in_delivery
      /\ woken' = Head(messages)
  BY DEF FailPriceAlarm, PriceAlarmFailed, NextMessage, timeVars
<1>3. /\ QueueInv'
      /\ q' \in Seq(QueuedAlarms)
      /\ messages' \in Seq([service : {"time", "price"}, to : Subscribers])
      /\ Len(time_in_delivery) = 0
      /\ Len(q) # 0
      /\ s \in Subscribers
      /\ s = q[1].subscriber /\ Head(q) = q[1] /\ q[1] \in QueuedAlarms
      /\ Head(messages) = [service |-> "price", to |-> s]
      /\ Len(q') = Len(q) - 1
      /\ \A i \in 1 .. Len(q') : /\ q'[i] = q[i + 1]
                                 /\ q'[i].subscriber \in Subscribers
                                 /\ q'[i].subscriber # s
  BY <1>1, <1>2, NextPriceMessage
<1>4. TimeWoken' = {} /\ PriceWoken' = {s}
  BY <1>2, <1>3, WokenBy
<1>5. Len(q) \in Nat
  BY <1>1, LenProperties DEF TypeOK
<1>6. 1 \in 1 .. Len(q)
  BY <1>3, <1>5
<1>7. /\ alarms_below[s] = NoAlarm
      /\ Keeps(s, q[1].below, q[1].above)
  BY <1>1, <1>3, <1>6 DEF PriceInv
<1>8. alarms_above_or_equal[s] = NoAlarm
  BY <1>1, <1>3, <1>7 DEF PriceInv
<1>9. /\ alarms_below' = [alarms_below EXCEPT ![s] = q[1].below]
      /\ alarms_above_or_equal' = [alarms_above_or_equal EXCEPT ![s] =
             IF q[1].above = NoAlarm THEN alarms_above_or_equal[s] ELSE q[1].above]
  BY <1>2, <1>3 DEF PriceAlarmFailed
<1> HIDE DEF s
<1>10. /\ q[1].below \in StoredAlarms
       /\ q[1].above \in StoredAlarms \cup {NoAlarm}
  BY <1>3 DEF QueuedAlarms
<1>11. /\ alarms_below' \in [Subscribers -> StoredAlarms \cup {NoAlarm}]
       /\ alarms_above_or_equal' \in [Subscribers -> StoredAlarms \cup {NoAlarm}]
       /\ alarms_below'[s] = q[1].below
       /\ alarms_above_or_equal'[s] = q[1].above
       /\ \A u \in Subscribers \ {s} :
              /\ alarms_below'[u] = alarms_below[u]
              /\ alarms_above_or_equal'[u] = alarms_above_or_equal[u]
  BY <1>1, <1>3, <1>8, <1>9, <1>10 DEF TypeOK
<1>12. TypeOK'
  BY <1>1, <1>2, <1>3, <1>11 DEF TypeOK, QueuedAlarms
<1>13. TimeInv'
  BY <1>1, <1>2, <1>3 DEF TimeInv
<1>14. PriceInv'
  <2>1. \A u \in Subscribers :
            IF alarms_below'[u] = NoAlarm THEN alarms_above_or_equal'[u] = NoAlarm
            ELSE Keeps(u, alarms_below[u], alarms_above_or_equal[u])'
    <3> TAKE u \in Subscribers
    <3>1. CASE u = s
      <4>1. q[1].below # NoAlarm
        BY <1>10, PriceAlarmsAssumption DEF StoredAlarms, NoAlarm, None
      <4> QED
        BY <3>1, <4>1, <1>2, <1>7, <1>11 DEF Keeps
    <3>2. CASE u # s
      BY <3>2, <1>1, <1>2, <1>11 DEF PriceInv, Keeps
    <3> QED
      BY <3>1, <3>2
  <2> SUFFICES ASSUME NEW i \in 1 .. Len(q')
               PROVE  /\ alarms_below'[q'[i].subscriber] = NoAlarm
                      /\ Keeps(q[i].subscriber, q[i].below, q[i].above)'
                      /\ Crossed(asked_price[q[i].subscriber])'
    BY <2>1 DEF PriceInv
  <2> DEFINE j == i + 1
             u == q[j].subscriber
  <2>2. /\ j \in 1 .. Len(q) /\ q'[i] = q[j]
        /\ u \in Subscribers \ {s}
    BY <1>3, <1>5
  <2>3. /\ alarms_below[u] = NoAlarm
        /\ Keeps(u, q[j].below, q[j].above)
        /\ Crossed(asked_price[u])
    BY <2>2, <1>1 DEF PriceInv
  <2>4. alarms_below'[u] = NoAlarm /\ asked_price'[u] = asked_price[u]
    BY <2>2, <2>3, <1>2, <1>11
  <2> HIDE DEF j, u
  <2>5. q'[i].subscriber = u /\ q'[i].below = q[j].below /\ q'[i].above = q[j].above
    BY <2>2 DEF u
  <2> QED
    BY <2>3, <2>4, <2>5, <1>2 DEF Keeps, Crossed
<1>15. TimeStep
  BY <1>2, <1>3, <1>4, TimeArmStep
<1>16. PriceStep
  BY <1>1, <1>2, <1>11, PriceWakeStep DEF s
<1> QED
  BY <1>3, <1>12, <1>13, <1>14, <1>15, <1>16 DEF AlarmsInv

(***************************************************************************)
(* Neither time nor the prices move while something is out for delivery.   *)
(***************************************************************************)
LEMMA EnvironmentStep ==
    ASSUME AlarmsInv, Tick \/ PricesMove
    PROVE  AlarmsInv' /\ TimeStep /\ PriceStep
<1>1. TypeOK /\ QueueInv /\ TimeInv /\ PriceInv
  BY DEF AlarmsInv
<1>2. /\ messages = <<>> /\ messages' = messages /\ woken' = NoOne
      /\ asked_time' = asked_time /\ asked_price' = asked_price
      /\ time_alarms' = time_alarms
      /\ time_in_delivery' = time_in_delivery
      /\ alarms_below' = alarms_below
      /\ alarms_above_or_equal' = alarms_above_or_equal
      /\ price_in_delivery' = price_in_delivery
  BY DEF Tick, PricesMove, timeVars, priceAlarmsVars
<1>3. Len(time_in_delivery) = 0 /\ Len(price_in_delivery) = 0
  BY <1>1, <1>2, NoTransaction
<1>4. now' \in Nat /\ prices' \in PricesSet
  BY <1>1 DEF Tick, PricesMove, TypeOK
<1>5. TypeOK'
  BY <1>1, <1>2, <1>4 DEF TypeOK
<1>6. QueueInv'
  BY <1>1, <1>2 DEF QueueInv
<1>7. TimeInv'
  BY <1>1, <1>2, <1>3 DEF TimeInv
<1>8. PriceInv'
  BY <1>1, <1>2, <1>3 DEF PriceInv, Keeps
<1>9. TimeWoken' = {} /\ PriceWoken' = {}
  BY <1>2, NobodyWoken
<1>10. TimeArmed' = TimeArmed /\ PriceArmed' = PriceArmed
  BY <1>2 DEF TimeArmed, PriceArmed
<1>11. TimeStep
  BY <1>9, <1>10 DEF TimeStep, TimeService!Next, TimeService!Rest
<1>12. PriceStep
  BY <1>9, <1>10 DEF PriceStep, PriceService!Next, PriceService!Rest
<1> QED
  BY <1>5, <1>6, <1>7, <1>8, <1>11, <1>12 DEF AlarmsInv

(***************************************************************************)
(* The initial states have no alarms.                                      *)
(***************************************************************************)
LEMMA InitInv ==
    ASSUME Init
    PROVE  AlarmsInv /\ TimeService!Init /\ PriceService!Init
<1>1. TypeOK
  BY TimeAlarmsAssumption DEF Init, TypeOK, Times, Asks
<1>2. /\ Len(messages) = 0 /\ Len(time_in_delivery) = 0
      /\ Len(price_in_delivery) = 0
  BY DEF Init
<1>3. QueueInv
  BY <1>2 DEF QueueInv
<1>4. TimeInv
  BY <1>2 DEF Init, TimeInv
<1>5. PriceInv
  BY <1>2 DEF Init, PriceInv
<1>6. TimeArmed = {} /\ PriceArmed = {}
  BY DEF Init, TimeArmed, PriceArmed
<1>7. TimeWoken = {} /\ PriceWoken = {}
  BY DEF Init, TimeWoken, PriceWoken, NoOne
<1> QED
  BY <1>1, <1>3, <1>4, <1>5, <1>6, <1>7
  DEF AlarmsInv, TimeService!Init, PriceService!Init

(***************************************************************************)
(* Every step, the stuttering one included.                                *)
(***************************************************************************)
LEMMA NextStep ==
    ASSUME AlarmsInv, [Next]_vars
    PROVE  AlarmsInv' /\ TimeStep /\ PriceStep
<1>1. CASE \E s \in Subscribers, time \in Times, alarm \in Asks :
               SetAlarms(s, time, alarm)
  BY <1>1, SetAlarmsStep
<1>2. CASE DispatchTime
  BY <1>2, DispatchTimeAlarmsStep DEF DispatchTime
<1>3. CASE \E max_count \in MaxCounts : DispatchPriceAlarms(max_count)
  BY <1>3, DispatchPriceAlarmsStep
<1>4. CASE Deliver
  BY <1>4, DeliverTimeAlarmStep, DeliverPriceAlarmStep, FailTimeAlarmStep,
     FailPriceAlarmStep DEF Deliver
<1>5. CASE Tick \/ PricesMove
  BY <1>5, EnvironmentStep
<1>6. CASE UNCHANGED vars
  <2>1. /\ now' = now /\ prices' = prices /\ messages' = messages /\ woken' = woken
        /\ asked_time' = asked_time /\ asked_price' = asked_price
        /\ time_alarms' = time_alarms /\ time_in_delivery' = time_in_delivery
        /\ alarms_below' = alarms_below
        /\ alarms_above_or_equal' = alarms_above_or_equal
        /\ price_in_delivery' = price_in_delivery
    BY <1>6 DEF vars, timeVars, priceAlarmsVars
  <2>2. TypeOK' /\ QueueInv' /\ TimeInv'
    BY <2>1 DEF AlarmsInv, TypeOK, QueueInv, TimeInv
  <2>3. PriceInv'
    BY <2>1 DEF AlarmsInv, PriceInv, Keeps, Crossed
  <2>4. /\ TimeArmed' = TimeArmed /\ TimeWoken' = TimeWoken
        /\ PriceArmed' = PriceArmed /\ PriceWoken' = PriceWoken
    BY <2>1 DEF TimeArmed, TimeWoken, PriceArmed, PriceWoken
  <2> QED
    BY <2>2, <2>3, <2>4 DEF AlarmsInv, TimeStep, PriceStep
<1> QED
  BY <1>1, <1>2, <1>3, <1>4, <1>5, <1>6 DEF Next

(***************************************************************************)
(* The inductive invariant implies that replies meet their alarms.         *)
(***************************************************************************)
LEMMA QueuesMeetMessages ==
    ASSUME AlarmsInv
    PROVE  RepliesMeetAlarms
<1> DEFINE M == [service : {"time", "price"}, to : Subscribers]
           m == messages
           tq == time_in_delivery
           pq == price_in_delivery
<1>1. TypeOK /\ QueueInv
  BY DEF AlarmsInv
<1>2. /\ m \in Seq(M) /\ tq \in Seq(Subscribers) /\ pq \in Seq(QueuedAlarms)
  BY <1>1 DEF TypeOK, QueuedAlarms
<1>3. /\ m = <<>> <=> Len(m) = 0
      /\ tq = <<>> <=> Len(tq) = 0
      /\ pq = <<>> <=> Len(pq) = 0
  BY <1>2, EmptyLen
<1>4. m # <<>> => Head(m) = m[1]
  BY <1>2, <1>3, TailElements
<1>5. /\ DOMAIN m = 1 .. Len(m)
      /\ DOMAIN tq = 1 .. Len(tq)
      /\ DOMAIN pq = 1 .. Len(pq)
      /\ tq = [i \in 1 .. Len(tq) |-> tq[i]]
  BY <1>2, LenProperties
<1>6. tq = IF m # <<>> /\ Head(m).service = "time"
           THEN [i \in DOMAIN m |-> m[i].to] ELSE <<>>
  <2>1. CASE Len(m) # 0 /\ m[1].service = "time"
    <3>1. Len(tq) = Len(m) /\ \A i \in 1 .. Len(m) : tq[i] = m[i].to
      BY <2>1, <1>1 DEF QueueInv
    <3>2. tq = [i \in 1 .. Len(m) |-> m[i].to]
      BY <3>1, <1>5
    <3> QED
      BY <3>2, <2>1, <1>3, <1>4, <1>5
  <2>2. CASE ~(Len(m) # 0 /\ m[1].service = "time")
    BY <2>2, <1>1, <1>3, <1>4 DEF QueueInv
  <2> QED
    BY <2>1, <2>2
<1>7. [i \in DOMAIN pq |-> pq[i].subscriber] =
           IF m # <<>> /\ Head(m).service = "price"
           THEN [i \in DOMAIN m |-> m[i].to] ELSE <<>>
  <2>1. CASE Len(m) # 0 /\ m[1].service = "price"
    <3>1. Len(pq) = Len(m) /\ \A i \in 1 .. Len(m) : pq[i].subscriber = m[i].to
      BY <2>1, <1>1 DEF QueueInv
    <3>2. [i \in 1 .. Len(m) |-> pq[i].subscriber] = [i \in 1 .. Len(m) |-> m[i].to]
      BY <3>1
    <3> QED
      BY <3>1, <3>2, <2>1, <1>3, <1>4, <1>5
  <2>2. CASE ~(Len(m) # 0 /\ m[1].service = "price")
    <3>1. pq = <<>>
      BY <2>2, <1>1, <1>3 DEF QueueInv
    <3>2. DOMAIN pq = {}
      BY <3>1
    <3>3. [i \in DOMAIN pq |-> pq[i].subscriber] = <<>>
      BY <3>2
    <3> QED
      BY <3>3, <2>2, <1>3, <1>4
  <2> QED
    BY <2>1, <2>2
<1> QED
  BY <1>6, <1>7 DEF RepliesMeetAlarms

(***************************************************************************)
(* A price lower by a unit of the inverse has a greater normalized price.  *)
(***************************************************************************)
LEMMA WellBelowNormalized ==
    ASSUME NEW c \in Currencies, NEW p \in Prices, NEW b \in Prices,
           WellBelow(p, b)
    PROVE  Normalized(c, b).price < Normalized(c, p).price
<1> DEFINE pa == p.amount
           pq == p.quote
           ba == b.amount
           bq == b.quote
           N  == NORM_SCALE
           x  == (ba * N) \div bq
           y  == (pa * N) \div pq
<1>1. /\ pa \in Nat /\ pq \in Nat /\ ba \in Nat /\ bq \in Nat /\ N \in Nat
      /\ pq > 0 /\ bq > 0
  BY PriceAlarmsAssumption DEF Prices
<1>2. Normalized(c, p).price = y /\ Normalized(c, b).price = x
  BY DEF Normalized, Total, Inv, Price, SafeMul
<1>3. N * (pa * bq - ba * pq) >= pq * bq
  BY DEF WellBelow
<1> HIDE DEF pa, pq, ba, bq, N
<1>4. pa * N \in Nat /\ ba * N \in Nat
  BY <1>1
<1>5. /\ x \in Nat /\ y \in Nat
      /\ x * bq <= ba * N
      /\ pa * N < y * pq + pq
  BY <1>1, <1>4
<1> HIDE DEF x, y
<1>6. ~(y <= x)
  <2> SUFFICES ASSUME y <= x PROVE FALSE
    OBVIOUS
  <2>1. y * pq <= x * pq
    BY <1>1, <1>5
  <2>2. pa * N < x * pq + pq
    BY <2>1, <1>1, <1>4, <1>5
  <2>3. (pa * N) * bq < (x * pq + pq) * bq
    BY <2>2, <1>1, <1>4, <1>5
  <2>4. (x * bq) * pq <= (ba * N) * pq
    BY <1>1, <1>4, <1>5
  <2>5. (x * pq + pq) * bq = (x * bq) * pq + pq * bq
    BY <1>1, <1>5
  <2>6. N * (pa * bq - ba * pq) = (pa * N) * bq - (ba * N) * pq
    BY <1>1
  <2>7. /\ (pa * N) * bq \in Int /\ (ba * N) * pq \in Int
        /\ (x * bq) * pq \in Int /\ pq * bq \in Int
    BY <1>1, <1>5
  <2> QED
    BY <1>3, <2>3, <2>4, <2>5, <2>6, <2>7
<1> QED
  BY <1>2, <1>5, <1>6

(***************************************************************************)
(* The selection misses no alarm that is crossed.                          *)
(***************************************************************************)
LEMMA CrossedAreSelected ==
    ASSUME TypeOK, PriceInv
    PROVE  CrossedIsSelected
<1> SUFFICES ASSUME NEW s \in Subscribers,
                    alarms_below[s] # NoAlarm,
                    prices[asked_price[s].currency] # NoPrice,
                    \/ WellBelow(prices[asked_price[s].currency], asked_price[s].below)
                    \/ /\ asked_price[s].above # NoPrice
                       /\ PriceLe(asked_price[s].above, prices[asked_price[s].currency])
             PROVE  \E x \in PriceAlarmsSelection : x.receiver = s
  BY DEF CrossedIsSelected
<1> DEFINE alarm == asked_price[s]
           c     == alarm.currency
           p     == prices[c]
<1>1. Keeps(s, alarms_below[s], alarms_above_or_equal[s])
  BY DEF PriceInv
<1>2. /\ c \in Currencies /\ alarm.below \in Prices
      /\ alarm.above # NoPrice => alarm.above \in Prices
  BY <1>1, AlarmsAssumption DEF Keeps
<1>3. p \in Prices
  BY <1>2, AlarmsAssumption DEF TypeOK
<1>4. /\ alarms_below[s] = Normalized(c, alarm.below)
      /\ alarm.above # NoPrice =>
             alarms_above_or_equal[s] = Normalized(c, alarm.above)
  BY <1>1 DEF Keeps
<1>5. CASE WellBelow(p, alarm.below)
  <2> DEFINE x == [currency |-> c, side |-> 0, price |-> alarms_below[s].price,
                   receiver |-> s]
  <2>1. /\ alarms_below[s].price < Normalized(c, p).price
        /\ alarms_below[s].currency = c
    BY <1>2, <1>3, <1>4, <1>5, WellBelowNormalized, NormalizedAntitone
  <2>2. x \in AlarmsBelow(c)
    BY <2>1 DEF AlarmsBelow
  <2>3. x \in PriceAlarmsSelection
    BY <2>2, <1>2 DEF PriceAlarmsSelection
  <2> QED
    BY <2>3
<1>6. CASE alarm.above # NoPrice /\ PriceLe(alarm.above, p)
  <2> DEFINE x == [currency |-> c, side |-> 1,
                   price |-> alarms_above_or_equal[s].price, receiver |-> s]
  <2>1. /\ alarms_above_or_equal[s].price >= Normalized(c, p).price
        /\ alarms_above_or_equal[s].currency = c
    BY <1>2, <1>3, <1>4, <1>6, NormalizedAntitone DEF StoredAlarms
  <2>2. x \in AlarmsAboveOrEqual(c)
    BY <2>1 DEF AlarmsAboveOrEqual
  <2>3. x \in PriceAlarmsSelection
    BY <2>2, <1>2 DEF PriceAlarmsSelection
  <2> QED
    BY <2>3
<1> QED
  BY <1>5, <1>6

----------------------------------------------------------------------------
(* The theorems *)

(***************************************************************************)
(* The inductive invariant holds throughout.                               *)
(***************************************************************************)
THEOREM Inductive == Spec => []AlarmsInv
<1>1. Init => AlarmsInv
  BY InitInv
<1>2. AlarmsInv /\ [Next]_vars => AlarmsInv'
  BY NextStep
<1> QED
  BY <1>1, <1>2, PTL DEF Spec

(***************************************************************************)
(* Whatever the subscribers do in the course of a dispatch, each reply     *)
(* meets the alarm it is about, and no queue is left behind.               *)
(***************************************************************************)
THEOREM RepliesMeet == Spec => []RepliesMeetAlarms
<1>1. AlarmsInv => RepliesMeetAlarms
  BY QueuesMeetMessages
<1> QED
  BY <1>1, Inductive, PTL

(***************************************************************************)
(* The debug assertion assert_unique_subscribers of the oracle holds.      *)
(***************************************************************************)
THEOREM SubscribersUnique == Spec => []UniqueSubscribers
<1>1. AlarmsInv => UniqueSubscribers
  BY SelectedOnce DEF AlarmsInv
<1> QED
  BY <1>1, Inductive, PTL

(***************************************************************************)
(* Normalizing the prices hides no alarm that is crossed.                  *)
(***************************************************************************)
THEOREM NoneMissed == Spec => []CrossedIsSelected
<1>1. AlarmsInv => CrossedIsSelected
  BY CrossedAreSelected DEF AlarmsInv
<1> QED
  BY <1>1, Inductive, PTL

(***************************************************************************)
(* The timealarms implement the abstract service.                          *)
(***************************************************************************)
THEOREM TimeAlarmsImplement == Spec => TimeAlarmsServe
<1>1. Init => TimeService!Init
  BY InitInv
<1>2. AlarmsInv /\ [Next]_vars => [TimeService!Next]_<<TimeArmed, TimeWoken>>
  BY NextStep DEF TimeStep
<1> QED
  BY <1>1, <1>2, Inductive, PTL DEF Spec, TimeAlarmsServe, TimeService!Spec

(***************************************************************************)
(* So do the price alarms of the oracle.                                   *)
(***************************************************************************)
THEOREM PriceAlarmsImplement == Spec => PriceAlarmsServe
<1>1. Init => PriceService!Init
  BY InitInv
<1>2. AlarmsInv /\ [Next]_vars => [PriceService!Next]_<<PriceArmed, PriceWoken>>
  BY NextStep DEF PriceStep
<1> QED
  BY <1>1, <1>2, Inductive, PTL DEF Spec, PriceAlarmsServe, PriceService!Spec

----------------------------------------------------------------------------
(* Ratios and their bounds *)

(***************************************************************************)
(* Inequalities may be multiplied and reduced.                             *)
(***************************************************************************)
LEMMA ScaledLe ==
    ASSUME NEW k \in Nat, NEW x \in Nat, NEW y \in Nat
    PROVE  /\ k * x \in Nat /\ k * y \in Nat
           /\ x <= y => k * x <= k * y
           /\ k # 0 /\ k * x <= k * y => x <= y
<1>1. x <= y => k * x <= k * y
  <2> SUFFICES ASSUME x <= y PROVE k * x <= k * y
    OBVIOUS
  <2>1. PICK e \in Nat : y = x + e
    OBVIOUS
  <2>2. k * (x + e) = k * x + k * e /\ k * e \in Nat /\ k * x \in Nat
    OBVIOUS
  <2> QED
    BY <2>1, <2>2
<1>2. k # 0 /\ k * x <= k * y => x <= y
  <2> SUFFICES ASSUME k # 0, y < x PROVE k * y < k * x
    OBVIOUS
  <2>1. PICK e \in Nat : x = y + e /\ e # 0
    OBVIOUS
  <2>2. k * (y + e) = k * y + k * e /\ k * e \in Nat /\ k * e # 0 /\ k * y \in Nat
    BY <2>1
  <2> QED
    BY <2>1, <2>2
<1> QED
  BY <1>1, <1>2

\* q / a is not below x / y but for j roundings
Lower(a, q, x, y, j) == x * a * (Precision - j) <= q * y * Precision

(***************************************************************************)
(* The bounds on the constants, in numbers.                                *)
(***************************************************************************)
LEMMA Room ==
    /\ Precision \in Nat \ {0} /\ Spread \in Nat \ {0} /\ FACTOR \in Nat \ {0}
    /\ Cardinality(Accounts) \in Nat \ {0}
<1>1. Cardinality(Accounts) \in Nat \ {0}
  BY RoundingAssumption, FS_CardinalityType, FS_EmptySet
<1> QED
  BY <1>1, RoundingAssumption, PricesAssumption

(***************************************************************************)
(* A bound holds all the more with a rounding more.                        *)
(***************************************************************************)
LEMMA LowerMore ==
    ASSUME NEW a \in Nat, NEW q \in Nat, NEW x \in Nat, NEW y \in Nat,
           NEW j \in Nat, NEW k \in Nat, j <= k, k <= Precision, Lower(a, q, x, y, j)
    PROVE  Lower(a, q, x, y, k)
<1>1. Precision - j \in Nat /\ Precision - k \in Nat /\ Precision - k <= Precision - j
  BY Room
<1>2. PICK z, m, n \in Nat : z = x * a /\ m = Precision - k /\ n = Precision - j
  BY <1>1
<1>3. z * m <= z * n
  BY <1>1, <1>2, ScaledLe
<1>4. z * m \in Nat /\ z * n \in Nat /\ q * y * Precision \in Nat
  BY Room
<1> QED
  BY <1>2, <1>3, <1>4 DEF Lower

(***************************************************************************)
(* A ratio is kept when both amounts are divided by the same.              *)
(***************************************************************************)
LEMMA LowerReduced ==
    ASSUME NEW a \in Nat, NEW q \in Nat, NEW x \in Nat, NEW y \in Nat, NEW j \in Nat,
           j <= Precision, NEW d \in Nat \ {0}, NEW b \in Nat, NEW r \in Nat,
           a = d * b, q = d * r
    PROVE  Lower(a, q, x, y, j) <=> Lower(b, r, x, y, j)
<1>1. PICK m, n \in Nat : m = Precision - j /\ n = Precision
  BY Room
<1>2. PICK z, w \in Nat : z = x * b * m /\ w = r * y * n
  BY <1>1
<1>3. x * a * m = d * z
  BY <1>2
<1>4. q * y * n = d * w
  BY <1>2
<1>5. d * z <= d * w <=> z <= w
  BY ScaledLe
<1> QED
  BY <1>1, <1>2, <1>3, <1>4, <1>5 DEF Lower

(***************************************************************************)
(* The same of the ratio that it is compared to.                           *)
(***************************************************************************)
LEMMA LowerWhole ==
    ASSUME NEW a \in Nat, NEW q \in Nat, NEW x \in Nat, NEW y \in Nat, NEW j \in Nat,
           j <= Precision, NEW d \in Nat \ {0}
    PROVE  Lower(a, q, d * x, d * y, j) <=> Lower(a, q, x, y, j)
<1>1. PICK m, n \in Nat : m = Precision - j /\ n = Precision
  BY Room
<1>2. PICK z, w \in Nat : z = x * a * m /\ w = q * y * n
  BY <1>1
<1>3. (d * x) * a * m = d * z
  BY <1>2
<1>4. q * (d * y) * n = d * w
  BY <1>2
<1>5. d * z <= d * w <=> z <= w
  BY ScaledLe
<1> QED
  BY <1>1, <1>2, <1>3, <1>4, <1>5 DEF Lower

\* c divides both, with those results
Factors(a, k, c, b, l) ==
    c \in Nat /\ b \in Nat /\ l \in Nat /\ a = c * b /\ k = c * l

(***************************************************************************)
(* A product by k / m, each factor reduced beforehand, in part by c and in *)
(* part by d, is to the product of the bound as the factors are.           *)
(***************************************************************************)
LEMMA LowerProduct ==
    ASSUME NEW a \in Nat, NEW q \in Nat, NEW x \in Nat, NEW y \in Nat, NEW j \in Nat,
           j <= Precision, NEW k \in Nat, NEW m \in Nat,
           NEW c, NEW b, NEW l, Factors(a, k, c, b, l),
           NEW d, NEW r, NEW n, Factors(q, m, d, r, n), Lower(a, q, x, y, j)
    PROVE  Lower(b * n, r * l, x * k, y * m, j)
<1>0. /\ c \in Nat /\ b \in Nat /\ l \in Nat /\ a = c * b /\ k = c * l
      /\ d \in Nat /\ r \in Nat /\ n \in Nat /\ q = d * r /\ m = d * n
  BY DEF Factors
<1>1. PICK u, v \in Nat : u = Precision - j /\ v = Precision
  BY Room
<1>2. PICK z, w \in Nat : z = x * a * u /\ w = q * y * v
  BY <1>1
<1>3. z <= w
  BY <1>1, <1>2 DEF Lower
<1>4. PICK e \in Nat : e = l * n
  BY <1>0
<1>5. e * z <= e * w
  BY <1>3, ScaledLe
<1>6. (x * k) * (b * n) * u = e * z
  <2>1. (x * (c * l)) * (b * n) * u = (l * n) * (x * (c * b) * u)
    BY <1>0
  <2> QED
    BY <1>0, <1>2, <1>4, <2>1
<1>7. (r * l) * (y * m) * v = e * w
  <2>1. (r * l) * (y * (d * n)) * v = (l * n) * ((d * r) * y * v)
    BY <1>0
  <2> QED
    BY <1>0, <1>2, <1>4, <2>1
<1> QED
  BY <1>1, <1>5, <1>6, <1>7 DEF Lower

(***************************************************************************)
(* What is lost when q of at least Precision units is rounded down from    *)
(* below q + 1: less than the share of one rounding.                       *)
(***************************************************************************)
LEMMA LowerRounded ==
    ASSUME NEW a \in Nat, NEW q \in Nat, NEW x \in Nat, NEW y \in Nat, NEW j \in Nat,
           j + 1 <= Precision, Precision <= q,
           x * a * (Precision - j) <= (q + 1) * y * Precision
    PROVE  Lower(a, q, x, y, j + 1)
<1>1. PICK n, u \in Nat : n = Precision /\ u = Precision - (j + 1) /\ n = u + j + 1
  BY Room
<1>2. PICK z \in Nat : z = x * a
  OBVIOUS
<1>3. z * (u + 1) <= (q + 1) * y * n
  BY <1>1, <1>2
<1>4. u * (n + 1) <= (u + 1) * n
  <2>1. u * (n + 1) = u * n + u /\ (u + 1) * n = u * n + n /\ u * n \in Nat
    OBVIOUS
  <2> QED
    BY <1>1, <2>1
<1>5. (q + 1) * n <= q * (n + 1)
  <2>1. (q + 1) * n = q * n + n /\ q * (n + 1) = q * n + q /\ q * n \in Nat
    OBVIOUS
  <2> QED
    BY <1>1, <2>1
<1>6. z * (u * (n + 1)) <= z * ((u + 1) * n)
  <2>1. PICK e, f \in Nat : e = u * (n + 1) /\ f = (u + 1) * n
    OBVIOUS
  <2> QED
    BY <1>4, <2>1, ScaledLe
<1>7. n * (z * (u + 1)) <= n * ((q + 1) * y * n)
  <2>1. PICK e, f \in Nat : e = z * (u + 1) /\ f = (q + 1) * y * n
    OBVIOUS
  <2> QED
    BY <1>3, <2>1, ScaledLe
<1>8. (y * n) * ((q + 1) * n) <= (y * n) * (q * (n + 1))
  <2>1. PICK e, f, g \in Nat : e = (q + 1) * n /\ f = q * (n + 1) /\ g = y * n
    OBVIOUS
  <2> QED
    BY <1>5, <2>1, ScaledLe
<1>9. /\ z * (u * (n + 1)) = (n + 1) * (z * u)
      /\ z * ((u + 1) * n) = n * (z * (u + 1))
  OBVIOUS
<1>10. /\ n * ((q + 1) * y * n) = (y * n) * ((q + 1) * n)
       /\ (y * n) * (q * (n + 1)) = (n + 1) * (q * y * n)
  OBVIOUS
<1>11. PICK e, f, g \in Nat : e = z * u /\ f = q * y * n /\ g = n + 1
  OBVIOUS
<1>12. g * e <= g * f
  <2>1. PICK s, t, v, w \in Nat : /\ s = z * (u * (n + 1)) /\ t = z * ((u + 1) * n)
                                  /\ v = n * ((q + 1) * y * n)
                                  /\ w = (y * n) * (q * (n + 1))
    OBVIOUS
  <2>2. s <= t /\ t <= v /\ v <= w
    BY <1>6, <1>7, <1>8, <1>9, <1>10, <2>1
  <2>3. s <= w
    BY <2>2
  <2> QED
    BY <1>9, <1>10, <1>11, <2>1, <2>3
<1>13. e <= f
  BY <1>11, <1>12, ScaledLe
<1> QED
  BY <1>1, <1>2, <1>11, <1>13 DEF Lower

(***************************************************************************)
(* As long as the roundings are less than a half of Precision, moderation  *)
(* of x / y is moderation of q / a but for a factor of two, weighed by     *)
(* w / t.                                                                  *)
(***************************************************************************)
LEMMA LowerModerate ==
    ASSUME NEW a \in Nat, NEW q \in Nat, NEW x \in Nat \ {0}, NEW y \in Nat,
           NEW w \in Nat, NEW t \in Nat, NEW j \in Nat, 2 * j <= Precision,
           y <= Spread * x, Lower(a, q, w * x, t * y, j)
    PROVE  w * a <= 2 * t * Spread * q
<1>1. PICK n, u, s \in Nat : n = Precision /\ u = Precision - j /\ s = Spread
                             /\ n <= 2 * u /\ n # 0
  BY Room
<1>2. (w * x) * a * u <= q * (t * y) * n
  BY <1>1 DEF Lower
<1>3. (q * t * n) * y <= (q * t * n) * (s * x)
  <2>1. PICK e, f \in Nat : e = q * t * n /\ f = s * x
    BY <1>1
  <2> QED
    BY <1>1, <2>1, ScaledLe
<1>4. (w * x * a) * n <= (w * x * a) * (2 * u)
  <2>1. PICK e, f \in Nat : e = w * x * a /\ f = 2 * u
    OBVIOUS
  <2> QED
    BY <1>1, <2>1, ScaledLe
<1>5. /\ q * (t * y) * n = (q * t * n) * y
      /\ 2 * ((q * t * n) * (s * x)) = (x * n) * (2 * t * s * q)
      /\ (w * x * a) * (2 * u) = 2 * ((w * x) * a * u)
      /\ (w * x * a) * n = (x * n) * (w * a)
  OBVIOUS
<1>6. PICK e, f, g \in Nat : e = x * n /\ f = w * a /\ g = 2 * t * s * q
  OBVIOUS
<1>7. e * f <= e * g
  <2>1. PICK b, c, d \in Nat : /\ b = (w * x) * a * u /\ c = q * (t * y) * n
                               /\ d = (q * t * n) * (s * x)
    OBVIOUS
  <2>2. b <= c /\ c <= d
    BY <1>2, <1>3, <1>5, <2>1
  <2>3. e * f <= 2 * b /\ 2 * d = e * g
    BY <1>4, <1>5, <1>6, <2>1
  <2> QED
    BY <2>2, <2>3
<1>8. e # 0
  BY <1>1, <1>6
<1> QED
  BY <1>1, <1>6, <1>7, <1>8, ScaledLe

\* Prices as records of naturals
PriceType == [amount : Nat, quote : Nat]

\* A price that may be observed
Proper(p) ==
    p \in PriceType /\ Positive(p) /\ Fits(p.amount) /\ Fits(p.quote)

\* The outcome of a sum: a price, of zero perhaps, or a panic
Summed(p) ==
    \/ p = Panic
    \/ p \in PriceType /\ p.amount > 0 /\ Fits(p.amount) /\ Fits(p.quote)

\* The outcome of the other operations
Computed(p) == p = Panic \/ Proper(p)

(***************************************************************************)
(* The powers of two exist.                                                *)
(***************************************************************************)
LEMMA Pow2At ==
    /\ pow2[0] = 1
    /\ \A n \in 1 .. AmountBits : pow2[n] = 2 * pow2[n - 1]
<1>0. AmountBits \in Nat \ {0}
  BY PricesAssumption
<1> DEFINE Next2(g, i) == IF i = 0 THEN 1 ELSE 2 * g[i - 1]
           G == {m \in Nat : \E g : g = [i \in 0 .. m |-> Next2(g, i)]}
<1>1. 0 \in G
  <2> DEFINE g == [i \in 0 .. 0 |-> 1]
  <2>1. \A i \in 0 .. 0 : Next2(g, i) = 1
    OBVIOUS
  <2>2. g = [i \in 0 .. 0 |-> Next2(g, i)]
    BY <2>1
  <2> HIDE DEF g
  <2> QED
    BY <2>2
<1>2. ASSUME NEW m \in Nat, m \in G PROVE m + 1 \in G
  <2>1. PICK g : g = [i \in 0 .. m |-> Next2(g, i)]
    BY <1>2
  <2> DEFINE h == [i \in 0 .. m + 1 |-> Next2(g, i)]
  <2>2. ASSUME NEW i \in 0 .. m PROVE h[i] = g[i]
    <3>1. i \in 0 .. m + 1
      OBVIOUS
    <3> HIDE DEF Next2
    <3> QED
      BY <2>1, <3>1
  <2>3. ASSUME NEW i \in 0 .. m + 1 PROVE Next2(g, i) = Next2(h, i)
    <3>1. i # 0 => i - 1 \in 0 .. m
      OBVIOUS
    <3> HIDE DEF h
    <3> QED
      BY <2>2, <3>1
  <2>4. h = [i \in 0 .. m + 1 |-> Next2(g, i)]
    OBVIOUS
  <2> HIDE DEF h, Next2
  <2>5. h = [i \in 0 .. m + 1 |-> Next2(h, i)]
    BY <2>3, <2>4
  <2> QED
    BY <2>5
<1>3. AmountBits \in G
  <2> HIDE DEF G
  <2> QED
    BY <1>0, <1>1, <1>2, NatSetInduction
<1>4. PICK p : p = pow2
  OBVIOUS
<1>5. p = [n \in 0 .. AmountBits |-> IF n = 0 THEN 1 ELSE 2 * p[n - 1]]
  <2>1. \E g : g = [n \in 0 .. AmountBits |-> IF n = 0 THEN 1 ELSE 2 * g[n - 1]]
    BY <1>3
  <2> QED
    BY <1>4, <2>1, Zenon DEF pow2
<1>6. p[0] = 1
  BY <1>0, <1>5
<1>7. ASSUME NEW n \in 1 .. AmountBits PROVE p[n] = 2 * p[n - 1]
  <2>1. n \in 0 .. AmountBits /\ n # 0
    BY <1>0
  <2> QED
    BY <1>5, <2>1
<1> QED
  BY <1>4, <1>6, <1>7

(***************************************************************************)
(* They are positive, and the greatest, the number of amounts, is even.    *)
(***************************************************************************)
LEMMA Pow2Type ==
    /\ \A n \in 0 .. AmountBits : pow2[n] \in Nat \ {0}
    /\ Amounts \in Nat \ {0} /\ \E half \in Nat \ {0} : Amounts = 2 * half
<1>0. AmountBits \in Nat \ {0}
  BY PricesAssumption
<1> DEFINE G == {m \in Nat : m <= AmountBits => pow2[m] \in Nat \ {0}}
<1>1. 0 \in G
  BY Pow2At
<1>2. ASSUME NEW m \in Nat, m \in G PROVE m + 1 \in G
  <2> SUFFICES ASSUME m + 1 <= AmountBits PROVE pow2[m + 1] \in Nat \ {0}
    OBVIOUS
  <2>1. m + 1 \in 1 .. AmountBits /\ (m + 1) - 1 = m /\ m <= AmountBits
    BY <1>0
  <2>2. pow2[m + 1] = 2 * pow2[m] /\ pow2[m] \in Nat \ {0}
    BY <1>2, <2>1, Pow2At
  <2> QED
    BY <2>2
<1>3. \A m \in Nat : m \in G
  <2> HIDE DEF G
  <2> QED
    BY <1>1, <1>2, NatSetInduction
<1>4. \A n \in 0 .. AmountBits : pow2[n] \in Nat \ {0}
  BY <1>0, <1>3
<1>5. /\ AmountBits \in 1 .. AmountBits /\ AmountBits - 1 \in 0 .. AmountBits
      /\ AmountBits \in 0 .. AmountBits
  BY <1>0
<1>6. Amounts = 2 * pow2[AmountBits - 1]
  BY <1>5, Pow2At DEF Amounts
<1> QED
  BY <1>4, <1>5, <1>6 DEF Amounts

(***************************************************************************)
(* Amounts of double width fit at some scale, the least of which leaves    *)
(* one of them with all bits.                                              *)
(***************************************************************************)
LEMMA ScaleExists ==
    ASSUME NEW a \in Nat, NEW q \in Nat, a < Amounts * Amounts, q < Amounts * Amounts
    PROVE  /\ ScaleOf(a, q) \in Nat \ {0}
           /\ a < Amounts * ScaleOf(a, q) /\ q < Amounts * ScaleOf(a, q)
           /\ \/ ScaleOf(a, q) = 1
              \/ 2 * a >= Amounts * ScaleOf(a, q)
              \/ 2 * q >= Amounts * ScaleOf(a, q)
<1>0. AmountBits \in Nat \ {0} /\ Amounts \in Nat \ {0}
  BY PricesAssumption, Pow2Type
<1> DEFINE fit == {e \in 0 .. AmountBits : a < Amounts * pow2[e] /\ q < Amounts * pow2[e]}
<1>1. AmountBits \in fit
  BY <1>0 DEF Amounts
<1>2. PICK e \in fit : \A f \in fit : e <= f
  <2>1. fit \in SUBSET Nat /\ fit # {}
    BY <1>1
  <2> HIDE DEF fit
  <2> QED
    BY <2>1, NatMinimum
<1>3. /\ e \in 0 .. AmountBits /\ pow2[e] \in Nat \ {0}
      /\ a < Amounts * pow2[e] /\ q < Amounts * pow2[e]
  BY <1>2, Pow2Type
<1>4. ASSUME e # 0
      PROVE  2 * a >= Amounts * pow2[e] \/ 2 * q >= Amounts * pow2[e]
  <2>1. e - 1 \in 0 .. AmountBits /\ e \in 1 .. AmountBits /\ ~(e <= e - 1)
    BY <1>0, <1>3, <1>4
  <2>2. ~(a < Amounts * pow2[e - 1] /\ q < Amounts * pow2[e - 1])
    BY <1>2, <2>1
  <2>3. pow2[e] = 2 * pow2[e - 1] /\ pow2[e - 1] \in Nat
    BY <2>1, Pow2At, Pow2Type
  <2>4. PICK s, A \in Nat : s = pow2[e - 1] /\ A = Amounts
    BY <1>0, <2>3
  <2>5. A * (2 * s) = 2 * (A * s) /\ A * s \in Nat
    OBVIOUS
  <2>6. ~(a < A * s /\ q < A * s)
    BY <2>2, <2>4
  <2>7. 2 * a >= A * (2 * s) \/ 2 * q >= A * (2 * s)
    BY <2>5, <2>6
  <2> QED
    BY <2>3, <2>4, <2>7
<1>5. e = 0 => pow2[e] = 1
  BY Pow2At
<1> HIDE DEF fit
<1>6. \E scale \in Scales :
          /\ a < Amounts * scale /\ q < Amounts * scale
          /\ \/ scale = 1
             \/ 2 * a >= Amounts * scale \/ 2 * q >= Amounts * scale
  <2>1. pow2[e] \in Scales
    BY <1>3 DEF Scales
  <2> QED
    BY <1>3, <1>4, <1>5, <2>1
<1>7. /\ ScaleOf(a, q) \in Scales
      /\ a < Amounts * ScaleOf(a, q) /\ q < Amounts * ScaleOf(a, q)
      /\ \/ ScaleOf(a, q) = 1
         \/ 2 * a >= Amounts * ScaleOf(a, q)
         \/ 2 * q >= Amounts * ScaleOf(a, q)
  BY <1>6, Zenon DEF ScaleOf
<1>8. \A s \in Scales : s \in Nat \ {0}
  BY Pow2Type DEF Scales
<1> QED
  BY <1>7, <1>8

\* Of the amounts a and q the trimming leaves x and y
Trims(a, q, s, x, y, e, f) ==
    /\ s \in Nat \ {0} /\ x \in Nat /\ y \in Nat /\ e \in Nat /\ f \in Nat
    /\ a = s * x + e /\ e < s /\ q = s * y + f /\ f < s
    /\ Fits(x) /\ Fits(y)
    /\ s = 1 \/ 2 * x >= Amounts \/ 2 * y >= Amounts
    /\ TrimDown(a, q) = IF x = 0 \/ y = 0 THEN Panic ELSE Coprime(x, y)

(***************************************************************************)
(* trim_down of amounts of double width.                                   *)
(***************************************************************************)
LEMMA TrimDownOf ==
    ASSUME NEW a \in Nat, NEW q \in Nat, a < Amounts * Amounts, q < Amounts * Amounts
    PROVE  \E s, x, y, e, f : Trims(a, q, s, x, y, e, f)
<1>0. Amounts \in Nat \ {0}
  BY Pow2Type
<1>1. PICK s : s = ScaleOf(a, q)
  OBVIOUS
<1>2. /\ s \in Nat \ {0} /\ a < Amounts * s /\ q < Amounts * s
      /\ s = 1 \/ 2 * a >= Amounts * s \/ 2 * q >= Amounts * s
  BY <1>1, ScaleExists
<1>3. TrimDown(a, q) = IF a < s \/ q < s THEN Panic ELSE Coprime(a \div s, q \div s)
  BY <1>1, Zenon DEF TrimDown
<1>4. PICK half \in Nat \ {0} : Amounts = 2 * half
  BY Pow2Type
<1>5. ASSUME NEW b \in Nat, b < Amounts * s
      PROVE  /\ b \div s \in Nat /\ b % s \in Nat /\ b % s < s
             /\ b = s * (b \div s) + (b % s)
             /\ Fits(b \div s) /\ (b < s <=> b \div s = 0)
             /\ 2 * b >= Amounts * s => 2 * (b \div s) >= Amounts
  <2>1. PICK x, e \in Nat : x = b \div s /\ e = b % s /\ e < s /\ b = s * x + e
    BY <1>2, Remainder
  <2>2. x < Amounts
    <3> SUFFICES ASSUME Amounts <= x PROVE FALSE
      BY <1>0
    <3>1. PICK n \in Nat : n = Amounts
      BY <1>0
    <3>2. s * n <= s * x /\ s * x \in Nat /\ s * n \in Nat /\ s * n = n * s
      BY <1>2, <3>1, ScaledLe
    <3> QED
      BY <1>5, <2>1, <3>1, <3>2
  <2>3. b < s <=> x = 0
    <3>1. x = 0 => s * x = 0
      BY <1>2
    <3>2. x # 0 => s * x >= s /\ s * x \in Nat
      <4> SUFFICES ASSUME x # 0 PROVE s * x >= s /\ s * x \in Nat
        OBVIOUS
      <4>1. s * 1 <= s * x
        BY <1>2, ScaledLe
      <4> QED
        BY <1>2, <4>1
    <3> QED
      BY <1>2, <2>1, <3>1, <3>2
  <2>4. 2 * b >= Amounts * s => 2 * x >= Amounts
    <3> SUFFICES ASSUME 2 * b >= Amounts * s, x < half PROVE FALSE
      BY <1>4
    <3>1. s * (x + 1) <= s * half /\ s * half \in Nat
      BY <1>2, ScaledLe
    <3>2. s * (x + 1) = s * x + s /\ (2 * half) * s = 2 * (s * half) /\ s * x \in Nat
      BY <1>2
    <3> QED
      BY <1>2, <1>4, <2>1, <3>1, <3>2
  <2> QED
    BY <2>1, <2>2, <2>3, <2>4 DEF Fits
<1>6. Trims(a, q, s, a \div s, q \div s, a % s, q % s)
  BY <1>2, <1>3, <1>5 DEF Trims
<1> QED
  BY <1>6

(***************************************************************************)
(* A bound holds of amounts scaled down, the one rounded down and the      *)
(* other up.                                                               *)
(***************************************************************************)
LEMMA LowerScaled ==
    ASSUME NEW a \in Nat, NEW q \in Nat, NEW x \in Nat, NEW y \in Nat, NEW j \in Nat,
           j <= Precision, NEW s \in Nat \ {0}, NEW b \in Nat, NEW r \in Nat,
           s * b <= a, q <= s * r, Lower(a, q, x, y, j)
    PROVE  Lower(b, r, x, y, j)
<1>1. PICK u, n \in Nat : u = Precision - j /\ n = Precision
  BY Room
<1>2. PICK e, f, g \in Nat : e = x * u /\ f = y * n /\ g = s * b
  OBVIOUS
<1>3. e * g <= e * a
  BY <1>2, ScaledLe
<1>4. PICK h \in Nat : h = s * r
  OBVIOUS
<1>5. f * q <= f * h
  BY <1>4, ScaledLe
<1>6. e * a <= f * q
  <2>1. (x * u) * a = x * a * u /\ (y * n) * q = q * y * n
    OBVIOUS
  <2> QED
    BY <1>1, <1>2, <2>1 DEF Lower
<1>7. e * g \in Nat /\ e * a \in Nat /\ f * q \in Nat /\ f * h \in Nat
  OBVIOUS
<1>8. e * g <= f * h
  BY <1>3, <1>5, <1>6, <1>7
<1>9. PICK v, w \in Nat : v = x * b * u /\ w = r * y * n
  OBVIOUS
<1>10. e * g = s * v /\ f * h = s * w
  <2>1. (x * u) * (s * b) = s * (x * b * u) /\ (y * n) * (s * r) = s * (r * y * n)
    OBVIOUS
  <2> QED
    BY <1>2, <1>4, <1>9, <2>1
<1>11. v <= w
  BY <1>8, <1>10, ScaledLe
<1> QED
  BY <1>1, <1>9, <1>11 DEF Lower

----------------------------------------------------------------------------
(* The prices computed and the prices observed *)

\* Two moderate prices, the lower and the higher one: lq / la and hq / ha
InRange(b) ==
    /\ b.la \in Nat \ {0} /\ b.lq \in Nat \ {0}
    /\ b.ha \in Nat \ {0} /\ b.hq \in Nat \ {0}
    /\ b.la <= Spread * b.lq /\ b.hq <= Spread * b.ha

\* q / a is between w / t of them but for j roundings
Around(a, q, b, w, t, j) ==
    /\ Lower(a, q, w * b.lq, t * b.la, j)
    /\ Lower(q, a, t * b.ha, w * b.hq, j)

\* p is a proper price between w / t of them
Between(p, b, w, t, j) == Proper(p) /\ Around(p.amount, p.quote, b, w, t, j)

\* A weight at which FACTOR, and the width, leave enough of moderate prices
Heavy(w, t) ==
    w \in Nat \ {0} /\ t \in Nat \ {0} /\ 2 * t * Spread * Precision <= FACTOR * w

(***************************************************************************)
(* Moderation of what is between moderate prices.                          *)
(***************************************************************************)
LEMMA AroundModerate ==
    ASSUME NEW a \in Nat, NEW q \in Nat, NEW b, InRange(b), NEW w \in Nat, NEW t \in Nat,
           NEW j \in Nat, 2 * j <= Precision, Around(a, q, b, w, t, j)
    PROVE  w * a <= 2 * t * Spread * q /\ t * q <= 2 * w * Spread * a
<1>1. w * a <= 2 * t * Spread * q
  BY LowerModerate DEF InRange, Around
<1>2. t * q <= 2 * w * Spread * a
  BY LowerModerate DEF InRange, Around
<1> QED
  BY <1>1, <1>2

(***************************************************************************)
(* The width of amounts at a weight up to one.                             *)
(***************************************************************************)
LEMMA HalfWidth ==
    ASSUME NEW w, NEW t, Heavy(w, t), w <= t
    PROVE  \E half \in Nat \ {0} :
               /\ Amounts = 2 * half /\ FACTOR <= half
               /\ 2 * Spread * Precision <= FACTOR
<1>1. PICK half \in Nat \ {0} : Amounts = 2 * half
  BY Pow2Type
<1>2. PICK n, m, f, k \in Nat \ {0} : /\ n = Precision /\ m = Spread /\ f = FACTOR
                                      /\ k = Cardinality(Accounts)
  BY Room
<1>3. f <= half
  <2>1. 2 * f * m * k < 2 * half
    BY <1>1, <1>2, RoundingAssumption DEF Fits
  <2>2. PICK e \in Nat : e = m * k /\ 1 <= e
    <3>1. m * k \in Nat /\ m * k # 0
      OBVIOUS
    <3> QED
      BY <3>1
  <2>3. f * 1 <= f * e /\ f * e \in Nat
    BY <2>2, ScaledLe
  <2>4. 2 * f * m * k = 2 * (f * (m * k))
    OBVIOUS
  <2> QED
    BY <2>1, <2>2, <2>3, <2>4
<1>4. 2 * m * n <= f
  <2>1. w \in Nat \ {0} /\ t \in Nat \ {0} /\ 2 * t * m * n <= f * w
    BY <1>2 DEF Heavy
  <2>2. f * w <= f * t
    BY <2>1, ScaledLe
  <2>3. PICK e \in Nat : e = 2 * m * n
    OBVIOUS
  <2>4. t * e <= t * f
    <3>1. 2 * t * m * n = t * (2 * m * n) /\ f * t = t * f
      BY <2>1
    <3>2. f * w \in Nat /\ f * t \in Nat /\ t * e \in Nat
      BY <2>1
    <3> QED
      BY <2>1, <2>2, <2>3, <3>1, <3>2
  <2>5. e <= f
    BY <2>1, <2>4, ScaledLe
  <2> QED
    BY <2>3, <2>5
<1> QED
  BY <1>1, <1>2, <1>3, <1>4

(***************************************************************************)
(* A quotient of n or more.                                                *)
(***************************************************************************)
LEMMA QuotientAtLeast ==
    ASSUME NEW q \in Nat, NEW s \in Nat \ {0}, NEW y \in Nat, NEW f \in Nat,
           q = s * y + f, f < s, NEW n \in Nat, s * n <= q
    PROVE  n <= y
<1> SUFFICES ASSUME y + 1 <= n PROVE FALSE
  OBVIOUS
<1>1. s * (y + 1) <= s * n
  BY ScaledLe
<1>2. s * (y + 1) = s * y + s /\ s * y \in Nat /\ s * n \in Nat
  OBVIOUS
<1> QED
  BY <1>1, <1>2

(***************************************************************************)
(* Trimming keeps all of Precision of moderate amounts.                    *)
(***************************************************************************)
LEMMA TrimmedEnough ==
    ASSUME NEW a \in Nat, NEW q \in Nat, NEW w, NEW t, Heavy(w, t), w <= t,
           w * a <= 2 * t * Spread * q, t * q <= 2 * w * Spread * a,
           NEW s, NEW x, NEW y, NEW e, NEW f, Trims(a, q, s, x, y, e, f), s # 1
    PROVE  Precision <= x /\ Precision <= y
<1>1. PICK half \in Nat \ {0} : /\ Amounts = 2 * half /\ FACTOR <= half
                                /\ 2 * Spread * Precision <= FACTOR
  BY HalfWidth
<1>2. PICK n, m, g \in Nat \ {0} : n = Precision /\ m = Spread /\ g = FACTOR
  BY Room
<1>3. /\ w \in Nat \ {0} /\ t \in Nat \ {0} /\ 2 * t * m * n <= g * w
      /\ g <= half /\ 2 * m * n <= g
  BY <1>1, <1>2 DEF Heavy
<1>4. /\ s \in Nat \ {0} /\ x \in Nat /\ y \in Nat /\ e \in Nat /\ f \in Nat
      /\ a = s * x + e /\ e < s /\ q = s * y + f /\ f < s
      /\ half <= x \/ half <= y
  BY <1>1 DEF Trims
<1>5. n <= g
  <2>1. n * 1 <= n * (2 * m)
    BY ScaledLe
  <2>2. n * (2 * m) = 2 * m * n /\ n * 1 = n
    OBVIOUS
  <2> QED
    BY <1>3, <2>1, <2>2
<1>6. CASE half <= x
  <2>1. n <= x
    BY <1>3, <1>5, <1>6, <1>4
  <2>2. s * g <= a
    <3>1. s * g <= s * x
      BY <1>3, <1>4, <1>6, ScaledLe
    <3>2. s * x \in Nat /\ s * g \in Nat
      BY <1>4
    <3> QED
      BY <1>4, <3>1, <3>2
  <2>3. w * (s * g) <= w * a
    BY <1>3, <1>4, <2>2, ScaledLe
  <2>4. s * (2 * t * m * n) <= s * (g * w)
    <3>1. PICK c, d \in Nat : c = 2 * t * m * n /\ d = g * w
      BY <1>3
    <3> QED
      BY <1>3, <1>4, <3>1, ScaledLe
  <2>5. PICK c, d, h \in Nat : c = 2 * t * m /\ d = s * n /\ h = w * a
    BY <1>3, <1>4
  <2>6. c * d <= c * q
    <3>1. s * (2 * t * m * n) = c * d /\ s * (g * w) = w * (s * g)
      <4>1. s * (2 * t * m * n) = (2 * t * m) * (s * n) /\ s * (g * w) = w * (s * g)
        BY <1>3, <1>4
      <4> QED
        BY <2>5, <4>1
    <3>2. h <= c * q
      BY <1>2, <2>5
    <3>3. c * d \in Nat /\ c * q \in Nat /\ w * (s * g) \in Nat
      BY <1>3, <1>4
    <3> QED
      BY <2>3, <2>4, <2>5, <3>1, <3>2, <3>3
  <2>7. c # 0
    <3>1. t * m # 0 /\ t * m \in Nat
      BY <1>3
    <3>2. 2 * t * m = 2 * (t * m)
      BY <1>3
    <3> QED
      BY <2>5, <3>1, <3>2
  <2>8. s * n <= q
    BY <2>5, <2>6, <2>7, ScaledLe
  <2>9. n <= y
    BY <1>4, <2>8, QuotientAtLeast
  <2> QED
    BY <1>2, <2>1, <2>9
<1>7. CASE half <= y
  <2>1. n <= y
    BY <1>3, <1>5, <1>7, <1>4
  <2>2. s * (2 * m * n) <= q
    <3>1. PICK c \in Nat : c = 2 * m * n /\ c <= y
      BY <1>3, <1>4, <1>7
    <3>2. s * c <= s * y
      BY <1>4, <3>1, ScaledLe
    <3>3. s * c \in Nat /\ s * y \in Nat
      BY <1>4
    <3> QED
      BY <1>4, <3>1, <3>2, <3>3
  <2>3. PICK c, d, h \in Nat : c = 2 * m /\ d = s * n /\ h = c * d
    BY <1>4
  <2>4. h = s * (2 * m * n)
    <3>1. (2 * m) * (s * n) = s * (2 * m * n)
      BY <1>4
    <3> QED
      BY <2>3, <3>1
  <2>5. w * h <= t * h
    <3>1. h * w <= h * t
      BY <1>3, ScaledLe
    <3>2. h * w = w * h /\ h * t = t * h
      BY <1>3
    <3> QED
      BY <3>1, <3>2
  <2>6. t * h <= t * q
    BY <1>3, <2>2, <2>4, ScaledLe
  <2>7. w * h <= w * (c * a)
    <3>1. t * q <= 2 * w * m * a
      BY <1>2
    <3>2. 2 * w * m * a = w * ((2 * m) * a)
      BY <1>3
    <3>3. w * h \in Nat /\ t * h \in Nat /\ t * q \in Nat /\ w * (c * a) \in Nat
      BY <1>3
    <3> QED
      BY <2>3, <2>5, <2>6, <3>1, <3>2, <3>3
  <2>8. h <= c * a
    <3>1. PICK k \in Nat : k = c * a
      OBVIOUS
    <3> QED
      BY <1>3, <2>7, <3>1, ScaledLe
  <2>9. d <= a
    <3>1. c # 0
      BY <2>3
    <3> QED
      BY <2>3, <2>8, <3>1, ScaledLe
  <2>10. n <= x
    BY <1>4, <2>3, <2>9, QuotientAtLeast
  <2> QED
    BY <1>2, <2>1, <2>10
<1> QED
  BY <1>4, <1>6, <1>7

(***************************************************************************)
(* So a trimming is a rounding at most.                                    *)
(***************************************************************************)
LEMMA TrimmedAround ==
    ASSUME NEW a \in Nat \ {0}, NEW q \in Nat \ {0}, NEW b, InRange(b),
           NEW w, NEW t, Heavy(w, t), w <= t, NEW j \in Nat, 2 * (j + 1) <= Precision,
           Around(a, q, b, w, t, j),
           NEW s, NEW x, NEW y, NEW e, NEW f, Trims(a, q, s, x, y, e, f)
    PROVE  x # 0 /\ y # 0 /\ Around(x, y, b, w, t, j + 1)
<1>1. /\ s \in Nat \ {0} /\ x \in Nat /\ y \in Nat /\ e \in Nat /\ f \in Nat
      /\ a = s * x + e /\ e < s /\ q = s * y + f /\ f < s
  BY DEF Trims
<1>2. /\ Precision \in Nat \ {0} /\ j <= j + 1 /\ j + 1 <= Precision /\ j + 1 \in Nat
      /\ j <= Precision /\ 2 * j <= Precision
  BY Room
<1>3. PICK lx, ly, hx, hy \in Nat : /\ lx = w * b.lq /\ ly = t * b.la
                                    /\ hx = w * b.hq /\ hy = t * b.ha
  BY DEF Heavy, InRange
<1>4. Lower(a, q, lx, ly, j) /\ Lower(q, a, hy, hx, j)
  BY <1>3 DEF Around
<1>5. CASE s = 1
  <2>1. x = a /\ y = q
    BY <1>1, <1>5
  <2>2. Lower(a, q, lx, ly, j + 1) /\ Lower(q, a, hy, hx, j + 1)
    BY <1>2, <1>4, LowerMore
  <2> QED
    BY <1>3, <2>1, <2>2 DEF Around
<1>6. CASE s # 1
  <2>1. w * a <= 2 * t * Spread * q /\ t * q <= 2 * w * Spread * a
    BY <1>2, AroundModerate DEF Heavy
  <2>2. Precision <= x /\ Precision <= y
    BY <1>6, <2>1, TrimmedEnough
  <2>3. s * x <= a /\ q <= s * (y + 1) /\ s * y <= q /\ a <= s * (x + 1)
    <3>1. /\ s * (y + 1) = s * y + s /\ s * (x + 1) = s * x + s
          /\ s * y \in Nat /\ s * x \in Nat
      BY <1>1
    <3> QED
      BY <1>1, <3>1
  <2>4. Lower(x, y + 1, lx, ly, j) /\ Lower(y, x + 1, hy, hx, j)
    <3>1. x + 1 \in Nat /\ y + 1 \in Nat
      BY <1>1
    <3> QED
      BY <1>1, <1>2, <1>4, <2>3, <3>1, LowerScaled
  <2>5. Lower(x, y, lx, ly, j + 1)
    <3>1. lx * x * (Precision - j) <= (y + 1) * ly * Precision
      BY <2>4 DEF Lower
    <3> QED
      BY <1>1, <1>2, <2>2, <3>1, LowerRounded
  <2>6. Lower(y, x, hy, hx, j + 1)
    <3>1. hy * y * (Precision - j) <= (x + 1) * hx * Precision
      BY <2>4 DEF Lower
    <3> QED
      BY <1>1, <1>2, <2>2, <3>1, LowerRounded
  <2> QED
    BY <1>1, <1>2, <1>3, <2>2, <2>5, <2>6 DEF Around
<1> QED
  BY <1>5, <1>6

\* In lowest terms a and b, not both zero, are x and y
Divided(a, b, d, x, y) ==
    /\ d \in Nat \ {0} /\ x \in Nat /\ y \in Nat
    /\ a = d * x /\ b = d * y /\ Coprime(a, b) = Price(x, y)
    /\ x <= a /\ y <= b /\ (a > 0 => x > 0) /\ (b > 0 => y > 0)

(***************************************************************************)
(* into_coprime_with, of zero as well.                                     *)
(***************************************************************************)
LEMMA CoprimeAny ==
    ASSUME NEW a \in Nat, NEW b \in Nat, a > 0 \/ b > 0
    PROVE  \E d, x, y : Divided(a, b, d, x, y)
<1> DEFINE d == gcd[b][a]
<1>1. d \in Nat /\ d > 0 /\ Divides(d, a, b)
  BY GcdDivides
<1>2. PICK x, y \in Nat : a = d * x /\ b = d * y
  <2> HIDE DEF d
  <2> QED
    BY <1>1 DEF Divides
<1>3. Coprime(a, b) = Price(a \div d, b \div d)
  BY DEF Coprime
<1> HIDE DEF d
<1>4. ASSUME NEW z \in Nat
      PROVE  (d * z) \div d = z /\ z <= d * z /\ (d * z > 0 => z > 0)
  <2>1. PICK f \in Nat : d = f + 1
    BY <1>1
  <2>2. (f + 1) * z = f * z + z /\ f * z \in Nat
    OBVIOUS
  <2>3. z = 0 => d * z = 0
    BY <1>1
  <2>4. (d * z) \div d = z
    BY <1>1
  <2> QED
    BY <2>1, <2>2, <2>3, <2>4
<1>5. Divided(a, b, d, x, y)
  <2>1. a \div d = x /\ b \div d = y /\ x <= a /\ y <= b
    BY <1>2, <1>4
  <2>2. (a > 0 => x > 0) /\ (b > 0 => y > 0)
    BY <1>2, <1>4
  <2> QED
    BY <1>1, <1>2, <1>3, <2>1, <2>2 DEF Divided
<1> QED
  BY <1>5

\* How a price q / a is multiplied by k / m
Multiplies(a, q, k, m, c, b, l, d, r, n) ==
    /\ c \in Nat \ {0} /\ d \in Nat \ {0}
    /\ b \in Nat /\ l \in Nat /\ r \in Nat /\ n \in Nat
    /\ a = c * b /\ k = c * l /\ q = d * r /\ m = d * n
    /\ b * n # 0 /\ (q > 0 /\ k > 0 => r * l # 0)
    /\ b * n < Amounts * Amounts /\ r * l < Amounts * Amounts
    /\ LossyMul(Price(a, q), k, m) = TrimDown(b * n, r * l)

(***************************************************************************)
(* Price::lossy_mul.                                                       *)
(***************************************************************************)
LEMMA LossyMulOf ==
    ASSUME NEW a \in Nat \ {0}, NEW q \in Nat, NEW k \in Nat, NEW m \in Nat \ {0},
           Fits(a), Fits(q), Fits(k), Fits(m)
    PROVE  \E c, b, l, d, r, n : Multiplies(a, q, k, m, c, b, l, d, r, n)
<1>0. Amounts \in Nat \ {0} /\ a < Amounts /\ q < Amounts /\ k < Amounts /\ m < Amounts
  BY Pow2Type DEF Fits
<1>1a. PICK c, b, l : Divided(a, k, c, b, l)
  BY CoprimeAny
<1>1. /\ c \in Nat \ {0} /\ b \in Nat /\ l \in Nat
          /\ a = c * b /\ k = c * l /\ Coprime(a, k) = Price(b, l)
          /\ b <= a /\ l <= k /\ (a > 0 => b > 0) /\ (k > 0 => l > 0)
  BY <1>1a DEF Divided
<1>2a. PICK d, r, n : Divided(q, m, d, r, n)
  BY CoprimeAny
<1>2. /\ d \in Nat \ {0} /\ r \in Nat /\ n \in Nat
          /\ q = d * r /\ m = d * n /\ Coprime(q, m) = Price(r, n)
          /\ r <= q /\ n <= m /\ (q > 0 => r > 0) /\ (m > 0 => n > 0)
  BY <1>2a DEF Divided
<1>3. LossyMul(Price(a, q), k, m) = TrimDown(b * n, r * l)
  <2>1. Price(a, q).amount = a /\ Price(a, q).quote = q /\ Price(a, q) # Panic
    BY DEF Price, Panic
  <2>2. /\ Price(b, l).amount = b /\ Price(b, l).quote = l
        /\ Price(r, n).amount = r /\ Price(r, n).quote = n
    BY DEF Price
  <2>3. LossyMul(Price(a, q), k, m)
          = TrimDown(Coprime(a, k).amount * Coprime(q, m).quote,
                     Coprime(q, m).amount * Coprime(a, k).quote)
    BY <2>1, Zenon DEF LossyMul
  <2> QED
    BY <1>1, <1>2, <2>2, <2>3
<1>4. ASSUME NEW x \in Nat, NEW y \in Nat, x < Amounts, y < Amounts
      PROVE  x * y < Amounts * Amounts
  <2>1. PICK A \in Nat : A = Amounts
    BY <1>0
  <2>2. x * y <= x * A
    BY <1>4, <2>1, ScaledLe
  <2>3. A * (x + 1) <= A * A
    BY <1>4, <2>1, ScaledLe
  <2>4. A * (x + 1) = x * A + A /\ x * A \in Nat /\ x * y \in Nat /\ A * A \in Nat
    OBVIOUS
  <2>5. A > 0
    BY <1>0, <2>1
  <2> QED
    BY <2>1, <2>2, <2>3, <2>4, <2>5
<1>5. b * n < Amounts * Amounts /\ r * l < Amounts * Amounts
  BY <1>0, <1>1, <1>2, <1>4
<1>6. b * n # 0 /\ (q > 0 /\ k > 0 => r * l # 0)
  BY <1>1, <1>2
<1>7. Multiplies(a, q, k, m, c, b, l, d, r, n)
  BY <1>1, <1>2, <1>3, <1>5, <1>6 DEF Multiplies
<1> QED
  BY <1>7

(***************************************************************************)
(* In lowest terms an amount still fits.                                   *)
(***************************************************************************)
LEMMA ReducedFits ==
    ASSUME NEW x \in Nat \ {0}, NEW y \in Nat, Fits(x), Fits(y)
    PROVE  \E d, v, z : /\ Reduces(x, y, d, v, z) /\ Fits(v) /\ Fits(z)
                        /\ v = Coprime(x, y).amount /\ z = Coprime(x, y).quote
                        /\ Summed(Coprime(x, y))
                        /\ y # 0 => Proper(Coprime(x, y))
<1>0. Amounts \in Nat \ {0}
  BY Pow2Type
<1>1. PICK d, v, z : Reduces(x, y, d, v, z)
  BY CoprimeOf
<1>2. /\ d \in Nat \ {0} /\ v \in Nat \ {0} /\ z \in Nat
      /\ x = d * v /\ y = d * z /\ Coprime(x, y) = Price(v, z) /\ (y > 0 => z > 0)
  BY <1>1 DEF Reduces
<1>3. v <= x /\ z <= y
  <2>1. PICK e \in Nat : d = e + 1
    BY <1>2
  <2>2. ASSUME NEW u \in Nat PROVE u <= (e + 1) * u
    <3>1. (e + 1) * u = e * u + u /\ e * u \in Nat
      OBVIOUS
    <3> QED
      BY <3>1
  <2>3. v <= (e + 1) * v /\ z <= (e + 1) * z
    BY <1>2, <2>2
  <2> QED
    BY <1>2, <2>1, <2>3
<1>4. Fits(v) /\ Fits(z)
  BY <1>0, <1>2, <1>3 DEF Fits
<1>5. Coprime(x, y) = [amount |-> v, quote |-> z]
  BY <1>2 DEF Price
<1>6. Summed(Coprime(x, y)) /\ (y # 0 => Proper(Coprime(x, y)))
  BY <1>2, <1>4, <1>5 DEF Summed, Proper, PriceType, Positive
<1> QED
  BY <1>1, <1>4, <1>5, <1>6

(***************************************************************************)
(* Lowest terms keep the ratio, and with it the range that it is in.       *)
(***************************************************************************)
LEMMA ReducedBetween ==
    ASSUME NEW x \in Nat \ {0}, NEW y \in Nat \ {0}, Fits(x), Fits(y),
           NEW b, InRange(b), NEW w \in Nat, NEW t \in Nat, NEW j \in Nat,
           j <= Precision, Around(x, y, b, w, t, j)
    PROVE  Between(Coprime(x, y), b, w, t, j)
<1>1. PICK d, v, z : /\ Reduces(x, y, d, v, z)
                     /\ v = Coprime(x, y).amount /\ z = Coprime(x, y).quote
                     /\ y # 0 => Proper(Coprime(x, y))
  BY ReducedFits
<1>2. d \in Nat \ {0} /\ v \in Nat /\ z \in Nat /\ x = d * v /\ y = d * z
  BY <1>1 DEF Reduces
<1>3. PICK lx, ly, hx, hy \in Nat : /\ lx = w * b.lq /\ ly = t * b.la
                                    /\ hx = w * b.hq /\ hy = t * b.ha
  BY DEF InRange
<1>4. Lower(x, y, lx, ly, j) /\ Lower(y, x, hy, hx, j)
  BY <1>3 DEF Around
<1>5. Lower(v, z, lx, ly, j) /\ Lower(z, v, hy, hx, j)
  BY <1>2, <1>4, LowerReduced
<1> QED
  BY <1>1, <1>3, <1>5 DEF Between, Around

(***************************************************************************)
(* A price as its amounts.                                                 *)
(***************************************************************************)
LEMMA PriceParts ==
    ASSUME NEW p
    PROVE  /\ Proper(p) => /\ p = Price(p.amount, p.quote)
                           /\ p.amount \in Nat \ {0} /\ p.quote \in Nat \ {0}
                           /\ Fits(p.amount) /\ Fits(p.quote) /\ p # Panic
           /\ Summed(p) /\ p # Panic =>
                           /\ p = Price(p.amount, p.quote)
                           /\ p.amount \in Nat \ {0} /\ p.quote \in Nat
                           /\ Fits(p.amount) /\ Fits(p.quote)
           /\ Proper(p) => Summed(p) /\ Computed(p)
           /\ Computed(p) => Summed(p)
BY DEF Proper, Summed, Computed, PriceType, Positive, Price, Panic

(***************************************************************************)
(* A product is a proper price or panics.                                  *)
(***************************************************************************)
LEMMA LossyMulComputed ==
    ASSUME NEW p, Summed(p), NEW k \in Nat, NEW m \in Nat \ {0}, Fits(k), Fits(m)
    PROVE  Computed(LossyMul(p, k, m))
<1>1. CASE p = Panic
  BY <1>1 DEF LossyMul, Computed
<1>2. CASE p # Panic
  <2>1. PICK a \in Nat \ {0}, q \in Nat : p = Price(a, q) /\ Fits(a) /\ Fits(q)
    BY <1>2, PriceParts
  <2>2. PICK c, b, l, d, r, n : Multiplies(a, q, k, m, c, b, l, d, r, n)
    BY <2>1, LossyMulOf
  <2>3. PICK A, Q \in Nat : /\ A = b * n /\ Q = r * l
                            /\ A < Amounts * Amounts /\ Q < Amounts * Amounts
                            /\ LossyMul(Price(a, q), k, m) = TrimDown(A, Q)
    BY <2>2 DEF Multiplies
  <2>4. PICK s, x, y, e, f : Trims(A, Q, s, x, y, e, f)
    BY <2>3, TrimDownOf
  <2>5. /\ x \in Nat /\ y \in Nat /\ Fits(x) /\ Fits(y)
        /\ TrimDown(A, Q) = IF x = 0 \/ y = 0 THEN Panic ELSE Coprime(x, y)
    BY <2>4 DEF Trims
  <2>6. x # 0 /\ y # 0 => Proper(Coprime(x, y))
    BY <2>5, ReducedFits
  <2> QED
    BY <2>1, <2>3, <2>5, <2>6 DEF Computed
<1> QED
  BY <1>1, <1>2

(***************************************************************************)
(* The product of a price between moderate ones, by a weight k / m, is     *)
(* between the products of those but for a rounding more.                  *)
(***************************************************************************)
LEMMA LossyMulBetween ==
    ASSUME NEW p, NEW b, InRange(b), NEW w \in Nat, NEW t \in Nat, NEW j \in Nat,
           Between(p, b, w, t, j), NEW k \in Nat \ {0}, NEW m \in Nat \ {0},
           Fits(k), Fits(m), Heavy(w * k, t * m), w * k <= t * m,
           2 * (j + 1) <= Precision
    PROVE  Between(LossyMul(p, k, m), b, w * k, t * m, j + 1)
<1>0. j <= Precision /\ j + 1 <= Precision /\ j + 1 \in Nat
  BY Room
<1>1. PICK a, q \in Nat \ {0} : /\ p = Price(a, q) /\ Fits(a) /\ Fits(q)
                                /\ a = p.amount /\ q = p.quote
  BY PriceParts DEF Between
<1>2. PICK c, i, l, d, r, n : Multiplies(a, q, k, m, c, i, l, d, r, n)
  BY <1>1, LossyMulOf
<1>3. /\ c \in Nat \ {0} /\ d \in Nat \ {0}
      /\ i \in Nat /\ l \in Nat /\ r \in Nat /\ n \in Nat
      /\ a = c * i /\ k = c * l /\ q = d * r /\ m = d * n
  BY <1>2 DEF Multiplies
<1>4. PICK A, Q \in Nat \ {0} : /\ A = i * n /\ Q = r * l
                                /\ A < Amounts * Amounts /\ Q < Amounts * Amounts
                                /\ LossyMul(p, k, m) = TrimDown(A, Q)
  <2>1. i * n \in Nat /\ r * l \in Nat
    BY <1>3
  <2> QED
    BY <1>1, <1>2, <2>1 DEF Multiplies
<1>5. Around(A, Q, b, w * k, t * m, j)
  <2>1. PICK la, lq, ha, hq \in Nat : la = b.la /\ lq = b.lq /\ ha = b.ha /\ hq = b.hq
    BY DEF InRange
  <2>2. Lower(a, q, w * lq, t * la, j) /\ Lower(q, a, t * ha, w * hq, j)
    BY <1>1, <2>1 DEF Between, Around
  <2>3. PICK lx, ly, hx, hy \in Nat : /\ lx = w * lq /\ ly = t * la
                                      /\ hx = w * hq /\ hy = t * ha
    OBVIOUS
  <2>4. /\ Lower(i * n, r * l, lx * k, ly * m, j)
        /\ Lower(r * l, i * n, hy * m, hx * k, j)
    <3>1. Lower(a, q, lx, ly, j) /\ Lower(q, a, hy, hx, j)
      BY <2>2, <2>3
    <3>2. Factors(a, k, c, i, l) /\ Factors(q, m, d, r, n)
      BY <1>3 DEF Factors
    <3>3. a \in Nat /\ q \in Nat /\ k \in Nat /\ m \in Nat
      OBVIOUS
    <3>4. Lower(i * n, r * l, lx * k, ly * m, j)
      BY <1>0, <3>1, <3>2, <3>3, LowerProduct, Zenon
    <3>5. Lower(r * l, i * n, hy * m, hx * k, j)
      BY <1>0, <3>1, <3>2, <3>3, LowerProduct, Zenon
    <3> QED
      BY <3>4, <3>5
  <2>5. /\ (w * lq) * k = (w * k) * lq /\ (t * la) * m = (t * m) * la
        /\ (t * ha) * m = (t * m) * ha /\ (w * hq) * k = (w * k) * hq
    OBVIOUS
  <2> QED
    BY <1>4, <2>1, <2>3, <2>4, <2>5 DEF Around
<1>6. PICK s, x, y, e, f : Trims(A, Q, s, x, y, e, f)
  BY <1>4, TrimDownOf
<1>7. /\ x \in Nat /\ y \in Nat /\ Fits(x) /\ Fits(y)
      /\ TrimDown(A, Q) = IF x = 0 \/ y = 0 THEN Panic ELSE Coprime(x, y)
  BY <1>6 DEF Trims
<1>8. x # 0 /\ y # 0 /\ Around(x, y, b, w * k, t * m, j + 1)
  <2>1. PICK u, v : u = w * k /\ v = t * m
    OBVIOUS
  <2>2. Around(A, Q, b, u, v, j) /\ Heavy(u, v) /\ u <= v
    BY <1>5, <2>1
  <2>3. x # 0 /\ y # 0 /\ Around(x, y, b, u, v, j + 1)
    BY <1>4, <1>6, <2>2, TrimmedAround
  <2> QED
    BY <2>1, <2>3
<1>9. Between(Coprime(x, y), b, w * k, t * m, j + 1)
  <2>1. w * k \in Nat /\ t * m \in Nat
    OBVIOUS
  <2> QED
    BY <1>0, <1>7, <1>8, <2>1, ReducedBetween
<1> QED
  BY <1>4, <1>7, <1>8, <1>9

(***************************************************************************)
(* Bounds of the terms add up to that of their exact sum.                  *)
(***************************************************************************)
LEMMA LowerSum ==
    ASSUME NEW a \in Nat \ {0}, NEW b \in Nat, NEW n \in Nat \ {0}, NEW r \in Nat,
           NEW g, NEW s, NEW t, SumsTo(a, b, n, r, g, s, t),
           NEW x \in Nat, NEW z \in Nat, NEW y \in Nat, NEW j \in Nat, j <= Precision
    PROVE  /\ Lower(a, b, x, y, j) /\ Lower(n, r, z, y, j) => Lower(s, t, x + z, y, j)
           /\ Lower(b, a, y, x, j) /\ Lower(r, n, y, z, j) => Lower(t, s, y, x + z, j)
<1>1. /\ g \in Nat \ {0} /\ s \in Nat \ {0} /\ t \in Nat
      /\ a * n = g * s /\ b * n + r * a = g * t
  BY DEF SumsTo
<1>2. PICK u, v \in Nat : u = Precision - j /\ v = Precision
  BY Room
<1>3. ASSUME Lower(a, b, x, y, j), Lower(n, r, z, y, j)
      PROVE  Lower(s, t, x + z, y, j)
  <2>1. x * a * u <= b * y * v /\ z * n * u <= r * y * v
    BY <1>2, <1>3 DEF Lower
  <2>2. n * (x * a * u) <= n * (b * y * v) /\ a * (z * n * u) <= a * (r * y * v)
    <3>1. PICK c, d, e, f \in Nat : /\ c = x * a * u /\ d = b * y * v
                                    /\ e = z * n * u /\ f = r * y * v
      OBVIOUS
    <3>2. n * c <= n * d /\ a * e <= a * f
      BY <2>1, <3>1, ScaledLe
    <3> QED
      BY <3>1, <3>2
  <2>3. PICK c, d \in Nat : c = (x + z) * s * u /\ d = t * y * v
    BY <1>1
  <2>4. n * (x * a * u) + a * (z * n * u) = g * c
    <3>1. n * (x * a * u) + a * (z * n * u) = (x + z) * (a * n) * u
      OBVIOUS
    <3>2. (x + z) * (g * s) * u = g * ((x + z) * s * u)
      BY <1>1
    <3> QED
      BY <1>1, <2>3, <3>1, <3>2
  <2>5. n * (b * y * v) + a * (r * y * v) = g * d
    <3>1. n * (b * y * v) + a * (r * y * v) = (b * n + r * a) * y * v
      OBVIOUS
    <3>2. (g * t) * y * v = g * (t * y * v)
      BY <1>1
    <3> QED
      BY <1>1, <2>3, <3>1, <3>2
  <2>6. g * c <= g * d
    <3>1. PICK k, l, m, i \in Nat : /\ k = n * (x * a * u) /\ l = n * (b * y * v)
                                    /\ m = a * (z * n * u) /\ i = a * (r * y * v)
      OBVIOUS
    <3>2. k + m <= l + i
      BY <2>2, <3>1
    <3> QED
      BY <2>4, <2>5, <3>1, <3>2
  <2>7. c <= d
    BY <1>1, <2>6, ScaledLe
  <2> QED
    BY <1>2, <2>3, <2>7 DEF Lower
<1>4. ASSUME Lower(b, a, y, x, j), Lower(r, n, y, z, j)
      PROVE  Lower(t, s, y, x + z, j)
  <2>1. y * b * u <= a * x * v /\ y * r * u <= n * z * v
    BY <1>2, <1>4 DEF Lower
  <2>2. n * (y * b * u) <= n * (a * x * v) /\ a * (y * r * u) <= a * (n * z * v)
    <3>1. PICK c, d, e, f \in Nat : /\ c = y * b * u /\ d = a * x * v
                                    /\ e = y * r * u /\ f = n * z * v
      OBVIOUS
    <3>2. n * c <= n * d /\ a * e <= a * f
      BY <2>1, <3>1, ScaledLe
    <3> QED
      BY <3>1, <3>2
  <2>3. PICK c, d \in Nat : c = y * t * u /\ d = s * (x + z) * v
    BY <1>1
  <2>4. n * (y * b * u) + a * (y * r * u) = g * c
    <3>1. n * (y * b * u) + a * (y * r * u) = y * (b * n + r * a) * u
      OBVIOUS
    <3>2. y * (g * t) * u = g * (y * t * u)
      BY <1>1
    <3> QED
      BY <1>1, <2>3, <3>1, <3>2
  <2>5. n * (a * x * v) + a * (n * z * v) = g * d
    <3>1. n * (a * x * v) + a * (n * z * v) = (a * n) * (x + z) * v
      OBVIOUS
    <3>2. (g * s) * (x + z) * v = g * (s * (x + z) * v)
      BY <1>1
    <3> QED
      BY <1>1, <2>3, <3>1, <3>2
  <2>6. g * c <= g * d
    <3>1. PICK k, l, m, i \in Nat : /\ k = n * (y * b * u) /\ l = n * (a * x * v)
                                    /\ m = a * (y * r * u) /\ i = a * (n * z * v)
      OBVIOUS
    <3>2. k + m <= l + i
      BY <2>2, <3>1
    <3> QED
      BY <2>4, <2>5, <3>1, <3>2
  <2>7. c <= d
    BY <1>1, <2>6, ScaledLe
  <2> QED
    BY <1>2, <2>3, <2>7 DEF Lower
<1> QED
  BY <1>3, <1>4

(***************************************************************************)
(* What is left of a price between moderate ones when it is rounded down   *)
(* to a unit of 1 / FACTOR: at least Precision units, at most the share of *)
(* its weight, and the same range but for a rounding more.                 *)
(***************************************************************************)
LEMMA UnitsAround ==
    ASSUME NEW a \in Nat \ {0}, NEW q \in Nat, NEW b, InRange(b), NEW w, NEW t,
           Heavy(w, t), NEW j \in Nat, 2 * (j + 1) <= Precision,
           Around(a, q, b, w, t, j), NEW T, T = (q * FACTOR) \div a
    PROVE  /\ T \in Nat /\ T # 0 /\ t * T <= 2 * Spread * FACTOR * w
           /\ Around(FACTOR, T, b, w, t, j + 1)
<1>0. /\ w \in Nat \ {0} /\ t \in Nat \ {0} /\ 2 * t * Spread * Precision <= FACTOR * w
      /\ j + 1 \in Nat /\ j + 1 <= Precision /\ j <= Precision /\ 2 * j <= Precision
      /\ j <= j + 1
  BY Room DEF Heavy
<1>1. PICK n, m, f \in Nat \ {0} : n = Precision /\ m = Spread /\ f = FACTOR
  BY Room
<1>2. w * a <= 2 * t * m * q /\ t * q <= 2 * w * m * a
  BY <1>0, <1>1, AroundModerate
<1>3. PICK e \in Nat : T \in Nat /\ q * f = a * T + e /\ e < a
  <2>1. q * f \in Nat
    OBVIOUS
  <2> QED
    BY <1>1, <2>1, Remainder
<1>4. n <= T
  <2>1. PICK c, d \in Nat : c = 2 * t * m /\ d = a * n
    BY <1>0
  <2>2. c # 0
    <3>1. t * m # 0 /\ t * m \in Nat /\ 2 * t * m = 2 * (t * m)
      BY <1>0
    <3> QED
      BY <2>1, <3>1
  <2>3. a * (2 * t * m * n) <= a * (f * w)
    <3>1. PICK x, y \in Nat : x = 2 * t * m * n /\ y = f * w
      BY <1>0
    <3> QED
      BY <1>0, <1>1, <3>1, ScaledLe
  <2>4. f * (w * a) <= f * (c * q)
    <3>1. PICK x, y \in Nat : x = w * a /\ y = c * q
      BY <1>0
    <3> QED
      BY <1>2, <2>1, <3>1, ScaledLe
  <2>5. c * d <= c * (q * f)
    <3>1. a * (2 * t * m * n) = (2 * t * m) * (a * n) /\ a * (f * w) = f * (w * a)
      BY <1>0
    <3>2. f * (c * q) = c * (q * f)
      OBVIOUS
    <3>3. c * d \in Nat /\ f * (w * a) \in Nat /\ c * (q * f) \in Nat
      BY <1>0
    <3> QED
      BY <2>1, <2>3, <2>4, <3>1, <3>2, <3>3
  <2>6. a * n <= q * f
    <3>1. PICK y \in Nat : y = q * f
      OBVIOUS
    <3> QED
      BY <2>1, <2>2, <2>5, <3>1, ScaledLe
  <2>7. q * f \in Nat
    OBVIOUS
  <2> QED
    BY <1>3, <2>6, <2>7, QuotientAtLeast
<1>5. t * T <= 2 * m * f * w
  <2>1. a * T <= q * f /\ a * T \in Nat /\ q * f \in Nat
    BY <1>3
  <2>2. t * (a * T) <= t * (q * f)
    <3>1. PICK x, y \in Nat : x = a * T /\ y = q * f
      BY <2>1
    <3> QED
      BY <1>0, <2>1, <3>1, ScaledLe
  <2>3. f * (t * q) <= f * (2 * w * m * a)
    <3>1. PICK x, y \in Nat : x = t * q /\ y = 2 * w * m * a
      BY <1>0
    <3> QED
      BY <1>2, <3>1, ScaledLe
  <2>4. PICK x, y \in Nat : x = t * T /\ y = 2 * m * f * w
    BY <1>0, <1>3
  <2>5. a * x <= a * y
    <3>1. t * (a * T) = a * (t * T) /\ t * (q * f) = f * (t * q)
      BY <1>0, <1>3
    <3>2. f * (2 * w * m * a) = a * (2 * m * f * w)
      BY <1>0
    <3>3. a * x \in Nat /\ a * y \in Nat /\ f * (t * q) \in Nat
      BY <1>0
    <3> QED
      BY <2>2, <2>3, <2>4, <3>1, <3>2, <3>3
  <2> QED
    BY <2>4, <2>5, ScaledLe
<1>6. PICK lx, ly, hx, hy \in Nat : /\ lx = w * b.lq /\ ly = t * b.la
                                    /\ hx = w * b.hq /\ hy = t * b.ha
  <2>1. /\ w \in Nat /\ t \in Nat /\ b.lq \in Nat /\ b.la \in Nat
        /\ b.hq \in Nat /\ b.ha \in Nat
    BY <1>0 DEF InRange
  <2>2. w * b.lq \in Nat /\ t * b.la \in Nat /\ w * b.hq \in Nat /\ t * b.ha \in Nat
    BY <2>1
  <2> QED
    BY <2>2, Zenon
<1>7. Lower(a, q, lx, ly, j) /\ Lower(q, a, hy, hx, j)
  BY <1>6 DEF Around
<1>8. PICK fa, fq \in Nat : fa = f * a /\ fq = f * q
  OBVIOUS
<1>9. Lower(fa, fq, lx, ly, j) /\ Lower(fq, fa, hy, hx, j)
  BY <1>0, <1>7, <1>8, LowerReduced
<1>10. /\ a * f <= fa /\ fa <= a * f /\ a * T <= fq /\ fq <= a * (T + 1)
  <2>1. /\ a * (T + 1) = a * T + a /\ f * a = a * f /\ f * q = q * f
        /\ a * T \in Nat /\ a * f \in Nat
    BY <1>3
  <2> QED
    BY <1>3, <1>8, <2>1
<1>11. Lower(f, T + 1, lx, ly, j) /\ Lower(T, f, hy, hx, j)
  <2>1. PICK R \in Nat : R = T + 1 /\ T \in Nat /\ f \in Nat
    BY <1>3
  <2>2. a * f <= fa /\ fq <= a * R /\ a * T <= fq /\ fa <= a * f
    BY <1>10, <2>1
  <2>3. Lower(f, R, lx, ly, j)
    BY <1>0, <1>9, <2>1, <2>2, LowerScaled
  <2>4. Lower(T, f, hy, hx, j)
    BY <1>0, <1>9, <2>1, <2>2, LowerScaled
  <2> QED
    BY <2>1, <2>3, <2>4
<1>12. Lower(f, T, lx, ly, j + 1)
  <2>1. lx * f * (Precision - j) <= (T + 1) * ly * Precision
    BY <1>11 DEF Lower
  <2> QED
    BY <1>0, <1>1, <1>3, <1>4, <2>1, LowerRounded
<1>13. Lower(T, f, hy, hx, j + 1)
  BY <1>0, <1>3, <1>11, LowerMore
<1> QED
  BY <1>1, <1>3, <1>4, <1>5, <1>6, <1>12, <1>13 DEF Around

(***************************************************************************)
(* Units add up.                                                           *)
(***************************************************************************)
LEMMA UnitsSum ==
    ASSUME NEW f \in Nat, NEW T \in Nat, NEW U \in Nat, NEW x \in Nat, NEW z \in Nat,
           NEW y \in Nat, NEW j \in Nat, j <= Precision
    PROVE  /\ Lower(f, T, x, y, j) /\ Lower(f, U, z, y, j)
                 => Lower(f, T + U, x + z, y, j)
           /\ Lower(T, f, y, x, j) /\ Lower(U, f, y, z, j)
                 => Lower(T + U, f, y, x + z, j)
<1>1. PICK u, v \in Nat : u = Precision - j /\ v = Precision
  BY Room
<1>2. /\ (x + z) * f * u = x * f * u + z * f * u
      /\ (T + U) * y * v = T * y * v + U * y * v
  OBVIOUS
<1>3. /\ y * (T + U) * u = y * T * u + y * U * u
      /\ f * (x + z) * v = f * x * v + f * z * v
  OBVIOUS
<1>4. /\ x * f * u \in Nat /\ z * f * u \in Nat /\ T * y * v \in Nat /\ U * y * v \in Nat
      /\ y * T * u \in Nat /\ y * U * u \in Nat /\ f * x * v \in Nat /\ f * z * v \in Nat
  OBVIOUS
<1>5. Lower(f, T, x, y, j) /\ Lower(f, U, z, y, j) => Lower(f, T + U, x + z, y, j)
  BY <1>1, <1>2, <1>4 DEF Lower
<1>6. Lower(T, f, y, x, j) /\ Lower(U, f, y, z, j) => Lower(T + U, f, y, x + z, j)
  BY <1>1, <1>3, <1>4 DEF Lower
<1> QED
  BY <1>5, <1>6

\* How b / a and r / n are added: to an exact sum t / s, or of units T and U
Adds(a, b, n, r, s, t, T, U) ==
    PriceAdd(Price(a, b), Price(n, r)) =
        IF Fits(s) /\ Fits(t) THEN Coprime(s, t)
        ELSE IF Fits(T + U) THEN Coprime(FACTOR, T + U) ELSE Panic

(***************************************************************************)
(* Price::add.                                                             *)
(***************************************************************************)
LEMMA PriceAddOf ==
    ASSUME NEW a \in Nat \ {0}, NEW b \in Nat, NEW n \in Nat \ {0}, NEW r \in Nat,
           NEW g, NEW s, NEW t, SumsTo(a, b, n, r, g, s, t),
           NEW T, T = (b * FACTOR) \div a, NEW U, U = (r * FACTOR) \div n
    PROVE  Adds(a, b, n, r, s, t, T, U)
<1>1. Price(a, b) # Panic /\ Price(n, r) # Panic
  BY DEF Price, Panic
<1>2. /\ Price(a, b).amount = a /\ Price(a, b).quote = b
      /\ Price(n, r).amount = n /\ Price(n, r).quote = r
      /\ Price(s, t).amount = s /\ Price(s, t).quote = t
  BY DEF Price
<1>3. ExactSum(Price(a, b), Price(n, r)) = Price(s, t)
  BY DEF SumsTo
<1>4. Total(FACTOR, Price(a, b)) = T /\ Total(FACTOR, Price(n, r)) = U
  BY <1>2 DEF Total, SafeMul
<1>5. PriceAdd(Price(a, b), Price(n, r)) =
          IF Fits(s) /\ Fits(t) THEN Coprime(s, t) ELSE LossyAdd(Price(a, b), Price(n, r))
  BY <1>1, <1>2, <1>3, Zenon DEF PriceAdd
<1>6. LossyAdd(Price(a, b), Price(n, r))
        = IF Fits(T + U) THEN Coprime(FACTOR, T + U) ELSE Panic
  BY <1>4 DEF LossyAdd
<1> QED
  BY <1>5, <1>6 DEF Adds

(***************************************************************************)
(* FACTOR is an amount.                                                    *)
(***************************************************************************)
LEMMA FactorFits ==
    FACTOR \in Nat \ {0} /\ Fits(FACTOR)
<1>1. PICK f, m, k \in Nat \ {0} : f = FACTOR /\ m = Spread /\ k = Cardinality(Accounts)
  BY Room
<1>2. PICK e \in Nat : e = 2 * m * k /\ 1 <= e
  <2>1. m * k \in Nat /\ m * k # 0 /\ 2 * m * k = 2 * (m * k)
    OBVIOUS
  <2> QED
    BY <2>1
<1>3. f * 1 <= f * e /\ f * e \in Nat
  BY <1>2, ScaledLe
<1>4. f * (2 * m * k) = 2 * f * m * k
  OBVIOUS
<1>5. 2 * f * m * k < Amounts
  BY <1>1, RoundingAssumption DEF Fits
<1> QED
  BY <1>1, <1>2, <1>3, <1>4, <1>5, Pow2Type DEF Fits

(***************************************************************************)
(* A sum is a price, of zero perhaps, or panics.                           *)
(***************************************************************************)
LEMMA PriceAddSummed ==
    ASSUME NEW p, Summed(p), NEW q, Summed(q)
    PROVE  Summed(PriceAdd(p, q))
<1>0. FACTOR \in Nat \ {0} /\ Fits(FACTOR)
  BY FactorFits
<1>1. CASE p = Panic \/ q = Panic
  BY <1>1, Zenon DEF PriceAdd, Summed
<1>2. CASE p # Panic /\ q # Panic
  <2>1. PICK a, n \in Nat \ {0}, b, r \in Nat : p = Price(a, b) /\ q = Price(n, r)
    BY <1>2, PriceParts
  <2>2. PICK g, s, t : SumsTo(a, b, n, r, g, s, t)
    BY ExactSumOf
  <2>3. s \in Nat \ {0} /\ t \in Nat
    BY <2>2 DEF SumsTo
  <2>4. PICK T, U : T = (b * FACTOR) \div a /\ U = (r * FACTOR) \div n
    OBVIOUS
  <2>5. T \in Nat /\ U \in Nat
    <3>1. b * FACTOR \in Nat /\ r * FACTOR \in Nat
      BY <1>0
    <3> QED
      BY <2>4, <3>1, Remainder
  <2>6. Adds(a, b, n, r, s, t, T, U)
    BY <2>2, <2>4, PriceAddOf
  <2>7. Fits(s) /\ Fits(t) => Summed(Coprime(s, t))
    BY <2>3, ReducedFits
  <2>8. Fits(T + U) => Summed(Coprime(FACTOR, T + U))
    <3>1. T + U \in Nat
      BY <2>5
    <3> QED
      BY <1>0, <3>1, ReducedFits
  <2> QED
    BY <2>1, <2>6, <2>7, <2>8 DEF Adds, Summed
<1> QED
  BY <1>1, <1>2

(***************************************************************************)
(* The sum of prices between moderate ones is between as many times those  *)
(* but for a rounding more.                                                *)
(***************************************************************************)
LEMMA PriceAddBetween ==
    ASSUME NEW p, NEW q, NEW c, InRange(c), NEW w, NEW z, NEW y, NEW j \in Nat,
           Between(p, c, w, y, j), Between(q, c, z, y, j), Heavy(w, y), Heavy(z, y),
           w + z <= y * Cardinality(Accounts), 2 * (j + 1) <= Precision
    PROVE  Between(PriceAdd(p, q), c, w + z, y, j + 1)
<1>0. /\ w \in Nat \ {0} /\ z \in Nat \ {0} /\ y \in Nat \ {0} /\ j + 1 \in Nat
      /\ j + 1 <= Precision /\ j <= Precision /\ j <= j + 1 /\ w + z \in Nat
  BY Room DEF Heavy
<1>1. PICK a, b, n, r \in Nat \ {0} : /\ p = Price(a, b) /\ q = Price(n, r)
                                      /\ a = p.amount /\ b = p.quote
                                      /\ n = q.amount /\ r = q.quote
  BY PriceParts DEF Between
<1>2. Around(a, b, c, w, y, j) /\ Around(n, r, c, z, y, j)
  BY <1>1 DEF Between
<1>3. PICK g, s, t : SumsTo(a, b, n, r, g, s, t)
  BY ExactSumOf
<1>4. PICK T, U : T = (b * FACTOR) \div a /\ U = (r * FACTOR) \div n
  OBVIOUS
<1>5. Adds(a, b, n, r, s, t, T, U)
  BY <1>3, <1>4, PriceAddOf
<1>6. PICK lw, lz, ly, hw, hz, hy \in Nat :
          /\ lw = w * c.lq /\ lz = z * c.lq /\ ly = y * c.la
          /\ hw = w * c.hq /\ hz = z * c.hq /\ hy = y * c.ha
          /\ lw + lz = (w + z) * c.lq /\ hw + hz = (w + z) * c.hq
  <2>1. PICK e, f, h, i \in Nat : e = c.lq /\ f = c.la /\ h = c.hq /\ i = c.ha
    BY DEF InRange
  <2>2. PICK lw, lz, ly, hw, hz, hy \in Nat :
          /\ lw = w * e /\ lz = z * e /\ ly = y * f
          /\ hw = w * h /\ hz = z * h /\ hy = y * i
    BY <1>0
  <2>3. w * e + z * e = (w + z) * e /\ w * h + z * h = (w + z) * h
    BY <1>0
  <2>4. /\ lw = w * c.lq /\ lz = z * c.lq /\ ly = y * c.la
        /\ hw = w * c.hq /\ hz = z * c.hq /\ hy = y * c.ha
        /\ lw + lz = (w + z) * c.lq /\ hw + hz = (w + z) * c.hq
    BY <2>1, <2>2, <2>3
  <2> QED
    BY <2>4, Zenon
<1>7. CASE Fits(s) /\ Fits(t)
  <2>1. s \in Nat \ {0} /\ t \in Nat \ {0}
    BY <1>3 DEF SumsTo
  <2>2. /\ Lower(a, b, lw, ly, j) /\ Lower(b, a, hy, hw, j)
        /\ Lower(n, r, lz, ly, j) /\ Lower(r, n, hy, hz, j)
    BY <1>2, <1>6 DEF Around
  <2>3. Lower(s, t, lw + lz, ly, j)
    BY <1>0, <1>3, <2>2, LowerSum
  <2>4. Lower(t, s, hy, hw + hz, j)
    BY <1>0, <1>3, <2>2, LowerSum
  <2>5. lw + lz \in Nat /\ hw + hz \in Nat
    OBVIOUS
  <2>6. Lower(s, t, lw + lz, ly, j + 1) /\ Lower(t, s, hy, hw + hz, j + 1)
    BY <1>0, <2>1, <2>3, <2>4, <2>5, LowerMore
  <2>7. Around(s, t, c, w + z, y, j + 1)
    BY <1>6, <2>6 DEF Around
  <2>8. Between(Coprime(s, t), c, w + z, y, j + 1)
    BY <1>0, <1>7, <2>1, <2>7, ReducedBetween
  <2> QED
    BY <1>1, <1>5, <1>7, <2>8 DEF Adds
<1>8. CASE ~(Fits(s) /\ Fits(t))
  <2>1. /\ T \in Nat /\ T # 0 /\ y * T <= 2 * Spread * FACTOR * w
        /\ Around(FACTOR, T, c, w, y, j + 1)
    BY <1>2, <1>4, UnitsAround
  <2>2. /\ U \in Nat /\ U # 0 /\ y * U <= 2 * Spread * FACTOR * z
        /\ Around(FACTOR, U, c, z, y, j + 1)
    BY <1>2, <1>4, UnitsAround
  <2>3. T + U \in Nat \ {0}
    BY <2>1, <2>2
  <2>4. FACTOR \in Nat \ {0} /\ Amounts \in Nat
    BY Room, Pow2Type
  <2>5. PICK m, f, k \in Nat \ {0} : m = Spread /\ f = FACTOR /\ k = Cardinality(Accounts)
    BY Room
  <2>6. 2 * f * m * k < Amounts
    BY <2>5, RoundingAssumption DEF Fits
  <2>7. T + U <= 2 * f * m * k
    <3>1. y * T <= 2 * m * f * w /\ y * U <= 2 * m * f * z
      BY <2>1, <2>2, <2>5
    <3>2. PICK d, e, h \in Nat : d = 2 * m * f /\ e = y * k /\ h = w + z
      BY <1>0
    <3>3. d * h <= d * e
      BY <2>5, <3>2, ScaledLe
    <3>4. 2 * m * f * w + 2 * m * f * z = d * h
      <4>1. 2 * m * f * w + 2 * m * f * z = (2 * m * f) * (w + z)
        BY <1>0
      <4> QED
        BY <3>2, <4>1
    <3>5. PICK v, x \in Nat : v = T + U /\ x = 2 * f * m * k
      BY <2>3
    <3>6. y * v <= y * x
      <4>1. y * (T + U) = y * T + y * U /\ y * T \in Nat /\ y * U \in Nat
        BY <1>0, <2>1, <2>2
      <4>2. (2 * m * f) * (y * k) = y * (2 * f * m * k)
        BY <1>0
      <4>3. 2 * m * f * w \in Nat /\ 2 * m * f * z \in Nat
        BY <1>0
      <4>4. y * v <= d * h
        BY <3>1, <3>4, <3>5, <4>1, <4>3
      <4>5. d * e = y * x
        BY <3>2, <3>5, <4>2
      <4>6. y * v \in Nat /\ d * h \in Nat /\ d * e \in Nat
        BY <1>0
      <4> QED
        BY <3>3, <4>4, <4>5, <4>6
    <3>7. v <= x
      BY <1>0, <3>6, ScaledLe
    <3> QED
      BY <3>5, <3>7
  <2>8. Fits(T + U) /\ Fits(FACTOR)
    <3>1. 2 * f * m * k \in Nat
      OBVIOUS
    <3> QED
      BY <2>3, <2>4, <2>6, <2>7, <3>1, FactorFits DEF Fits
  <2>9. /\ Lower(FACTOR, T, lw, ly, j + 1) /\ Lower(T, FACTOR, hy, hw, j + 1)
        /\ Lower(FACTOR, U, lz, ly, j + 1) /\ Lower(U, FACTOR, hy, hz, j + 1)
    BY <1>6, <2>1, <2>2 DEF Around
  <2>10. /\ Lower(FACTOR, T + U, lw + lz, ly, j + 1)
         /\ Lower(T + U, FACTOR, hy, hw + hz, j + 1)
    <3>1. PICK f1, j1 \in Nat : f1 = FACTOR /\ j1 = j + 1 /\ j1 <= Precision
      BY <1>0, <2>4
    <3>2. /\ Lower(f1, T, lw, ly, j1) /\ Lower(T, f1, hy, hw, j1)
          /\ Lower(f1, U, lz, ly, j1) /\ Lower(U, f1, hy, hz, j1)
      BY <2>9, <3>1
    <3>3. Lower(f1, T + U, lw + lz, ly, j1)
      BY <2>1, <2>2, <3>1, <3>2, UnitsSum
    <3>4. Lower(T + U, f1, hy, hw + hz, j1)
      BY <2>1, <2>2, <3>1, <3>2, UnitsSum
    <3> QED
      BY <3>1, <3>3, <3>4
  <2>11. Around(FACTOR, T + U, c, w + z, y, j + 1)
    BY <1>6, <2>10 DEF Around
  <2>12. Between(Coprime(FACTOR, T + U), c, w + z, y, j + 1)
    <3>1. PICK V \in Nat \ {0} : V = T + U
      BY <2>3
    <3>2. Around(FACTOR, V, c, w + z, y, j + 1) /\ Fits(V)
      BY <2>8, <2>11, <3>1
    <3>3. Between(Coprime(FACTOR, V), c, w + z, y, j + 1)
      BY <1>0, <2>4, <2>8, <3>2, ReducedBetween
    <3> QED
      BY <3>1, <3>3
  <2> QED
    BY <1>1, <1>5, <1>8, <2>8, <2>12 DEF Adds
<1> QED
  BY <1>7, <1>8

(***************************************************************************)
(* No price is neutral to the sum, which reduces the other one only.       *)
(***************************************************************************)
LEMMA SumWithNone ==
    ASSUME NEW p, Proper(p)
    PROVE  PriceAdd(p, NoPrice) = Coprime(p.amount, p.quote)
<1>1. PICK a, b \in Nat \ {0} : /\ p = Price(a, b) /\ a = p.amount /\ b = p.quote
                                /\ Fits(a) /\ Fits(b)
  BY PriceParts
<1>2. PICK g, s, t : SumsTo(a, b, 1, 0, g, s, t)
  <2>1. 1 \in Nat \ {0} /\ 0 \in Nat
    OBVIOUS
  <2> QED
    BY <2>1, ExactSumOf
<1>3. PICK T, U : T = (b * FACTOR) \div a /\ U = (0 * FACTOR) \div 1
  OBVIOUS
<1>4. Adds(a, b, 1, 0, s, t, T, U)
  <2>1. 1 \in Nat \ {0} /\ 0 \in Nat
    OBVIOUS
  <2> QED
    BY <1>2, <1>3, <2>1, PriceAddOf
<1>5. s = a /\ t = b
  <2>1. /\ g \in Nat \ {0} /\ s \in Nat \ {0} /\ t \in Nat
        /\ ExactSum(Price(a, b), Price(1, 0)) = Price(s, t)
        /\ a * 1 = g * s /\ b * 1 + 0 * a = g * t
    BY <1>2 DEF SumsTo
  <2> DEFINE d == gcd[1][a]
  <2>2. d \in Nat /\ d > 0 /\ Divides(d, a, 1)
    BY GcdDivides
  <2>3. PICK x, y \in Nat : a = d * x /\ 1 = d * y
    <3> HIDE DEF d
    <3> QED
      BY <2>2 DEF Divides
  <2>4. /\ Price(a, b).amount = a /\ Price(a, b).quote = b
        /\ Price(1, 0).amount = 1 /\ Price(1, 0).quote = 0
    BY DEF Price
  <2>5. ExactSum(Price(a, b), Price(1, 0))
          = Price((a \div d) * (1 \div d) * d, b * (1 \div d) + 0 * (a \div d))
    BY <2>4, Zenon DEF ExactSum
  <2> HIDE DEF d
  <2>6. d = 1
    <3> SUFFICES ASSUME d >= 2 PROVE FALSE
      BY <2>2
    <3>1. y = 0 => d * y = 0
      BY <2>2
    <3>2. y # 0 => d * 1 <= d * y
      BY <2>2, <2>3, ScaledLe
    <3> QED
      BY <2>2, <2>3, <3>1, <3>2
  <2>7. (a \div 1) * (1 \div 1) * 1 = a /\ b * (1 \div 1) + 0 * (a \div 1) = b
    OBVIOUS
  <2>8. Price(s, t) = Price(a, b)
    BY <2>1, <2>5, <2>6, <2>7
  <2> QED
    BY <2>8 DEF Price
<1>6. NoPrice = Price(1, 0)
  BY DEF NoPrice
<1> QED
  BY <1>1, <1>4, <1>5, <1>6 DEF Adds

\* one step of the sum of the prices f, g being that of the smaller sets
AddPrice(f, g, s) ==
    IF s = {} THEN NoPrice ELSE PriceAdd(f[AnyOf(s)], g[s \ {AnyOf(s)}])

\* the sums of the prices f over all subsets of S
PartialPrices(f, S) == CHOOSE g : g = [s \in SUBSET S |-> AddPrice(f, g, s)]

(***************************************************************************)
(* The library's fold by the sum of prices is that function at the set.    *)
(***************************************************************************)
LEMMA FoldIsPartial ==
    ASSUME NEW f
    PROVE  FoldFunction(PriceAdd, NoPrice, f) = PartialPrices(f, DOMAIN f)[DOMAIN f]
BY Zenon DEF FoldFunction, FoldFunctionOnSet, MapThenFoldSet, PartialPrices,
             AddPrice, AnyOf

(***************************************************************************)
(* The recursion that the fold is defined by has a solution over a finite  *)
(* set, so the function chosen satisfies it.                               *)
(***************************************************************************)
LEMMA PricesAt ==
    ASSUME NEW f, NEW S, IsFiniteSet(S)
    PROVE  \A T \in SUBSET S :
               PartialPrices(f, S)[T] = AddPrice(f, PartialPrices(f, S), T)
<1> DEFINE Small(n) == {s \in SUBSET S : Cardinality(s) <= n}
           G == {n \in Nat : \E g : g = [s \in Small(n) |-> AddPrice(f, g, s)]}
<1>0. \A s \in SUBSET S : IsFiniteSet(s) /\ Cardinality(s) \in Nat
  BY FS_Subset, FS_CardinalityType
<1>1. 0 \in G
  <2> DEFINE g == [s \in Small(0) |-> NoPrice]
  <2>1. \A s \in Small(0) : s = {}
    BY <1>0, FS_EmptySet
  <2>2. g = [s \in Small(0) |-> AddPrice(f, g, s)]
    BY <2>1 DEF AddPrice
  <2> QED
    BY <2>2
<1>2. ASSUME NEW n \in Nat, n \in G PROVE n + 1 \in G
  <2>1. PICK g : g = [s \in Small(n) |-> AddPrice(f, g, s)]
    BY <1>2
  <2> DEFINE h == [s \in Small(n + 1) |-> AddPrice(f, g, s)]
  <2>2. \A s \in Small(n) : s \in Small(n + 1) /\ h[s] = g[s]
    <3>1. \A s \in Small(n) : s \in Small(n + 1)
      BY <1>0
    <3> QED
      BY <2>1, <3>1
  <2>3. \A s \in Small(n + 1) : s # {} => s \ {AnyOf(s)} \in Small(n)
    BY <1>0, FS_RemoveElement, AnyOfIn
  <2>4. \A s \in Small(n + 1) : AddPrice(f, g, s) = AddPrice(f, h, s)
    <3> HIDE DEF h, Small
    <3> QED
      BY <2>2, <2>3 DEF AddPrice
  <2>5. h = [s \in Small(n + 1) |-> AddPrice(f, h, s)]
    <3> HIDE DEF Small
    <3>1. h = [s \in Small(n + 1) |-> AddPrice(f, g, s)]
      OBVIOUS
    <3> HIDE DEF h
    <3> QED
      BY <2>4, <3>1
  <2> HIDE DEF h, Small
  <2> QED
    BY <2>5
<1>3. Cardinality(S) \in G
  <2>1. Cardinality(S) \in Nat
    BY FS_CardinalityType
  <2> HIDE DEF G
  <2> QED
    BY <1>1, <1>2, <2>1, NatSetInduction
<1>4. Small(Cardinality(S)) = SUBSET S
  BY FS_Subset
<1>5. \E g : g = [s \in SUBSET S |-> AddPrice(f, g, s)]
  BY <1>3, <1>4
<1>6. PICK p : p = PartialPrices(f, S)
  OBVIOUS
<1>7. p = [s \in SUBSET S |-> AddPrice(f, p, s)]
  BY <1>5, <1>6, Zenon DEF PartialPrices
<1>8. \A T \in SUBSET S : p[T] = AddPrice(f, p, T)
  BY <1>7
<1> QED
  BY <1>6, <1>8

(***************************************************************************)
(* More roundings, or a common factor of the weight, leave a price where   *)
(* it is.                                                                  *)
(***************************************************************************)
LEMMA BetweenMore ==
    ASSUME NEW p, NEW c, InRange(c), NEW w \in Nat, NEW t \in Nat, NEW j \in Nat,
           NEW k \in Nat, j <= k, k <= Precision, Between(p, c, w, t, j)
    PROVE  Between(p, c, w, t, k)
<1>1. PICK a, q \in Nat : a = p.amount /\ q = p.quote
  BY PriceParts DEF Between
<1>2. PICK lx, ly, hx, hy \in Nat : /\ lx = w * c.lq /\ ly = t * c.la
                                    /\ hx = w * c.hq /\ hy = t * c.ha
  BY DEF InRange
<1>3. Lower(a, q, lx, ly, j) /\ Lower(q, a, hy, hx, j)
  BY <1>1, <1>2 DEF Between, Around
<1>4. Lower(a, q, lx, ly, k) /\ Lower(q, a, hy, hx, k)
  BY <1>3, LowerMore
<1> QED
  BY <1>1, <1>2, <1>4 DEF Between, Around

LEMMA BetweenWhole ==
    ASSUME NEW p, NEW c, InRange(c), NEW n \in Nat \ {0}, NEW j \in Nat,
           j <= Precision, Between(p, c, n, n, j)
    PROVE  Between(p, c, 1, 1, j)
<1>1. PICK a, q \in Nat : a = p.amount /\ q = p.quote
  BY PriceParts DEF Between
<1>2. PICK la, lq, ha, hq \in Nat : la = c.la /\ lq = c.lq /\ ha = c.ha /\ hq = c.hq
  BY DEF InRange
<1>3. Lower(a, q, n * lq, n * la, j) /\ Lower(q, a, n * ha, n * hq, j)
  BY <1>1, <1>2 DEF Between, Around
<1>4. Lower(a, q, lq, la, j) /\ Lower(q, a, ha, hq, j)
  BY <1>3, LowerWhole
<1>5. 1 * lq = lq /\ 1 * la = la /\ 1 * ha = ha /\ 1 * hq = hq
  OBVIOUS
<1> QED
  BY <1>1, <1>2, <1>4, <1>5 DEF Between, Around

----------------------------------------------------------------------------
(* Samples *)

ConfigType == [min_feeders : Nat, sample_period : Nat,
               samples_number : Nat, discount_factor : Nat]

(***************************************************************************)
(* What the assumptions say of a configuration.                            *)
(***************************************************************************)
LEMMA ConfigRoom ==
    ASSUME NEW conf \in PriceConfigs
    PROVE  /\ conf \in ConfigType /\ ValidConfig(conf)
           /\ RoundingSteps(conf) \in Nat /\ 2 * RoundingSteps(conf) <= Precision
           /\ Cardinality(Accounts) <= RoundingSteps(conf)
           /\ \A n \in Nat \ {0} : Heavy(n, 1) /\ Heavy(n, n)
           /\ Heavy(conf.discount_factor, 1000)
           /\ conf.discount_factor # 1000 => Heavy(1000 - conf.discount_factor, 1000)
<1>1. conf \in ConfigType /\ ValidConfig(conf)
  BY FeedsAssumption DEF ConfigType
<1>2. PICK k, n, m, f, d, i \in Nat \ {0} :
          /\ k = Cardinality(Accounts) /\ n = Precision /\ m = Spread /\ f = FACTOR
          /\ d = conf.discount_factor /\ d <= 1000 /\ i = conf.samples_number
  BY <1>1, Room DEF ConfigType, ValidConfig, HUNDRED
<1>3. RoundingSteps(conf) = k + 2 * (i - 1)
  BY <1>2 DEF RoundingSteps
<1>4. /\ RoundingSteps(conf) \in Nat /\ 2 * RoundingSteps(conf) <= Precision
      /\ Cardinality(Accounts) <= RoundingSteps(conf)
  BY <1>2, <1>3, RoundingAssumption
<1>5. /\ 2 * 1000 * m * n <= f * d
      /\ d # 1000 => 2 * 1000 * m * n <= f * (1000 - d)
  BY <1>2, RoundingAssumption DEF HUNDRED
<1>6. /\ Heavy(d, 1000) /\ (d # 1000 => Heavy(1000 - d, 1000))
  BY <1>2, <1>5 DEF Heavy
<1>7. 2 * m * n <= f
  <2>1. f * d <= f * 1000
    BY <1>2, ScaledLe
  <2>2. PICK x \in Nat : x = 2 * m * n
    OBVIOUS
  <2>3. 2 * 1000 * m * n = 1000 * (2 * m * n) /\ f * 1000 = 1000 * f /\ f * d \in Nat
    OBVIOUS
  <2>4. 1000 * x <= 1000 * f
    BY <1>5, <2>1, <2>2, <2>3
  <2> QED
    BY <2>2, <2>4
<1>8. ASSUME NEW e \in Nat \ {0} PROVE Heavy(e, 1) /\ Heavy(e, e)
  <2>1. PICK x \in Nat : x = 2 * m * n
    OBVIOUS
  <2>2. f * 1 <= f * e /\ f * e \in Nat
    BY ScaledLe
  <2>3. e * x <= e * f
    BY <1>7, <2>1, ScaledLe
  <2>4. 2 * 1 * m * n = 2 * m * n /\ 2 * e * m * n = e * (2 * m * n) /\ e * f = f * e
    OBVIOUS
  <2>5. 2 * 1 * m * n <= f * e /\ 2 * e * m * n <= f * e
    BY <1>7, <2>1, <2>2, <2>3, <2>4
  <2> QED
    BY <1>2, <2>5 DEF Heavy
<1> QED
  BY <1>1, <1>2, <1>4, <1>6, <1>8

(***************************************************************************)
(* The sum of proper prices is a price or panics; of as many prices as     *)
(* there are accounts, each between moderate ones, it is between as many   *)
(* times those, C being a set of such ranges.                              *)
(***************************************************************************)
LEMMA SumOfPrices ==
    ASSUME NEW conf \in PriceConfigs, NEW f, NEW S, IsFiniteSet(S), S # {},
           Cardinality(S) <= Cardinality(Accounts),
           NEW C, \A c \in C : InRange(c),
           \A x \in S : Proper(f[x]) /\ \A c \in C : Between(f[x], c, 1, 1, 0)
    PROVE  /\ Summed(PartialPrices(f, S)[S])
           /\ \A c \in C : Between(PartialPrices(f, S)[S], c,
                                   Cardinality(S), 1, Cardinality(S) - 1)
<1> DEFINE P == PartialPrices(f, S)
           n(T) == Cardinality(T)
           Good == {T \in SUBSET S :
                       T # {} => /\ Summed(P[T])
                                 /\ \A c \in C : Between(P[T], c, n(T), 1, n(T) - 1)}
<1>0. \A T \in SUBSET S : /\ IsFiniteSet(T) /\ n(T) \in Nat
                          /\ n(T) <= Cardinality(Accounts)
  <2>1. \A T \in SUBSET S : IsFiniteSet(T) /\ n(T) \in Nat /\ n(T) <= Cardinality(S)
    BY FS_Subset, FS_CardinalityType
  <2>2. Cardinality(S) \in Nat /\ Cardinality(Accounts) \in Nat
    BY FS_CardinalityType, Room
  <2> QED
    BY <2>1, <2>2
<1>1. {} \in Good
  OBVIOUS
<1>2. ASSUME NEW T \in SUBSET S, T # {}, \A x \in T : T \ {x} \in Good
      PROVE  T \in Good
  <2> DEFINE x == AnyOf(T)
             R == T \ {x}
  <2>1. x \in T /\ x \in S /\ R \in SUBSET S
    BY <1>2, AnyOfIn
  <2>2. n(T) = n(R) + 1 /\ n(R) \in Nat
    <3>1. IsFiniteSet(T) /\ n(T) \in Nat /\ n(R) \in Nat
      BY <1>0, <2>1
    <3>2. n(R) = n(T) - 1
      BY <2>1, <3>1, FS_RemoveElement
    <3> QED
      BY <3>1, <3>2
  <2>3. P[T] = PriceAdd(f[x], P[R])
    <3>1. P[T] = AddPrice(f, P, T)
      BY PricesAt
    <3> QED
      BY <1>2, <3>1, Zenon DEF AddPrice
  <2>4. Proper(f[x]) /\ \A c \in C : Between(f[x], c, 1, 1, 0)
    BY <2>1
  <2>5. CASE R = {}
    <3>1. P[R] = NoPrice
      <4>1. P[R] = AddPrice(f, P, R)
        BY <2>1, PricesAt
      <4> QED
        BY <2>5, <4>1, Zenon DEF AddPrice
    <3>2. P[T] = Coprime(f[x].amount, f[x].quote)
      BY <2>3, <2>4, <3>1, SumWithNone
    <3>3. n(T) = 1
      <4>1. n(R) = 0
        BY <2>5, FS_EmptySet
      <4> QED
        BY <2>2, <4>1
    <3>4. PICK a, q \in Nat \ {0} : /\ a = f[x].amount /\ q = f[x].quote
                                    /\ Fits(a) /\ Fits(q)
      BY <2>4, PriceParts
    <3>5. Summed(Coprime(a, q))
      BY <3>4, ReducedFits
    <3>6. ASSUME NEW c \in C PROVE Between(Coprime(a, q), c, 1, 1, 0)
      <4>1. Around(a, q, c, 1, 1, 0) /\ InRange(c)
        BY <2>4, <3>4 DEF Between
      <4>2. 0 \in Nat /\ 1 \in Nat /\ 0 <= Precision
        BY Room
      <4> QED
        BY <3>4, <4>1, <4>2, ReducedBetween
    <3>7. 1 - 1 = 0
      OBVIOUS
    <3> HIDE DEF x, R, P, n
    <3>8. Summed(P[T]) /\ \A c \in C : Between(P[T], c, n(T), 1, n(T) - 1)
      BY <3>2, <3>3, <3>4, <3>5, <3>6, <3>7
    <3> QED
      BY <3>8
  <2>6. CASE R # {}
    <3>1. R \in Good
      BY <1>2, <2>1
    <3>2. Summed(P[R]) /\ \A c \in C : Between(P[R], c, n(R), 1, n(R) - 1)
      BY <2>6, <3>1
    <3>3. n(R) # 0
      BY <1>0, <2>1, <2>6, FS_EmptySet
    <3>4. Summed(P[T])
      <4>1. Summed(f[x])
        BY <2>4, PriceParts
      <4> QED
        BY <2>3, <3>2, <4>1, PriceAddSummed
    <3>5. ASSUME NEW c \in C PROVE Between(P[T], c, n(T), 1, n(T) - 1)
      <4>1. InRange(c) /\ Between(f[x], c, 1, 1, 0) /\ Between(P[R], c, n(R), 1, n(R) - 1)
        BY <2>4, <3>2
      <4>2. n(T) <= Cardinality(Accounts)
        BY <1>0
      <4> HIDE DEF x, R, P, n
      <4>3. PICK i, j, k \in Nat : /\ i = n(R) /\ j = n(R) - 1 /\ k = Cardinality(Accounts)
                                   /\ i # 0 /\ 1 + i = n(T) /\ j + 1 = n(T) - 1
                                   /\ 1 + i <= k
        BY <2>2, <3>3, <4>2, Room
      <4>4. 2 * (j + 1) <= Precision /\ j <= Precision
        <5>1. /\ RoundingSteps(conf) \in Nat /\ 2 * RoundingSteps(conf) <= Precision
              /\ k <= RoundingSteps(conf)
          BY <4>3, ConfigRoom
        <5> QED
          BY <4>3, <5>1, Room
      <4>5. Between(f[x], c, 1, 1, j)
        <5>1. 0 \in Nat /\ 1 \in Nat /\ 0 <= j
          OBVIOUS
        <5> QED
          BY <4>1, <4>4, <5>1, BetweenMore
      <4>6. Heavy(1, 1) /\ Heavy(i, 1)
        BY <4>3, ConfigRoom
      <4>7. 1 + i <= 1 * Cardinality(Accounts)
        BY <4>3
      <4>8. Between(P[R], c, i, 1, j)
        BY <4>1, <4>3
      <4>9. Between(PriceAdd(f[x], P[R]), c, 1 + i, 1, j + 1)
        BY <4>1, <4>4, <4>5, <4>6, <4>7, <4>8, PriceAddBetween
      <4> QED
        BY <2>3, <4>3, <4>9
    <3> QED
      BY <3>4, <3>5
  <2> QED
    BY <2>5, <2>6
<1>3. \A T \in SUBSET S : T \in Good
  <2> HIDE DEF Good
  <2> QED
    BY <1>1, <1>2, SubsetInduction
<1>4. S \in Good
  BY <1>3
<1> QED
  BY <1>4

(***************************************************************************)
(* SampleBuilder::end_of_period: the mean of prices between moderate ones  *)
(* is between those.                                                       *)
(***************************************************************************)
LEMMA MeanOfPrices ==
    ASSUME NEW conf \in PriceConfigs,
           NEW queue, NEW places, IsFiniteSet(FeedersOf(queue, places)),
           Cardinality(FeedersOf(queue, places)) <= Cardinality(Accounts),
           places # {}, NEW C, \A c \in C : InRange(c),
           \A f \in FeedersOf(queue, places) :
               /\ Proper(LastByFeeder(queue, places)[f])
               /\ \A c \in C : Between(LastByFeeder(queue, places)[f], c, 1, 1, 0)
    PROVE  /\ Computed(Mean(queue, places))
           /\ \A c \in C : Between(Mean(queue, places), c, 1, 1, Cardinality(Accounts))
<1> DEFINE byFeeder == LastByFeeder(queue, places)
           S == FeedersOf(queue, places)
           sum == PartialPrices(byFeeder, S)[S]
<1>1. DOMAIN byFeeder = S
  BY DEF LastByFeeder
<1>2. S # {}
  BY DEF FeedersOf
<1>3. PICK n, k \in Nat \ {0} : /\ n = Cardinality(S) /\ k = Cardinality(Accounts)
                                /\ n <= k
  BY <1>2, FS_CardinalityType, FS_EmptySet, Room
<1>4. /\ Summed(sum)
      /\ \A c \in C : Between(sum, c, Cardinality(S), 1, Cardinality(S) - 1)
  BY <1>2, SumOfPrices
<1>5. Mean(queue, places) = LossyMul(sum, 1, n)
  <2>1. FoldFunction(PriceAdd, NoPrice, byFeeder) = sum
    BY <1>1, FoldIsPartial
  <2> QED
    BY <1>1, <1>3, <2>1, Zenon DEF Mean
<1> HIDE DEF byFeeder, S, sum
<1>6. Fits(1) /\ Fits(n)
  <2>1. PICK f, m \in Nat \ {0} : f = FACTOR /\ m = Spread
    BY Room
  <2>2. 2 * f * m * k < Amounts
    BY <1>3, <2>1, RoundingAssumption DEF Fits
  <2>3. PICK e \in Nat : e = 2 * f * m /\ 1 <= e
    <3>1. f * m \in Nat /\ f * m # 0 /\ 2 * f * m = 2 * (f * m)
      OBVIOUS
    <3> QED
      BY <3>1
  <2>4. k * 1 <= k * e
    BY <2>3, ScaledLe
  <2>5. k * (2 * f * m) = 2 * f * m * k /\ 2 * f * m * k \in Nat
    OBVIOUS
  <2>6. Amounts \in Nat
    BY Pow2Type
  <2> QED
    BY <1>3, <2>2, <2>3, <2>4, <2>5, <2>6 DEF Fits
<1>7. Computed(LossyMul(sum, 1, n))
  <2>1. 1 \in Nat
    OBVIOUS
  <2> QED
    BY <1>4, <1>6, <2>1, LossyMulComputed
<1>8. ASSUME NEW c \in C PROVE Between(LossyMul(sum, 1, n), c, 1, 1, k)
  <2>1. PICK j \in Nat : j = n - 1 /\ j + 1 = n
    OBVIOUS
  <2>2. Between(sum, c, n, 1, j) /\ InRange(c)
    BY <1>3, <1>4, <2>1
  <2>3. 2 * (j + 1) <= Precision /\ n <= Precision /\ k <= Precision
    <3>1. /\ RoundingSteps(conf) \in Nat /\ 2 * RoundingSteps(conf) <= Precision
          /\ k <= RoundingSteps(conf)
      BY <1>3, ConfigRoom
    <3> QED
      BY <1>3, <2>1, <3>1, Room
  <2>4. n * 1 = n /\ 1 * n = n /\ n <= n
    OBVIOUS
  <2>5. Heavy(n * 1, 1 * n) /\ n * 1 <= 1 * n
    BY <2>4, ConfigRoom
  <2>6. Between(LossyMul(sum, 1, n), c, n * 1, 1 * n, j + 1)
    <3>1. 1 \in Nat /\ 1 \in Nat \ {0} /\ n \in Nat
      OBVIOUS
    <3> QED
      BY <1>6, <2>2, <2>3, <2>5, <3>1, LossyMulBetween
  <2>7. Between(LossyMul(sum, 1, n), c, n, n, n)
    BY <2>1, <2>4, <2>6
  <2>8. Between(LossyMul(sum, 1, n), c, 1, 1, n)
    BY <2>2, <2>3, <2>7, BetweenWhole
  <2>9. 1 \in Nat
    OBVIOUS
  <2> QED
    BY <1>3, <2>2, <2>3, <2>8, <2>9, BetweenMore
<1> QED
  BY <1>3, <1>5, <1>7, <1>8


----------------------------------------------------------------------------
(* The iterations: over the sample periods, the samples and the messages *)

\* The observations of the i-th period
Period(queue, valid, start, conf, i) ==
    Within(queue, valid, start + (i - 1) * conf.sample_period,
           start + i * conf.sample_period)

\* What each of the three starts from, x being its parameters
Start(of, x) == IF of = "feed" THEN x.queues ELSE NoPrice

\* How it goes on at i, from the outcome v of the previous step
Step(of, x, i, v) ==
    CASE of = "sample"  -> NextSample(x.queue, Period(x.queue, x.valid, x.start, x.conf, i), v)
      [] of = "average" -> NextAverage(x.conf, v, x.sample[i])
      [] OTHER          -> AddTo(v, x.from, x.at, x.msgs[i], x.since)

\* The outcomes by the previous ones
Iteration(of, x, g, i) == IF i = 0 THEN Start(of, x) ELSE Step(of, x, i, g[i - 1])

(***************************************************************************)
(* The recursive functions that iterate up to n exist.                     *)
(***************************************************************************)
LEMMA IterationSolved ==
    ASSUME NEW of, NEW x, NEW n \in Nat
    PROVE  \E g : g = [i \in 0 .. n |-> Iteration(of, x, g, i)]
<1> DEFINE G == {m \in Nat : \E g : g = [i \in 0 .. m |-> Iteration(of, x, g, i)]}
<1>1. 0 \in G
  <2> DEFINE g == [i \in 0 .. 0 |-> Start(of, x)]
  <2>1. \A i \in 0 .. 0 : Iteration(of, x, g, i) = Start(of, x)
    BY DEF Iteration
  <2>2. g = [i \in 0 .. 0 |-> Iteration(of, x, g, i)]
    BY <2>1
  <2> HIDE DEF g
  <2> QED
    BY <2>2
<1>2. ASSUME NEW m \in Nat, m \in G PROVE m + 1 \in G
  <2>1. PICK g : g = [i \in 0 .. m |-> Iteration(of, x, g, i)]
    BY <1>2
  <2> DEFINE h == [i \in 0 .. m + 1 |-> Iteration(of, x, g, i)]
  <2>2. ASSUME NEW i \in 0 .. m PROVE h[i] = g[i]
    <3>1. i \in 0 .. m + 1
      OBVIOUS
    <3> QED
      BY <2>1, <3>1
  <2>3. ASSUME NEW i \in 0 .. m + 1
        PROVE  Iteration(of, x, g, i) = Iteration(of, x, h, i)
    <3>1. i # 0 => i - 1 \in 0 .. m
      OBVIOUS
    <3> HIDE DEF h
    <3> QED
      BY <2>2, <3>1 DEF Iteration
  <2>4. h = [i \in 0 .. m + 1 |-> Iteration(of, x, g, i)]
    OBVIOUS
  <2> HIDE DEF h
  <2>5. h = [i \in 0 .. m + 1 |-> Iteration(of, x, h, i)]
    BY <2>3, <2>4
  <2> QED
    BY <2>5
<1> HIDE DEF G
<1>3. n \in G
  BY <1>1, <1>2, NatSetInduction
<1> QED
  BY <1>3 DEF G

(***************************************************************************)
(* from_observations: each sample by the one before.                       *)
(***************************************************************************)
LEMMA SamplesAt ==
    ASSUME NEW queue, NEW valid, NEW start, NEW conf, conf.samples_number \in Nat
    PROVE  /\ Samples(queue, valid, start, conf)[0] = NoPrice
           /\ \A i \in 1 .. conf.samples_number :
                 Samples(queue, valid, start, conf)[i] =
                     NextSample(queue, Period(queue, valid, start, conf, i),
                                Samples(queue, valid, start, conf)[i - 1])
<1> DEFINE n == conf.samples_number
           x == [queue |-> queue, valid |-> valid, start |-> start, conf |-> conf]
<1>1. ASSUME NEW i, NEW v
      PROVE  Step("sample", x, i, v)
                 = NextSample(queue, Period(queue, valid, start, conf, i), v)
  BY DEF Step
<1>2. Start("sample", x) = NoPrice
  BY DEF Start
<1>3. PICK g : g = [i \in 0 .. n |-> Iteration("sample", x, g, i)]
  <2> HIDE DEF x
  <2> QED
    BY IterationSolved
<1>4. g = [i \in 0 .. n |->
              IF i = 0 THEN NoPrice
              ELSE NextSample(queue, Period(queue, valid, start, conf, i), g[i - 1])]
  <2>1. \A i : Iteration("sample", x, g, i) =
                   IF i = 0 THEN NoPrice
                   ELSE NextSample(queue, Period(queue, valid, start, conf, i), g[i - 1])
    <3> HIDE DEF x
    <3> QED
      BY <1>1, <1>2, Zenon DEF Iteration
  <2> HIDE DEF x, n
  <2> QED
    BY <1>3, <2>1
<1>5. PICK s : s = Samples(queue, valid, start, conf)
  OBVIOUS
<1>6. s = [i \in 0 .. n |->
              IF i = 0 THEN NoPrice
              ELSE NextSample(queue, Period(queue, valid, start, conf, i), s[i - 1])]
  <2>1. \E h : h = [i \in 0 .. n |->
              IF i = 0 THEN NoPrice
              ELSE NextSample(queue, Period(queue, valid, start, conf, i), h[i - 1])]
    BY <1>4, Zenon
  <2> QED
    BY <1>5, <2>1, Zenon DEF Samples, Period
<1>7. s[0] = NoPrice
  BY <1>6
<1>8. ASSUME NEW i \in 1 .. n
      PROVE  s[i] = NextSample(queue, Period(queue, valid, start, conf, i), s[i - 1])
  <2>1. i \in 0 .. n /\ i # 0
    OBVIOUS
  <2> HIDE DEF n
  <2> QED
    BY <1>6, <2>1
<1> QED
  BY <1>5, <1>7, <1>8

(***************************************************************************)
(* PriceFeed::calc_price: each average by the one before.                  *)
(***************************************************************************)
LEMMA AverageAt ==
    ASSUME NEW sample, NEW conf, conf.samples_number \in Nat
    PROVE  /\ Average(sample, conf)[0] = NoPrice
           /\ \A i \in 1 .. conf.samples_number :
                 Average(sample, conf)[i] =
                     NextAverage(conf, Average(sample, conf)[i - 1], sample[i])
<1> DEFINE n == conf.samples_number
           x == [sample |-> sample, conf |-> conf]
<1>1. ASSUME NEW i, NEW v
      PROVE  Step("average", x, i, v) = NextAverage(conf, v, sample[i])
  BY DEF Step
<1>2. Start("average", x) = NoPrice
  BY DEF Start
<1>3. PICK g : g = [i \in 0 .. n |-> Iteration("average", x, g, i)]
  <2> HIDE DEF x
  <2> QED
    BY IterationSolved
<1>4. g = [i \in 0 .. n |->
              IF i = 0 THEN NoPrice ELSE NextAverage(conf, g[i - 1], sample[i])]
  <2>1. \A i : Iteration("average", x, g, i) =
                   IF i = 0 THEN NoPrice ELSE NextAverage(conf, g[i - 1], sample[i])
    <3> HIDE DEF x
    <3> QED
      BY <1>1, <1>2, Zenon DEF Iteration
  <2> HIDE DEF x, n
  <2> QED
    BY <1>3, <2>1
<1>5. PICK s : s = Average(sample, conf)
  OBVIOUS
<1>6. s = [i \in 0 .. n |->
              IF i = 0 THEN NoPrice ELSE NextAverage(conf, s[i - 1], sample[i])]
  <2>1. \E h : h = [i \in 0 .. n |->
              IF i = 0 THEN NoPrice ELSE NextAverage(conf, h[i - 1], sample[i])]
    BY <1>4, Zenon
  <2> QED
    BY <1>5, <2>1, Zenon DEF Average
<1>7. s[0] = NoPrice
  BY <1>6
<1>8. ASSUME NEW i \in 1 .. n
      PROVE  s[i] = NextAverage(conf, s[i - 1], sample[i])
  <2>1. i \in 0 .. n /\ i # 0
    OBVIOUS
  <2> HIDE DEF n
  <2> QED
    BY <1>6, <2>1
<1> QED
  BY <1>5, <1>7, <1>8

(***************************************************************************)
(* A finite set of naturals that is not empty has a greatest member.       *)
(***************************************************************************)
LEMMA NatMaximum ==
    ASSUME NEW S \in SUBSET Nat, IsFiniteSet(S), S # {}
    PROVE  Max(S) \in S /\ \A y \in S : Max(S) >= y
<1> DEFINE Good == {T \in SUBSET S : T # {} => \E x \in T : \A y \in T : x >= y}
<1>1. {} \in Good
  OBVIOUS
<1>2. ASSUME NEW T \in SUBSET S, T # {}, \A x \in T : T \ {x} \in Good
      PROVE  T \in Good
  <2>1. PICK z \in T : TRUE
    BY <1>2
  <2>2. CASE T \ {z} = {}
    <3>1. \A y \in T : z >= y
      BY <2>2
    <3> QED
      BY <3>1
  <2>3. CASE T \ {z} # {}
    <3>1. PICK x \in T \ {z} : \A y \in T \ {z} : x >= y
      BY <1>2, <2>3
    <3>2. x \in Nat /\ z \in Nat
      OBVIOUS
    <3>3. CASE x >= z
      BY <3>1, <3>3
    <3>4. CASE z >= x
      <4>1. ASSUME NEW y \in T PROVE z >= y
        <5>1. y \in Nat /\ (y = z \/ x >= y)
          BY <3>1
        <5> QED
          BY <3>2, <3>4, <5>1
      <4> QED
        BY <4>1
    <3> QED
      BY <3>2, <3>3, <3>4
  <2> QED
    BY <2>2, <2>3
<1>3. \A T \in SUBSET S : T \in Good
  <2> HIDE DEF Good
  <2> QED
    BY <1>1, <1>2, SubsetInduction
<1>4. \E x \in S : \A y \in S : x >= y
  BY <1>3
<1> QED
  BY <1>4, Zenon DEF Max

(***************************************************************************)
(* The last price of each feeder is one of those observed, and the feeders *)
(* are finitely many.                                                      *)
(***************************************************************************)
LEMMA LastPrices ==
    ASSUME NEW queue, NEW places \in SUBSET Nat, IsFiniteSet(places)
    PROVE  /\ IsFiniteSet(FeedersOf(queue, places))
           /\ \A f \in FeedersOf(queue, places) : \E i \in places :
                 LastByFeeder(queue, places)[f] = queue[i].price
<1>1. IsFiniteSet(FeedersOf(queue, places))
  <2> DEFINE g == [i \in places |-> queue[i].feeder]
  <2>1. {g[i] : i \in places} = FeedersOf(queue, places)
    BY DEF FeedersOf
  <2> HIDE DEF g
  <2> QED
    BY <2>1, ImageFinite
<1>2. ASSUME NEW f \in FeedersOf(queue, places)
      PROVE  \E i \in places : LastByFeeder(queue, places)[f] = queue[i].price
  <2> DEFINE own == {i \in places : queue[i].feeder = f}
  <2>1. own \in SUBSET Nat /\ IsFiniteSet(own) /\ own # {}
    BY FS_Subset DEF FeedersOf
  <2>2. Max(own) \in own
    <3> HIDE DEF own
    <3> QED
      BY <2>1, NatMaximum
  <2>3. LastByFeeder(queue, places)[f] = queue[Max(own)].price
    BY DEF LastByFeeder
  <2> QED
    BY <2>2, <2>3
<1> QED
  BY <1>1, <1>2

(***************************************************************************)
(* SampleBuilder::end_of_period over the observations of a period.         *)
(***************************************************************************)
LEMMA SampleMean ==
    ASSUME NEW conf \in PriceConfigs,
           NEW queue, NEW places \in SUBSET Nat, IsFiniteSet(places), places # {},
           NEW C, \A c \in C : InRange(c),
           \A i \in places : /\ queue[i].feeder \in Accounts
                             /\ Proper(queue[i].price)
                             /\ \A c \in C : Between(queue[i].price, c, 1, 1, 0)
    PROVE  /\ Computed(Mean(queue, places))
           /\ \A c \in C : Between(Mean(queue, places), c, 1, 1, Cardinality(Accounts))
<1>1. \A f \in FeedersOf(queue, places) :
          /\ Proper(LastByFeeder(queue, places)[f])
          /\ \A c \in C : Between(LastByFeeder(queue, places)[f], c, 1, 1, 0)
  BY LastPrices
<1>2. IsFiniteSet(FeedersOf(queue, places))
  BY LastPrices
<1>3. Cardinality(FeedersOf(queue, places)) <= Cardinality(Accounts)
  <2>1. FeedersOf(queue, places) \subseteq Accounts
    BY DEF FeedersOf
  <2> QED
    BY <2>1, FS_Subset, RoundingAssumption
<1> QED
  BY <1>1, <1>2, <1>3, MeanOfPrices

(***************************************************************************)
(* Neither None nor a panic is a proper price.                             *)
(***************************************************************************)
LEMMA ProperOnly ==
    /\ ~Proper(NoPrice) /\ ~Proper(Panic) /\ NoPrice # Panic /\ ~Computed(NoPrice)
BY DEF Computed, Proper, Positive, NoPrice, Panic, Price

\* A panic, which takes a discount factor of 100%
Panicked(conf, p) == p = Panic /\ conf.discount_factor = HUNDRED

(***************************************************************************)
(* Nothing of a price panics.                                              *)
(***************************************************************************)
LEMMA LossyMulZero ==
    ASSUME NEW p, Computed(p), NEW m \in Nat \ {0}, Fits(m)
    PROVE  LossyMul(p, 0, m) = Panic
<1>1. CASE p = Panic
  BY <1>1, Zenon DEF LossyMul
<1>2. CASE p # Panic
  <2>1. PICK a, q \in Nat \ {0} : p = Price(a, q) /\ Fits(a) /\ Fits(q)
    BY <1>2, PriceParts DEF Computed
  <2>2. Fits(0) /\ 0 \in Nat
    BY Pow2Type DEF Fits
  <2>3. PICK c, b, l, d, r, n : Multiplies(a, q, 0, m, c, b, l, d, r, n)
    BY <2>1, <2>2, LossyMulOf
  <2>4. /\ c \in Nat \ {0} /\ l \in Nat /\ 0 = c * l /\ r \in Nat /\ b * n \in Nat
        /\ b * n < Amounts * Amounts /\ r * l < Amounts * Amounts
        /\ LossyMul(Price(a, q), 0, m) = TrimDown(b * n, r * l)
    BY <2>3 DEF Multiplies
  <2>5. r * l = 0
    <3>1. l # 0 => c * l # 0
      BY <2>4
    <3>2. l = 0 => r * l = 0
      BY <2>4
    <3> QED
      BY <2>4, <3>1, <3>2
  <2>6. PICK A \in Nat : A = b * n /\ A < Amounts * Amounts /\ 0 < Amounts * Amounts
    BY <2>4, <2>5
  <2>7. PICK s, x, y, e, f : Trims(A, 0, s, x, y, e, f)
    BY <2>2, <2>6, TrimDownOf
  <2>8. /\ s \in Nat \ {0} /\ y \in Nat /\ f \in Nat /\ 0 = s * y + f
        /\ TrimDown(A, 0) = IF x = 0 \/ y = 0 THEN Panic ELSE Coprime(x, y)
    BY <2>7 DEF Trims
  <2>9. y = 0
    <3>1. y # 0 => s * y # 0
      BY <2>8
    <3>2. s * y \in Nat
      BY <2>8
    <3> QED
      BY <2>8, <3>1, <3>2
  <2> QED
    BY <2>1, <2>4, <2>5, <2>6, <2>8, <2>9
<1> QED
  BY <1>1, <1>2

\* A moving average is in the ranges, unless it panics
Moving(conf, p, C, j) ==
    Computed(p) /\ \A c \in C : Panicked(conf, p) \/ Between(p, c, 1, 1, j)

(***************************************************************************)
(* The discounted average of a sample and an average that are in the same  *)
(* ranges is in them but for two roundings more, unless it panics under a  *)
(* full discount.                                                          *)
(***************************************************************************)
LEMMA DiscountMoves ==
    ASSUME NEW conf \in PriceConfigs, NEW C, \A c \in C : InRange(c), NEW j \in Nat,
           j + 2 <= RoundingSteps(conf),
           NEW average, Moving(conf, average, C, j),
           NEW sample, Computed(sample), \A c \in C : Between(sample, c, 1, 1, j)
    PROVE  Moving(conf, Discount(conf, average, sample), C, j + 2)
<1> DEFINE k == conf.discount_factor
           r == HUNDRED - k
           x == PercentOfPrice(k, sample)
           y == PercentOfPrice(r, average)
           sum == PriceAdd(x, y)
<1>1. k \in Nat \ {0} /\ k <= 1000 /\ HUNDRED = 1000
  BY ConfigRoom DEF ConfigType, ValidConfig, HUNDRED
<1>2. Discount(conf, average, sample) = IF Positive(sum) THEN sum ELSE Panic
  BY Zenon DEF Discount
<1>3. r \in Nat /\ k + r = 1000 /\ r <= 1000
  BY <1>1
<1>4. x = LossyMul(sample, k, 1000) /\ y = LossyMul(average, r, 1000)
  BY <1>1 DEF PercentOfPrice
<1>5. 1000 \in Nat \ {0} /\ Fits(1000) /\ Fits(k) /\ Fits(r)
  <2>1. Fits(1000) /\ Amounts \in Nat
    BY RoundingAssumption, Pow2Type DEF HUNDRED
  <2> HIDE DEF k, r
  <2> QED
    BY <1>1, <1>3, <2>1 DEF Fits
<1>6. Computed(average)
  BY DEF Moving
<1> HIDE DEF k, r, x, y
<1>7. Summed(sum)
  <2>1. Summed(sample) /\ Summed(average)
    BY <1>6, PriceParts
  <2>2. Computed(x) /\ Computed(y)
    BY <1>1, <1>3, <1>4, <1>5, <2>1, LossyMulComputed
  <2>3. Summed(x) /\ Summed(y)
    BY <2>2, PriceParts
  <2> QED
    BY <2>3, PriceAddSummed
<1>8. Computed(Discount(conf, average, sample))
  <2> HIDE DEF sum
  <2>1. Positive(sum) => Proper(sum)
    BY <1>7 DEF Summed, Proper, Positive, Panic, Price
  <2> QED
    BY <1>2, <2>1 DEF Computed
<1>9. ASSUME NEW c \in C
      PROVE  \/ Panicked(conf, Discount(conf, average, sample))
             \/ Between(Discount(conf, average, sample), c, 1, 1, j + 2)
  <2>1. InRange(c) /\ Between(sample, c, 1, 1, j)
    OBVIOUS
  <2>2. CASE average = Panic \/ r = 0
    <3>1. y = Panic
      <4>1. average = Panic => LossyMul(average, r, 1000) = Panic
        BY Zenon DEF LossyMul
      <4>2. r = 0 => LossyMul(average, r, 1000) = Panic
        BY <1>5, <1>6, LossyMulZero
      <4> QED
        BY <1>4, <2>2, <4>1, <4>2
    <3>2. sum = Panic
      BY <3>1, Zenon DEF PriceAdd
    <3>3. ~Positive(sum)
      BY <3>2 DEF Positive, Panic, Price
    <3>4. average = Panic => conf.discount_factor = HUNDRED
      BY ProperOnly DEF Moving, Panicked, Between
    <3>5. r = 0 => conf.discount_factor = HUNDRED
      BY <1>1, <1>3 DEF k
    <3> QED
      BY <1>2, <2>2, <3>3, <3>4, <3>5 DEF Panicked
  <2>3. CASE average # Panic /\ r # 0
    <3>1. Between(average, c, 1, 1, j)
      BY <2>3 DEF Moving, Panicked
    <3>2. /\ Heavy(k, 1000) /\ Heavy(r, 1000)
      <4>1. k # 1000 /\ r = 1000 - k
        BY <1>1, <1>3, <2>3
      <4> QED
        BY <4>1, ConfigRoom DEF k
    <3>3. /\ 2 * (j + 1) <= Precision /\ 2 * ((j + 1) + 1) <= Precision
          /\ j + 2 = (j + 1) + 1 /\ j + 1 \in Nat /\ j + 2 \in Nat /\ j + 2 <= Precision
      <4>1. RoundingSteps(conf) \in Nat /\ 2 * RoundingSteps(conf) <= Precision
        BY ConfigRoom
      <4> QED
        BY <4>1, Room
    <3>4. 1 * k = k /\ 1 * r = r /\ 1 * 1000 = 1000
      BY <1>1, <1>3
    <3>5. Between(x, c, k, 1000, j + 1)
      <4>1. Heavy(1 * k, 1 * 1000) /\ 1 * k <= 1 * 1000
        BY <1>1, <3>2, <3>4
      <4>2. 1 \in Nat
        OBVIOUS
      <4>3. PICK u, h \in Nat \ {0} : u = 1 /\ h = 1000
        OBVIOUS
      <4>4. /\ Between(sample, c, u, u, j) /\ Heavy(u * k, u * h) /\ u * k <= u * h
            /\ k \in Nat \ {0} /\ Fits(k) /\ Fits(h) /\ u \in Nat
        BY <1>1, <1>5, <2>1, <2>1, <4>1, <4>2, <4>3
      <4>5. Between(LossyMul(sample, k, h), c, u * k, u * h, j + 1)
        BY <2>1, <3>3, <4>4, LossyMulBetween
      <4> QED
        BY <1>4, <3>4, <4>3, <4>5
    <3>6. Between(y, c, r, 1000, j + 1)
      <4>1. Heavy(1 * r, 1 * 1000) /\ 1 * r <= 1 * 1000
        BY <1>3, <3>2, <3>4
      <4>2. 1 \in Nat /\ r \in Nat \ {0}
        BY <1>3, <2>3
      <4>3. PICK u, h \in Nat \ {0} : u = 1 /\ h = 1000
        OBVIOUS
      <4>4. /\ Between(average, c, u, u, j) /\ Heavy(u * r, u * h) /\ u * r <= u * h
            /\ r \in Nat \ {0} /\ Fits(r) /\ Fits(h) /\ u \in Nat
        BY <1>1, <1>5, <2>1, <3>1, <4>1, <4>2, <4>3
      <4>5. Between(LossyMul(average, r, h), c, u * r, u * h, j + 1)
        BY <2>1, <3>3, <4>4, LossyMulBetween
      <4> QED
        BY <1>4, <3>4, <4>3, <4>5
    <3>7. k + r <= 1000 * Cardinality(Accounts)
      <4>1. PICK n \in Nat \ {0} : n = Cardinality(Accounts)
        BY Room
      <4> QED
        BY <1>3, <4>1
    <3>8. Between(sum, c, k + r, 1000, (j + 1) + 1)
      BY <2>1, <3>2, <3>3, <3>5, <3>6, <3>7, PriceAddBetween
    <3> HIDE DEF sum
    <3>9. Between(sum, c, 1000, 1000, j + 2)
      BY <1>3, <3>3, <3>8
    <3>10. Between(sum, c, 1, 1, j + 2)
      BY <1>5, <2>1, <3>3, <3>9, BetweenWhole
    <3>11. Positive(sum)
      BY <3>10 DEF Between, Proper
    <3> QED
      BY <1>2, <3>10, <3>11
  <2> QED
    BY <2>2, <2>3
<1> HIDE DEF sum
<1> QED
  BY <1>8, <1>9 DEF Moving

\* No period has observations
Silent(queue, valid, start, conf) ==
    \A i \in 1 .. conf.samples_number : Period(queue, valid, start, conf, i) = {}

\* Ranges of prices, and the prices of those places in them
Ranges(C) == \A c \in C : InRange(c)
Priced(queue, places, C) ==
    \A i \in places : /\ queue[i].feeder \in Accounts
                      /\ Proper(queue[i].price)
                      /\ \A c \in C : Between(queue[i].price, c, 1, 1, 0)

(***************************************************************************)
(* PriceFeed::calc_price over the samples: there is no price exactly when  *)
(* no period has observations, and a price is in the ranges that all valid *)
(* observations are in, unless it panics under a full discount.            *)
(***************************************************************************)
LEMMA AverageMoves ==
    ASSUME NEW queue, NEW valid \in SUBSET Nat, IsFiniteSet(valid), NEW start,
           NEW conf \in PriceConfigs, NEW C, Ranges(C), Priced(queue, valid, C),
           NEW p, p = Average(Samples(queue, valid, start, conf),
                              conf)[conf.samples_number]
    PROVE  IF Silent(queue, valid, start, conf) THEN p = NoPrice
           ELSE Moving(conf, p, C, RoundingSteps(conf))
<1> USE DEF Ranges, Priced
<1> DEFINE P(i) == Period(queue, valid, start, conf, i)
           n == conf.samples_number
           s == Samples(queue, valid, start, conf)
           a == Average(s, conf)
           K == Cardinality(Accounts)
           Empty(m) == \A i \in 1 .. m : P(i) = {}
           Sampled(v) == Computed(v) /\ \A c \in C : Between(v, c, 1, 1, K)
           Holds(m) == IF Empty(m) THEN s[m] = NoPrice /\ a[m] = NoPrice
                       ELSE m # 0 /\ Sampled(s[m]) /\ Moving(conf, a[m], C, K + 2 * (m - 1))
           G == {m \in Nat : m <= n => Holds(m)}
<1>0. /\ n \in Nat /\ K \in Nat /\ RoundingSteps(conf) = K + 2 * (n - 1)
      /\ RoundingSteps(conf) \in Nat /\ 2 * RoundingSteps(conf) <= Precision
      /\ Precision \in Nat
  BY ConfigRoom, Room DEF ConfigType, RoundingSteps
<1>1. /\ s[0] = NoPrice
      /\ \A i \in 1 .. n : s[i] = NextSample(queue, P(i), s[i - 1])
  BY <1>0, SamplesAt
<1>2. /\ a[0] = NoPrice
      /\ \A i \in 1 .. n : a[i] = NextAverage(conf, a[i - 1], s[i])
  <2> HIDE DEF s
  <2> QED
    BY <1>0, AverageAt
<1>3. \A i : P(i) \in SUBSET Nat /\ IsFiniteSet(P(i)) /\ P(i) \subseteq valid
  <2>1. \A i : P(i) \subseteq valid
    BY DEF Period, Within
  <2> HIDE DEF P
  <2> QED
    BY <2>1, FS_Subset
<1> HIDE DEF P, n, s, a, K
<1>4. 0 \in G
  <2>1. Empty(0)
    OBVIOUS
  <2> QED
    BY <1>1, <1>2, <2>1
<1>5. ASSUME NEW m \in Nat, m \in G PROVE m + 1 \in G
  <2> SUFFICES ASSUME m + 1 <= n PROVE Holds(m + 1)
    OBVIOUS
  <2>1. m + 1 \in 1 .. n /\ (m + 1) - 1 = m /\ m <= n /\ m + 1 # 0
    BY <1>0
  <2>2. Holds(m)
    BY <1>5, <2>1
  <2>3. s[m + 1] = NextSample(queue, P(m + 1), s[m])
    BY <1>1, <2>1
  <2>4. a[m + 1] = NextAverage(conf, a[m], s[m + 1])
    BY <1>2, <2>1
  <2>5. Empty(m + 1) <=> Empty(m) /\ P(m + 1) = {}
    <3>1. ASSUME NEW i \in 1 .. m + 1 PROVE i \in 1 .. m \/ i = m + 1
      OBVIOUS
    <3>2. ASSUME NEW i \in 1 .. m PROVE i \in 1 .. m + 1
      OBVIOUS
    <3>3. m + 1 \in 1 .. m + 1
      OBVIOUS
    <3> QED
      BY <3>1, <3>2, <3>3
  <2>6. P(m + 1) # {} => Sampled(s[m + 1])
    <3> SUFFICES ASSUME P(m + 1) # {} PROVE Sampled(s[m + 1])
      OBVIOUS
    <3>1. s[m + 1] = Mean(queue, P(m + 1))
      BY <2>3 DEF NextSample
    <3>2. PICK places : places = P(m + 1)
      OBVIOUS
    <3>3. /\ places \in SUBSET Nat /\ IsFiniteSet(places) /\ places # {}
          /\ \A i \in places : /\ queue[i].feeder \in Accounts
                               /\ Proper(queue[i].price)
                               /\ \A c \in C : Between(queue[i].price, c, 1, 1, 0)
      BY <1>3, <3>2
    <3>4. Sampled(Mean(queue, places))
      BY <3>3, SampleMean DEF K
    <3> QED
      BY <3>1, <3>2, <3>4
  <2>7. P(m + 1) = {} => s[m + 1] = s[m]
    BY <2>3 DEF NextSample
  <2>8. /\ K + 2 * m \in Nat /\ K <= K + 2 * m /\ K + 2 * m <= RoundingSteps(conf)
        /\ K + 2 * m <= Precision /\ K + 2 * ((m + 1) - 1) = K + 2 * m
    BY <1>0
  <2>9. ASSUME NEW v, Sampled(v), NEW j \in Nat, K <= j, j <= Precision
        PROVE  \A c \in C : Between(v, c, 1, 1, j)
    <3> SUFFICES ASSUME NEW c \in C PROVE Between(v, c, 1, 1, j)
      OBVIOUS
    <3>1. InRange(c) /\ Between(v, c, 1, 1, K) /\ 1 \in Nat
      BY <2>9
    <3> QED
      BY <1>0, <2>9, <3>1, BetweenMore
  <2>10. CASE Empty(m)
    <3>1. a[m + 1] = s[m + 1]
      BY <2>2, <2>4, <2>10 DEF NextAverage
    <3>2. s[m] = NoPrice
      BY <2>2, <2>10
    <3>3. P(m + 1) # {} => Moving(conf, a[m + 1], C, K + 2 * m)
      BY <2>6, <2>8, <2>9, <3>1 DEF Moving
    <3> HIDE DEF Empty, Sampled
    <3> QED
      BY <2>1, <2>5, <2>6, <2>7, <2>8, <2>10, <3>1, <3>2, <3>3
  <2>11. CASE ~Empty(m)
    <3>1. m # 0 /\ Sampled(s[m]) /\ Moving(conf, a[m], C, K + 2 * (m - 1))
      BY <2>2, <2>11
    <3>2. a[m] # NoPrice
      BY <3>1, ProperOnly DEF Moving
    <3>3. Sampled(s[m + 1])
      <4> HIDE DEF Sampled
      <4> QED
        BY <2>6, <2>7, <3>1
    <3>4. a[m + 1] = Discount(conf, a[m], s[m + 1])
      BY <2>4, <3>2 DEF NextAverage
    <3>5. PICK j \in Nat : /\ j = K + 2 * (m - 1) /\ j + 2 = K + 2 * m /\ K <= j
                           /\ j <= Precision /\ j + 2 <= RoundingSteps(conf)
      BY <1>0, <2>8, <3>1
    <3>6. PICK x, y : x = a[m] /\ y = s[m + 1]
      OBVIOUS
    <3>7. Sampled(y)
      BY <3>3, <3>6
    <3>8. /\ Moving(conf, x, C, j) /\ Computed(y)
          /\ \A c \in C : Between(y, c, 1, 1, j)
      BY <2>9, <3>1, <3>5, <3>6, <3>7
    <3>9. Moving(conf, Discount(conf, x, y), C, j + 2)
      BY <3>5, <3>8, DiscountMoves
    <3>10. Moving(conf, a[m + 1], C, K + 2 * ((m + 1) - 1))
      BY <2>8, <3>4, <3>5, <3>6, <3>9
    <3> HIDE DEF Empty, Sampled
    <3> QED
      BY <2>1, <2>5, <2>11, <3>3, <3>10
  <2> QED
    BY <2>10, <2>11
<1>6. \A m \in Nat : m \in G
  <2> HIDE DEF G
  <2> QED
    BY <1>4, <1>5, NatSetInduction
<1>7. Holds(n)
  BY <1>0, <1>6
<1>8. p = a[n]
  BY DEF a, s, n
<1> QED
  BY <1>0, <1>7, <1>8 DEF P, n, Silent

(***************************************************************************)
(* The periods cover the feed validity: a valid observation up to now is   *)
(* within one of them.                                                     *)
(***************************************************************************)
LEMMA PeriodOf ==
    ASSUME NEW conf \in ConfigType, ValidConfig(conf), NEW at \in Nat, NEW t \in Nat,
           FeedValidSince(conf, at) < t, t <= at
    PROVE  \E i \in 1 .. conf.samples_number :
               LET since == FeedValidSince(conf, at)
               IN  /\ since + (i - 1) * conf.sample_period < t
                   /\ ~(since + i * conf.sample_period < t)
<1> DEFINE n == conf.samples_number
           q == conf.sample_period
           since == FeedValidSince(conf, at)
<1>1. n \in Nat /\ n > 0 /\ q \in Nat /\ q > 0
  BY DEF ConfigType, ValidConfig
<1>2. since = IF q * n <= at THEN at - q * n ELSE 0
  BY DEF FeedValidSince, FeedValidity
<1>3. q * n \in Nat
  BY <1>1
<1> HIDE DEF n, q, since
<1>4. since \in Nat /\ since < t /\ t <= since + q * n
  <2>1. since < t
    BY DEF since
  <2> QED
    BY <1>2, <1>3, <2>1
<1> DEFINE z == t - since - 1
           k == z \div q
           r == z % q
<1>5. z \in Nat /\ t = since + z + 1
  BY <1>4
<1> HIDE DEF z
<1>6. k \in Nat /\ r \in Nat /\ r < q /\ z = q * k + r
  BY <1>1, <1>5, Remainder
<1> HIDE DEF k, r
<1>7. k < n
  <2> SUFFICES ASSUME ~(k < n) PROVE FALSE
    OBVIOUS
  <2>1. n <= k
    BY <1>1, <1>6
  <2>2. PICK e \in Nat : k = n + e
    BY <1>1, <1>6, <2>1
  <2>3. q * k = q * n + q * e /\ q * e \in Nat
    BY <1>1, <2>2
  <2> QED
    BY <1>3, <1>4, <1>5, <1>6, <2>3
<1>8. k + 1 \in 1 .. n /\ (k + 1) - 1 = k
  BY <1>1, <1>6, <1>7
<1>9. k * q = q * k /\ (k + 1) * q = q * k + q /\ q * k \in Nat
  BY <1>1, <1>6
<1>10. since + k * q < t
  BY <1>1, <1>4, <1>5, <1>6, <1>9
<1>11. ~(since + (k + 1) * q < t)
  BY <1>1, <1>4, <1>5, <1>6, <1>9
<1>12. PICK i \in 1 .. n : since + (i - 1) * q < t /\ ~(since + i * q < t)
  BY <1>8, <1>10, <1>11
<1> QED
  BY <1>12, Zenon DEF n, q, since

----------------------------------------------------------------------------
(* The queues of observations *)

\* The observation is somewhere in the queue
Has(queue, o) == \E i \in 1 .. Len(queue) : queue[i] = o

\* The observations are in the order of their times, which the iteration over
\* the sample periods relies on (the debug assertion in SampleBuilder::next)
InOrder(queue) ==
    \A i, j \in 1 .. Len(queue) : i < j => queue[i].time <= queue[j].time

\* An observation of a proper price, made by the moment
Observed(o, at) ==
    /\ o.feeder \in Accounts /\ o.time \in Nat /\ 1 <= o.time /\ o.time <= at
    /\ Proper(o.price)

\* The queue of a pair, out of the observations ever made of it
PairInv(queue, made, at) ==
    /\ IsFiniteSet(made)
    /\ \A o \in made : Observed(o, at)
    /\ queue \in Seq(made)
    /\ InOrder(queue)

\* The queue has all that are valid
Complete(queue, made, since) ==
    \A o \in made : ValidSince(o, since) => Has(queue, o)

\* No observation is made later than that
MadeBy(made, at) == \A o \in made : o.time \in Nat /\ o.time <= at

\* The valid observations of the one queue are in the other
Survive(queue, since, next) ==
    \A o : Has(queue, o) /\ ValidSince(o, since) => Has(next, o)

(***************************************************************************)
(* Observations::retain drops no valid observation, and adds none.         *)
(***************************************************************************)
LEMMA RetainOf ==
    ASSUME NEW made, NEW queue \in Seq(made), NEW since
    PROVE  /\ Retain(queue, since) \in Seq(made)
           /\ \A o : Has(queue, o) /\ ValidSince(o, since)
                         => Has(Retain(queue, since), o)
           /\ InOrder(queue) => InOrder(Retain(queue, since))
<1> DEFINE valid == {i \in DOMAIN queue : ValidSince(queue[i], since)}
<1>1. DOMAIN queue = 1 .. Len(queue) /\ Len(queue) \in Nat
  OBVIOUS
<1>2. CASE valid = {}
  <2>1. Retain(queue, since) = <<>>
    BY <1>2 DEF Retain
  <2>2. \A o : Has(queue, o) => ~ValidSince(o, since)
    BY <1>1, <1>2 DEF Has
  <2>3. <<>> \in Seq(made) /\ Len(<<>>) = 0
    OBVIOUS
  <2>4. InOrder(<<>>)
    BY <2>3 DEF InOrder
  <2> QED
    BY <2>1, <2>2, <2>3, <2>4
<1>3. CASE valid # {}
  <2> DEFINE m == Min(valid)
             kept == SubSeq(queue, m, Len(queue))
  <2>1. m \in valid /\ \A i \in valid : m <= i
    <3>1. valid \in SUBSET Nat
      BY <1>1
    <3>2. \E x \in valid : \A y \in valid : x <= y
      <4> HIDE DEF valid
      <4> QED
        BY <1>3, <3>1, NatMinimum
    <3> HIDE DEF valid
    <3> QED
      BY <3>2, Zenon DEF Min
  <2>2. Retain(queue, since) = kept
    BY <1>3, Zenon DEF Retain
  <2>3. m \in 1 .. Len(queue)
    BY <1>1, <2>1
  <2> HIDE DEF m
  <2>4. /\ kept \in Seq(made)
        /\ Len(kept) = Len(queue) - m + 1
        /\ \A i \in 1 .. Len(kept) : kept[i] = queue[i + m - 1]
    <3>1. Len(queue) \in m - 1 .. Len(queue)
      BY <1>1, <2>3
    <3> QED
      BY <1>1, <2>3, <3>1, SubSeqProperties
  <2> HIDE DEF kept
  <2>5. ASSUME NEW o, Has(queue, o), ValidSince(o, since) PROVE Has(kept, o)
    <3>1. PICK i \in 1 .. Len(queue) : queue[i] = o
      BY <2>5 DEF Has
    <3>2. i \in valid
      BY <1>1, <2>5, <3>1
    <3>3. m <= i
      BY <2>1, <3>2
    <3>4. i - m + 1 \in 1 .. Len(kept) /\ (i - m + 1) + m - 1 = i
      BY <1>1, <2>3, <2>4, <3>3
    <3>5. kept[i - m + 1] = o
      BY <2>4, <3>1, <3>4
    <3> QED
      BY <3>4, <3>5 DEF Has
  <2>6. ASSUME InOrder(queue) PROVE InOrder(kept)
    <3>1. ASSUME NEW i \in 1 .. Len(kept), NEW j \in 1 .. Len(kept), i < j
          PROVE  kept[i].time <= kept[j].time
      <4>1. /\ i + m - 1 \in 1 .. Len(queue) /\ j + m - 1 \in 1 .. Len(queue)
            /\ i + m - 1 < j + m - 1
        BY <1>1, <2>3, <2>4, <3>1
      <4>2. queue[i + m - 1].time <= queue[j + m - 1].time
        BY <2>6, <4>1 DEF InOrder
      <4> QED
        BY <2>4, <4>2
    <3> QED
      BY <3>1 DEF InOrder
  <2> QED
    BY <2>2, <2>4, <2>5, <2>6
<1> QED
  BY <1>2, <1>3

(***************************************************************************)
(* PriceFeed::add_observation: the new one is the last, the valid ones     *)
(* stay.                                                                   *)
(***************************************************************************)
LEMMA AddObservationOf ==
    ASSUME NEW made, NEW queue \in Seq(made), NEW since,
           NEW from, NEW at \in Nat, NEW p, Observation(from, at, p) \in made,
           MadeBy(made, at),
           NEW added, added = AddObservation(queue, from, at, p, since)
    PROVE  /\ added \in Seq(made)
           /\ Survive(queue, since, added)
           /\ Has(added, Observation(from, at, p))
           /\ InOrder(queue) => InOrder(added)
<1> DEFINE new == Observation(from, at, p)
<1>1. PICK kept : kept = Retain(queue, since)
  OBVIOUS
<1>2. /\ kept \in Seq(made)
      /\ \A o : Has(queue, o) /\ ValidSince(o, since) => Has(kept, o)
      /\ InOrder(queue) => InOrder(kept)
  BY <1>1, RetainOf
<1>3. new.time = at
  BY DEF Observation
<1>4. added = Append(kept, new)
  BY <1>1 DEF AddObservation, Register
<1> HIDE DEF new
<1>5. new \in made
  BY DEF new
<1>6. /\ added \in Seq(made) /\ Len(added) = Len(kept) + 1 /\ Len(kept) \in Nat
      /\ added[Len(kept) + 1] = new
      /\ \A i \in 1 .. Len(kept) : added[i] = kept[i]
  BY <1>2, <1>4, <1>5
<1>7. ASSUME NEW o, Has(kept, o) PROVE Has(added, o)
  <2>1. PICK i \in 1 .. Len(kept) : kept[i] = o
    BY <1>7 DEF Has
  <2>2. i \in 1 .. Len(added) /\ added[i] = o
    BY <1>6, <2>1
  <2> QED
    BY <2>2 DEF Has
<1>8. Has(added, new)
  <2>1. Len(kept) + 1 \in 1 .. Len(added)
    BY <1>6
  <2> QED
    BY <1>6, <2>1 DEF Has
<1>9. ASSUME InOrder(kept) PROVE InOrder(added)
  <2>1. ASSUME NEW i \in 1 .. Len(added), NEW j \in 1 .. Len(added), i < j
        PROVE  added[i].time <= added[j].time
    <3>1. i \in 1 .. Len(kept) /\ added[i] = kept[i]
      BY <1>6, <2>1
    <3>2. CASE j \in 1 .. Len(kept)
      <4>1. kept[i].time <= kept[j].time
        BY <1>9, <2>1, <3>1, <3>2 DEF InOrder
      <4> QED
        BY <1>6, <3>1, <3>2, <4>1
    <3>3. CASE j = Len(kept) + 1
      <4>1. added[j].time = at
        BY <1>3, <1>6, <3>3
      <4>2. kept[i] \in made
        BY <1>2, <3>1
      <4> QED
        BY <3>1, <4>1, <4>2 DEF MadeBy
    <3> QED
      BY <1>6, <3>2, <3>3
  <2> QED
    BY <2>1 DEF InOrder
<1> QED
  BY <1>2, <1>6, <1>7, <1>8, <1>9 DEF new, Survive

(***************************************************************************)
(* PriceFeeds::feed: message by message.                                   *)
(***************************************************************************)
LEMMA FeedAt ==
    ASSUME NEW queues, NEW conf, NEW at, NEW from, NEW msgs, Len(msgs) \in Nat
    PROVE  \E g : /\ g[0] = queues
                  /\ \A i \in 1 .. Len(msgs) :
                        g[i] = AddTo(g[i - 1], from, at, msgs[i],
                                     FeedValidSince(conf, at))
                  /\ g[Len(msgs)] = Feed(queues, conf, at, from, msgs)
<1> DEFINE n == Len(msgs)
           since == FeedValidSince(conf, at)
           x == [queues |-> queues, from |-> from, at |-> at, msgs |-> msgs,
                 since |-> since]
<1>1. ASSUME NEW i, NEW v
      PROVE  Step("feed", x, i, v) = AddTo(v, from, at, msgs[i], since)
  BY DEF Step
<1>2. Start("feed", x) = queues
  BY DEF Start
<1>3. PICK g : g = [i \in 0 .. n |-> Iteration("feed", x, g, i)]
  <2> HIDE DEF x
  <2> QED
    BY IterationSolved
<1>4. g = [i \in 0 .. n |->
              IF i = 0 THEN queues ELSE AddTo(g[i - 1], from, at, msgs[i], since)]
  <2>1. \A i : Iteration("feed", x, g, i) =
                   IF i = 0 THEN queues ELSE AddTo(g[i - 1], from, at, msgs[i], since)
    <3> HIDE DEF x
    <3> QED
      BY <1>1, <1>2, Zenon DEF Iteration
  <2> HIDE DEF x, n
  <2> QED
    BY <1>3, <2>1
<1> DEFINE s == CHOOSE h : h = [i \in 0 .. n |->
              IF i = 0 THEN queues ELSE AddTo(h[i - 1], from, at, msgs[i], since)]
<1>5. Feed(queues, conf, at, from, msgs) = s[n]
  BY Zenon DEF Feed
<1>6. s = [i \in 0 .. n |->
              IF i = 0 THEN queues ELSE AddTo(s[i - 1], from, at, msgs[i], since)]
  <2>1. \E h : h = [i \in 0 .. n |->
              IF i = 0 THEN queues ELSE AddTo(h[i - 1], from, at, msgs[i], since)]
    BY <1>4, Zenon
  <2> QED
    BY <2>1, Zenon
<1> HIDE DEF s
<1>7. s[0] = queues
  BY <1>6
<1>8. ASSUME NEW i \in 1 .. n
      PROVE  s[i] = AddTo(s[i - 1], from, at, msgs[i], since)
  <2>1. i \in 0 .. n /\ i # 0
    OBVIOUS
  <2> HIDE DEF n
  <2> QED
    BY <1>6, <2>1
<1> QED
  BY <1>5, <1>7, <1>8

\* What is made of a pair by a message
MadeOf(made, from, at, msgs, p) ==
    made \cup {Observation(from, at, msgs[i].price) :
                  i \in {j \in DOMAIN msgs : msgs[j].pair = p}}

\* The messages that FeedsAssumption lets in
MessagesType(msgs) ==
    /\ Len(msgs) \in Nat /\ DOMAIN msgs = 1 .. Len(msgs)
    /\ \A i \in DOMAIN msgs : Proper(msgs[i].price)

(***************************************************************************)
(* A message is of finitely many proper observations, made just now.       *)
(***************************************************************************)
LEMMA MadeType ==
    ASSUME NEW made, IsFiniteSet(made), NEW from \in Accounts,
           NEW at \in Nat, at >= 1, NEW msgs, MessagesType(msgs), NEW p,
           \A o \in made : Observed(o, at)
    PROVE  /\ IsFiniteSet(MadeOf(made, from, at, msgs, p))
           /\ \A o \in MadeOf(made, from, at, msgs, p) : Observed(o, at)
<1> DEFINE own == {j \in DOMAIN msgs : msgs[j].pair = p}
           g == [i \in own |-> Observation(from, at, msgs[i].price)]
           new == {g[i] : i \in own}
<1>1. new = {Observation(from, at, msgs[i].price) : i \in own}
  OBVIOUS
<1>2. IsFiniteSet(own)
  <2>1. own \subseteq 1 .. Len(msgs) /\ Len(msgs) \in Nat
    BY DEF MessagesType
  <2>2. IsFiniteSet(1 .. Len(msgs))
    BY <2>1, FS_Interval
  <2> QED
    BY <2>1, <2>2, FS_Subset
<1>3. IsFiniteSet(new)
  <2> HIDE DEF own, g
  <2> QED
    BY <1>2, ImageFinite
<1>4. MadeOf(made, from, at, msgs, p) = made \cup new
  BY <1>1, Zenon DEF MadeOf
<1>5. ASSUME NEW o \in new PROVE Observed(o, at)
  <2>1. PICK i \in own : o = Observation(from, at, msgs[i].price)
    BY <1>1
  <2>2. o.feeder = from /\ o.time = at /\ o.price = msgs[i].price
    BY <2>1 DEF Observation
  <2>3. Proper(o.price)
    BY <2>2 DEF MessagesType
  <2> QED
    BY <2>2, <2>3 DEF Observed
<1> HIDE DEF new
<1>6. IsFiniteSet(made \cup new)
  BY <1>3, FS_Union
<1> QED
  BY <1>4, <1>5, <1>6

(***************************************************************************)
(* The validity of observations starts before now.                         *)
(***************************************************************************)
LEMMA SinceBefore ==
    ASSUME NEW conf \in ConfigType, ValidConfig(conf), NEW at \in Nat, at >= 1
    PROVE  FeedValidSince(conf, at) \in Nat /\ FeedValidSince(conf, at) < at
<1> DEFINE v == FeedValidity(conf)
<1>1. conf.samples_number \in Nat \ {0} /\ conf.sample_period \in Nat \ {0}
  BY DEF ConfigType, ValidConfig
<1>2. v \in Nat /\ v > 0
  BY <1>1 DEF FeedValidity
<1> HIDE DEF v
<1>3. FeedValidSince(conf, at) = IF v <= at THEN at - v ELSE 0
  BY DEF FeedValidSince, v
<1> QED
  BY <1>2, <1>3

(***************************************************************************)
(* A message of prices extends the queues of its pairs, and drops no valid *)
(* observation of any.                                                     *)
(***************************************************************************)
LEMMA FeedKeeps ==
    ASSUME NEW queues, DOMAIN queues = Pairs, NEW conf \in ConfigType,
           ValidConfig(conf), NEW at \in Nat, at >= 1, NEW from \in Accounts,
           NEW msgs, MessagesType(msgs),
           NEW made, \A p \in Pairs : PairInv(queues[p], made[p], at),
           NEW fedq, fedq = Feed(queues, conf, at, from, msgs)
    PROVE  /\ DOMAIN fedq = Pairs
           /\ \A p \in Pairs :
                 /\ PairInv(fedq[p], MadeOf(made[p], from, at, msgs, p), at)
                 /\ Complete(queues[p], made[p], FeedValidSince(conf, at))
                       => Complete(fedq[p], MadeOf(made[p], from, at, msgs, p),
                                   FeedValidSince(conf, at))
<1> DEFINE n == Len(msgs)
           since == FeedValidSince(conf, at)
           M(p) == MadeOf(made[p], from, at, msgs, p)
           new(i) == Observation(from, at, msgs[i].price)
<1>1. /\ n \in Nat /\ DOMAIN msgs = 1 .. n
  BY DEF MessagesType
<1>2. PICK g : /\ g[0] = queues
               /\ \A i \in 1 .. n : g[i] = AddTo(g[i - 1], from, at, msgs[i], since)
               /\ g[n] = fedq
  BY <1>1, FeedAt
<1>3. since < at
  BY SinceBefore
<1>4. ASSUME NEW p \in Pairs
      PROVE  IsFiniteSet(M(p)) /\ \A o \in M(p) : Observed(o, at)
  <2>1. PICK md : md = made[p]
    OBVIOUS
  <2>2. IsFiniteSet(md) /\ \A o \in md : Observed(o, at)
    BY <2>1 DEF PairInv
  <2>3. /\ IsFiniteSet(MadeOf(md, from, at, msgs, p))
        /\ \A o \in MadeOf(md, from, at, msgs, p) : Observed(o, at)
    BY <2>2, MadeType
  <2> QED
    BY <2>1, <2>3
<1>5. /\ \A p \in Pairs : made[p] \subseteq M(p)
      /\ \A i \in 1 .. n : new(i) \in M(msgs[i].pair)
  BY <1>1 DEF MadeOf
<1> HIDE DEF n, since, M
<1> DEFINE Holds(m, p) ==
              /\ g[m][p] \in Seq(M(p))
              /\ InOrder(g[m][p])
              /\ \A o : Has(queues[p], o) /\ ValidSince(o, since) => Has(g[m][p], o)
              /\ \A i \in 1 .. m : msgs[i].pair = p => Has(g[m][p], new(i))
           G == {m \in Nat : m <= n => /\ DOMAIN g[m] = Pairs
                                       /\ \A p \in Pairs : Holds(m, p)}
<1>6. 0 \in G
  <2>1. ASSUME NEW p \in Pairs PROVE Holds(0, p)
    <3>1. g[0][p] = queues[p] /\ made[p] \subseteq M(p)
      BY <1>2, <1>5
    <3>2. queues[p] \in Seq(made[p]) /\ InOrder(queues[p])
      BY DEF PairInv
    <3>3. queues[p] \in Seq(M(p))
      BY <3>1, <3>2
    <3> QED
      BY <3>1, <3>2, <3>3
  <2> HIDE DEF Holds
  <2> QED
    BY <1>2, <2>1
<1>7. ASSUME NEW m \in Nat, m \in G PROVE m + 1 \in G
  <2> SUFFICES ASSUME m + 1 <= n
               PROVE  DOMAIN g[m + 1] = Pairs /\ \A p \in Pairs : Holds(m + 1, p)
    <3> HIDE DEF Holds
    <3> QED
      OBVIOUS
  <2>1. m + 1 \in 1 .. n /\ (m + 1) - 1 = m /\ m <= n
    BY <1>1
  <2>2. DOMAIN g[m] = Pairs /\ \A p \in Pairs : Holds(m, p)
    <3> HIDE DEF Holds
    <3> QED
      BY <1>7, <2>1
  <2>3. PICK msg : msg = msgs[m + 1]
    OBVIOUS
  <2>4. g[m + 1] = [g[m] EXCEPT ![msg.pair] =
                        AddObservation(g[m][msg.pair], from, at, msg.price, since)]
    BY <1>2, <2>1, <2>3 DEF AddTo
  <2>5. DOMAIN g[m + 1] = Pairs
    BY <2>2, <2>4
  <2>6. ASSUME NEW p \in Pairs PROVE Holds(m + 1, p)
    <3>1. Holds(m, p)
      BY <2>2
    <3>2. ASSUME NEW i \in 1 .. m + 1 PROVE i \in 1 .. m \/ i = m + 1
      OBVIOUS
    <3>3. CASE msg.pair # p
      <4>1. g[m + 1][p] = g[m][p]
        BY <2>2, <2>4, <3>3
      <4> QED
        BY <2>3, <3>1, <3>2, <3>3, <4>1
    <3>4. CASE msg.pair = p
      <4>1. PICK q, r : q = g[m][p] /\ r = g[m + 1][p]
        OBVIOUS
      <4>2. r = AddObservation(q, from, at, msg.price, since)
        BY <2>2, <2>4, <3>4, <4>1
      <4>3. new(m + 1) = Observation(from, at, msg.price)
        BY <2>3
      <4>4. Observation(from, at, msg.price) \in M(p)
        BY <1>5, <2>1, <2>3, <3>4, <4>3
      <4>5. q \in Seq(M(p)) /\ InOrder(q)
        BY <3>1, <4>1
      <4>6. \A o \in M(p) : o.time \in Nat /\ o.time <= at
        BY <1>4 DEF Observed
      <4>7. /\ r \in Seq(M(p))
            /\ \A o : Has(q, o) /\ ValidSince(o, since) => Has(r, o)
            /\ Has(r, Observation(from, at, msg.price))
            /\ InOrder(r)
        <5>1. PICK S, c : S = M(p) /\ c = msg.price
          OBVIOUS
        <5>2. /\ q \in Seq(S) /\ Observation(from, at, c) \in S
              /\ MadeBy(S, at)
              /\ r = AddObservation(q, from, at, c, since)
          BY <4>2, <4>4, <4>5, <4>6, <5>1 DEF MadeBy
        <5>3. /\ r \in Seq(S)
              /\ Survive(q, since, r)
              /\ Has(r, Observation(from, at, c))
              /\ InOrder(q) => InOrder(r)
          BY <5>2, AddObservationOf
        <5> QED
          BY <4>5, <5>1, <5>3 DEF Survive
      <4>8. ASSUME NEW i \in 1 .. m + 1, msgs[i].pair = p PROVE Has(r, new(i))
        <5>1. CASE i = m + 1
          BY <4>3, <4>7, <5>1
        <5>2. CASE i \in 1 .. m
          <6>1. Has(q, new(i))
            BY <3>1, <4>1, <4>8, <5>2
          <6>2. ValidSince(new(i), since)
            BY <1>3 DEF ValidSince, Observation
          <6> HIDE DEF new
          <6> QED
            BY <4>7, <6>1, <6>2
        <5> QED
          BY <3>2, <5>1, <5>2
      <4>9. \A o : Has(queues[p], o) /\ ValidSince(o, since) => Has(r, o)
        BY <3>1, <4>1, <4>7
      <4> HIDE DEF new
      <4> QED
        BY <4>1, <4>7, <4>8, <4>9
    <3> QED
      BY <3>3, <3>4
  <2> HIDE DEF Holds
  <2> QED
    BY <2>5, <2>6
<1>8. DOMAIN g[n] = Pairs /\ \A p \in Pairs : Holds(n, p)
  <2>1. n \in G
    <3> HIDE DEF G
    <3> QED
      BY <1>1, <1>6, <1>7, NatSetInduction
  <2> HIDE DEF Holds
  <2> QED
    BY <1>1, <2>1
<1>9. ASSUME NEW p \in Pairs PROVE PairInv(fedq[p], M(p), at)
  BY <1>2, <1>4, <1>8 DEF PairInv
<1>10. ASSUME NEW p \in Pairs, Complete(queues[p], made[p], since)
       PROVE  Complete(fedq[p], M(p), since)
  <2>1. Holds(n, p) /\ g[n] = fedq
    BY <1>2, <1>8
  <2>2. ASSUME NEW o \in M(p), ValidSince(o, since) PROVE Has(fedq[p], o)
    <3>1. CASE o \in made[p]
      <4>1. Has(queues[p], o)
        BY <1>10, <2>2, <3>1 DEF Complete
      <4> QED
        BY <2>1, <2>2, <4>1
    <3>2. CASE o \notin made[p]
      <4>1. PICK i \in DOMAIN msgs : msgs[i].pair = p /\ o = new(i)
        BY <2>2, <3>2 DEF M, MadeOf
      <4>2. i \in 1 .. n
        BY <1>1
      <4> HIDE DEF new
      <4> QED
        BY <2>1, <4>1, <4>2
    <3> QED
      BY <3>1, <3>2
  <2> QED
    BY <2>2 DEF Complete
<1> QED
  BY <1>2, <1>8, <1>9, <1>10 DEF M, since

----------------------------------------------------------------------------
(* The price of a pair *)

\* The places of the valid observations
ValidNow(queue, conf, at) == ValidObservations(queue, FeedValidSince(conf, at))

(***************************************************************************)
(* The valid observations are places of the queue.                         *)
(***************************************************************************)
LEMMA ValidPlaces ==
    ASSUME NEW queue, NEW made, NEW at, PairInv(queue, made, at), NEW conf
    PROVE  /\ ValidNow(queue, conf, at) \in SUBSET Nat
           /\ IsFiniteSet(ValidNow(queue, conf, at))
           /\ \A i \in ValidNow(queue, conf, at) :
                 /\ queue[i] \in made /\ Observed(queue[i], at)
                 /\ ValidSince(queue[i], FeedValidSince(conf, at))
<1>1. queue \in Seq(made) /\ Len(queue) \in Nat /\ DOMAIN queue = 1 .. Len(queue)
  BY DEF PairInv
<1>2. ValidNow(queue, conf, at) \subseteq 1 .. Len(queue)
  BY <1>1 DEF ValidNow, ValidObservations
<1>3. IsFiniteSet(1 .. Len(queue))
  BY <1>1, FS_Interval
<1>4. IsFiniteSet(ValidNow(queue, conf, at))
  BY <1>2, <1>3, FS_Subset
<1>5. ASSUME NEW i \in ValidNow(queue, conf, at)
      PROVE  /\ queue[i] \in made /\ Observed(queue[i], at)
             /\ ValidSince(queue[i], FeedValidSince(conf, at))
  <2>1. queue[i] \in made
    BY <1>1, <1>2
  <2>2. ValidSince(queue[i], FeedValidSince(conf, at))
    BY DEF ValidNow, ValidObservations
  <2> QED
    BY <2>1, <2>2 DEF PairInv
<1> QED
  BY <1>1, <1>2, <1>4, <1>5

(***************************************************************************)
(* PriceFeed::calc_price gives a price, or panics, exactly when enough     *)
(* feeders have valid observations, and there is one; the price is in the  *)
(* ranges that they are in.                                                *)
(***************************************************************************)
LEMMA CalcPriced ==
    ASSUME NEW queue, NEW made, NEW at \in Nat, PairInv(queue, made, at),
           NEW conf \in PriceConfigs, NEW total,
           NEW C, \A c \in C : InRange(c),
           \A i \in ValidNow(queue, conf, at) : \A c \in C :
               Between(queue[i].price, c, 1, 1, 0),
           NEW p, p = CalcPrice(queue, conf, at, total)
    PROVE  /\ p # NoPrice <=>
                 /\ ValidNow(queue, conf, at) # {}
                 /\ HasEnoughFeeders(queue, ValidNow(queue, conf, at), conf, total)
           /\ p = NoPrice \/ Moving(conf, p, C, RoundingSteps(conf))
<1> DEFINE since == FeedValidSince(conf, at)
           valid == ValidNow(queue, conf, at)
           n == conf.samples_number
           a == Average(Samples(queue, valid, since, conf), conf)[n]
<1>0. conf \in ConfigType /\ ValidConfig(conf)
  BY ConfigRoom
<1>1. p = IF HasEnoughFeeders(queue, valid, conf, total) THEN a ELSE NoPrice
  BY Zenon DEF CalcPrice, ValidNow
<1>2. /\ valid \in SUBSET Nat /\ IsFiniteSet(valid)
      /\ \A i \in valid : /\ queue[i] \in made /\ Observed(queue[i], at)
                          /\ ValidSince(queue[i], since)
  BY ValidPlaces
<1> DEFINE silent == Silent(queue, valid, since, conf)
<1>4. IF silent THEN a = NoPrice ELSE Moving(conf, a, C, RoundingSteps(conf))
  <2>1. PICK v, s : v = valid /\ s = since
    OBVIOUS
  <2>3. /\ v \in SUBSET Nat /\ IsFiniteSet(v) /\ Ranges(C) /\ Priced(queue, v, C)
    BY <1>2, <2>1 DEF Observed, Ranges, Priced
  <2>4. PICK q : q = Average(Samples(queue, v, s, conf), conf)[n]
    OBVIOUS
  <2>5. IF Silent(queue, v, s, conf) THEN q = NoPrice
        ELSE Moving(conf, q, C, RoundingSteps(conf))
    BY <2>3, <2>4, AverageMoves
  <2> QED
    BY <2>1, <2>4, <2>5
<1>5. silent <=> valid = {}
  <2>1. valid = {} => silent
    <3> SUFFICES ASSUME valid = {} PROVE silent
      OBVIOUS
    <3>1. \A i : Period(queue, {}, since, conf, i) = {}
      BY DEF Period, Within
    <3> HIDE DEF valid, since
    <3> QED
      BY <3>1 DEF Silent
  <2>2. ASSUME NEW j \in valid PROVE ~silent
    <3>1. PICK t : t = queue[j].time
      OBVIOUS
    <3>2. t \in Nat /\ t <= at /\ since < t
      BY <1>2, <3>1 DEF Observed, ValidSince
    <3>3. PICK i \in 1 .. n :
              /\ since + (i - 1) * conf.sample_period < t
              /\ ~(since + i * conf.sample_period < t)
      BY <1>0, <3>2, PeriodOf
    <3>4. j \in Period(queue, valid, since, conf, i)
      <4> HIDE DEF valid, since
      <4> QED
        BY <3>1, <3>3 DEF Period, Within, ValidSince
    <3> QED
      BY <3>4 DEF Silent
  <2> QED
    BY <2>1, <2>2
<1> HIDE DEF a, silent, valid
<1>6. Moving(conf, a, C, RoundingSteps(conf)) => a # NoPrice
  BY ProperOnly DEF Moving
<1>8. a # NoPrice <=> valid # {}
  BY <1>4, <1>5, <1>6
<1>9. a = NoPrice \/ Moving(conf, a, C, RoundingSteps(conf))
  BY <1>4
<1> QED
  BY <1>1, <1>8, <1>9 DEF valid

(***************************************************************************)
(* The order of prices is transitive and total.                            *)
(***************************************************************************)
LEMMA PriceOrder ==
    ASSUME NEW p, Proper(p), NEW q, Proper(q), NEW r, Proper(r)
    PROVE  /\ PriceLe(p, q) /\ PriceLe(q, r) => PriceLe(p, r)
           /\ PriceLe(p, q) \/ PriceLe(q, p)
           /\ PriceLe(p, p)
<1>1. PICK a, b, c, d, e, f \in Nat \ {0} :
          /\ a = p.amount /\ b = p.quote /\ c = q.amount /\ d = q.quote
          /\ e = r.amount /\ f = r.quote
  BY PriceParts
<1>2. b * c <= d * a /\ d * e <= f * c => b * e <= f * a
  <2> SUFFICES ASSUME b * c <= d * a, d * e <= f * c PROVE b * e <= f * a
    OBVIOUS
  <2>1. e * (b * c) <= e * (d * a)
    <3>1. PICK x, y \in Nat : x = b * c /\ y = d * a
      OBVIOUS
    <3> QED
      BY <3>1, ScaledLe
  <2>2. a * (d * e) <= a * (f * c)
    <3>1. PICK x, y \in Nat : x = d * e /\ y = f * c
      OBVIOUS
    <3> QED
      BY <3>1, ScaledLe
  <2>3. PICK x, y \in Nat : x = b * e /\ y = f * a
    OBVIOUS
  <2>4. /\ e * (b * c) = c * (b * e) /\ e * (d * a) = a * (d * e)
        /\ a * (f * c) = c * (f * a)
    OBVIOUS
  <2>5. c * x <= c * y
    <3>1. PICK g, h, i \in Nat : g = e * (b * c) /\ h = e * (d * a) /\ i = a * (f * c)
      OBVIOUS
    <3>2. g <= h /\ h <= i
      BY <2>1, <2>2, <2>4, <3>1
    <3>3. g <= i
      BY <3>2
    <3> QED
      BY <2>3, <2>4, <3>1, <3>3
  <2> QED
    BY <2>3, <2>5, ScaledLe
<1>3. b * c \in Nat /\ d * a \in Nat /\ b * a \in Nat
  OBVIOUS
<1>4. b * c <= d * a \/ d * a <= b * c
  BY <1>3
<1>5. b * a <= b * a
  BY <1>3
<1> QED
  BY <1>1, <1>2, <1>4, <1>5 DEF PriceLe

\* p is on the one side of q, or equal
Beside(up, p, q) == IF up THEN PriceLe(q, p) ELSE PriceLe(p, q)

(***************************************************************************)
(* Of finitely many prices one is the least, and one the greatest.         *)
(***************************************************************************)
LEMMA Extreme ==
    ASSUME NEW queue, NEW S, IsFiniteSet(S), S # {}, NEW up \in BOOLEAN,
           \A i \in S : Proper(queue[i].price)
    PROVE  \E i \in S : \A k \in S : Beside(up, queue[i].price, queue[k].price)
<1> DEFINE Of(i, T) == \A k \in T : Beside(up, queue[i].price, queue[k].price)
           Good == {T \in SUBSET S : T # {} => \E i \in T : Of(i, T)}
<1>0. ASSUME NEW i \in S, NEW k \in S, NEW l \in S
      PROVE  /\ Beside(up, queue[i].price, queue[i].price)
             /\ \/ Beside(up, queue[i].price, queue[k].price)
                \/ Beside(up, queue[k].price, queue[i].price)
             /\ /\ Beside(up, queue[i].price, queue[k].price)
                /\ Beside(up, queue[k].price, queue[l].price)
                => Beside(up, queue[i].price, queue[l].price)
  <2>1. PICK p, q, r : p = queue[i].price /\ q = queue[k].price /\ r = queue[l].price
    OBVIOUS
  <2>2. Proper(p) /\ Proper(q) /\ Proper(r)
    BY <2>1
  <2>3. /\ PriceLe(p, p) /\ (PriceLe(p, q) \/ PriceLe(q, p))
        /\ PriceLe(p, q) /\ PriceLe(q, r) => PriceLe(p, r)
    BY <2>2, PriceOrder
  <2>4. PriceLe(r, q) /\ PriceLe(q, p) => PriceLe(r, p)
    BY <2>2, PriceOrder
  <2> QED
    BY <2>1, <2>3, <2>4 DEF Beside
<1>1. {} \in Good
  OBVIOUS
<1>2. ASSUME NEW T \in SUBSET S, T # {}, \A x \in T : T \ {x} \in Good
      PROVE  T \in Good
  <2>1. PICK z \in T : TRUE
    BY <1>2
  <2>2. CASE T \ {z} = {}
    <3>1. \A k \in T : k = z
      BY <2>2
    <3>2. Of(z, T)
      BY <1>0, <3>1
    <3> QED
      BY <3>2
  <2>3. CASE T \ {z} # {}
    <3>1. PICK x \in T \ {z} : Of(x, T \ {z})
      BY <1>2, <2>3
    <3>2. x \in S /\ z \in S
      OBVIOUS
    <3>3. CASE Beside(up, queue[x].price, queue[z].price)
      <4>1. Of(x, T)
        BY <3>1, <3>3
      <4> QED
        BY <4>1
    <3>4. CASE Beside(up, queue[z].price, queue[x].price)
      <4>1. ASSUME NEW k \in T PROVE Beside(up, queue[z].price, queue[k].price)
        <5>1. CASE k = z
          BY <1>0, <3>2, <5>1
        <5>2. CASE k # z
          <6>1. Beside(up, queue[x].price, queue[k].price) /\ k \in S
            BY <3>1, <5>2
          <6> QED
            BY <1>0, <3>2, <3>4, <6>1
        <5> QED
          BY <5>1, <5>2
      <4>2. Of(z, T)
        BY <4>1
      <4> QED
        BY <4>2
    <3> QED
      BY <1>0, <3>2, <3>3, <3>4
  <2> QED
    BY <2>2, <2>3
<1>3. \A T \in SUBSET S : T \in Good
  <2> HIDE DEF Good
  <2> QED
    BY <1>1, <1>2, SubsetInduction
<1> QED
  BY <1>3

\* A moderate price
IsModerate(p) == p.amount <= Spread * p.quote /\ p.quote <= Spread * p.amount

\* The range from the price l up to h
RangeOf(l, h) == [la |-> l.amount, lq |-> l.quote, ha |-> h.amount, hq |-> h.quote]

(***************************************************************************)
(* What it takes to be in a range, and what it means.                      *)
(***************************************************************************)
LEMMA RangeMeans ==
    ASSUME NEW l, Proper(l), IsModerate(l), NEW h, Proper(h), IsModerate(h),
           NEW p, Proper(p), NEW j \in Nat, j <= Precision
    PROVE  /\ InRange(RangeOf(l, h))
           /\ PriceLe(l, p) /\ PriceLe(p, h) => Between(p, RangeOf(l, h), 1, 1, 0)
           /\ Between(p, RangeOf(l, h), 1, 1, j)
                 => NotAboveBut(l, p, j) /\ NotAboveBut(p, h, j)
<1>1. PICK la, lq, ha, hq, a, q \in Nat \ {0} :
          /\ la = l.amount /\ lq = l.quote /\ ha = h.amount /\ hq = h.quote
          /\ a = p.amount /\ q = p.quote
  BY PriceParts
<1>2. PICK c : c = RangeOf(l, h)
  OBVIOUS
<1>3. c.la = la /\ c.lq = lq /\ c.ha = ha /\ c.hq = hq
  BY <1>1, <1>2 DEF RangeOf
<1>4. InRange(c)
  BY <1>1, <1>3 DEF InRange, IsModerate
<1>5. PICK n, u \in Nat : n = Precision /\ u = Precision - j
  BY Room
<1>6. ASSUME PriceLe(l, p), PriceLe(p, h) PROVE Between(p, c, 1, 1, 0)
  <2>1. lq * a <= q * la /\ q * ha <= hq * a
    BY <1>1, <1>6 DEF PriceLe
  <2>2. n * (lq * a) <= n * (q * la) /\ n * (q * ha) <= n * (hq * a)
    <3>1. PICK x, y, v, w \in Nat : x = lq * a /\ y = q * la /\ v = q * ha /\ w = hq * a
      OBVIOUS
    <3>2. n * x <= n * y /\ n * v <= n * w
      BY <2>1, <3>1, ScaledLe
    <3> QED
      BY <3>1, <3>2
  <2>3. /\ (1 * lq) * a * (n - 0) = n * (lq * a) /\ q * (1 * la) * n = n * (q * la)
        /\ (1 * ha) * q * (n - 0) = n * (q * ha) /\ a * (1 * hq) * n = n * (hq * a)
    OBVIOUS
  <2>4. Lower(a, q, 1 * lq, 1 * la, 0) /\ Lower(q, a, 1 * ha, 1 * hq, 0)
    BY <1>5, <2>2, <2>3 DEF Lower
  <2> QED
    BY <1>1, <1>3, <2>4 DEF Between, Around
<1>7. ASSUME Between(p, c, 1, 1, j) PROVE NotAboveBut(l, p, j) /\ NotAboveBut(p, h, j)
  <2>1. Lower(a, q, 1 * lq, 1 * la, j) /\ Lower(q, a, 1 * ha, 1 * hq, j)
    BY <1>1, <1>3, <1>7 DEF Between, Around
  <2>2. (1 * lq) * a * u <= q * (1 * la) * n /\ (1 * ha) * q * u <= a * (1 * hq) * n
    BY <1>5, <2>1 DEF Lower
  <2>3. /\ (1 * lq) * a * u = lq * a * u /\ q * (1 * la) * n = q * la * n
        /\ (1 * ha) * q * u = q * ha * u /\ a * (1 * hq) * n = hq * a * n
    OBVIOUS
  <2>4. lq * a * u <= q * la * n /\ q * ha * u <= hq * a * n
    BY <2>2, <2>3
  <2> QED
    BY <1>1, <1>5, <2>4 DEF NotAboveBut
<1> QED
  BY <1>2, <1>4, <1>6, <1>7

(***************************************************************************)
(* Of moderate observations the price calculated is between the least and  *)
(* the greatest but for its roundings, unless it panics under a full       *)
(* discount.                                                               *)
(***************************************************************************)
LEMMA CalcWithin ==
    ASSUME NEW queue, NEW made, NEW at \in Nat, PairInv(queue, made, at),
           NEW conf \in PriceConfigs, NEW total,
           \A i \in ValidNow(queue, conf, at) : IsModerate(queue[i].price),
           NEW p, p = CalcPrice(queue, conf, at, total), p # NoPrice
    PROVE  \/ Panicked(conf, p)
           \/ /\ p # Panic
              /\ \E i \in ValidNow(queue, conf, at) :
                    NotAboveBut(queue[i].price, p, RoundingSteps(conf))
              /\ \E i \in ValidNow(queue, conf, at) :
                    NotAboveBut(p, queue[i].price, RoundingSteps(conf))
<1>1. PICK v : v = ValidNow(queue, conf, at)
  OBVIOUS
<1>2. /\ v \in SUBSET Nat /\ IsFiniteSet(v)
      /\ \A i \in v : Proper(queue[i].price) /\ IsModerate(queue[i].price)
  BY <1>1, ValidPlaces DEF Observed
<1>3. v # {}
  <2>1. \A c \in {} : InRange(c)
    OBVIOUS
  <2>2. \A i \in ValidNow(queue, conf, at) : \A c \in {} :
            Between(queue[i].price, c, 1, 1, 0)
    OBVIOUS
  <2> QED
    BY <1>1, <2>1, <2>2, CalcPriced
<1>4. PICK i \in v : \A k \in v : PriceLe(queue[i].price, queue[k].price)
  <2>1. FALSE \in BOOLEAN
    OBVIOUS
  <2>2. \E i \in v : \A k \in v : Beside(FALSE, queue[i].price, queue[k].price)
    BY <1>2, <1>3, <2>1, Extreme
  <2> QED
    BY <2>2 DEF Beside
<1>5. PICK g \in v : \A k \in v : PriceLe(queue[k].price, queue[g].price)
  <2>1. TRUE \in BOOLEAN
    OBVIOUS
  <2>2. \E m \in v : \A k \in v : Beside(TRUE, queue[m].price, queue[k].price)
    BY <1>2, <1>3, <2>1, Extreme
  <2> QED
    BY <2>2 DEF Beside
<1>6. PICK l, h : l = queue[i].price /\ h = queue[g].price
  OBVIOUS
<1>7. Proper(l) /\ IsModerate(l) /\ Proper(h) /\ IsModerate(h)
  BY <1>2, <1>6
<1>8. PICK c : c = RangeOf(l, h)
  OBVIOUS
<1>9. 0 \in Nat /\ 0 <= Precision
  BY Room
<1>10. InRange(c) /\ \A k \in v : Between(queue[k].price, c, 1, 1, 0)
  <2>1. ASSUME NEW k \in v
        PROVE  InRange(c) /\ Between(queue[k].price, c, 1, 1, 0)
    <3>1. PICK o : o = queue[k].price
      OBVIOUS
    <3>2. Proper(o) /\ PriceLe(l, o) /\ PriceLe(o, h)
      BY <1>2, <1>4, <1>5, <1>6, <3>1
    <3>3. InRange(c) /\ Between(o, c, 1, 1, 0)
      BY <1>7, <1>8, <1>9, <3>2, RangeMeans
    <3> QED
      BY <3>1, <3>3
  <2> QED
    BY <1>3, <2>1
<1>11. Moving(conf, p, {c}, RoundingSteps(conf))
  <2>1. PICK C : C = {c}
    OBVIOUS
  <2>2. /\ \A d \in C : InRange(d)
        /\ \A k \in ValidNow(queue, conf, at) : \A d \in C :
               Between(queue[k].price, d, 1, 1, 0)
    BY <1>1, <1>10, <2>1
  <2>3. Moving(conf, p, C, RoundingSteps(conf))
    BY <2>2, CalcPriced
  <2> QED
    BY <2>1, <2>3
<1>12. Panicked(conf, p) \/ Between(p, c, 1, 1, RoundingSteps(conf))
  BY <1>11 DEF Moving
<1>13. ASSUME Between(p, c, 1, 1, RoundingSteps(conf))
       PROVE  /\ p # Panic /\ NotAboveBut(l, p, RoundingSteps(conf))
              /\ NotAboveBut(p, h, RoundingSteps(conf))
  <2>1. Proper(p)
    BY <1>13 DEF Between
  <2>2. RoundingSteps(conf) \in Nat /\ RoundingSteps(conf) <= Precision
    BY ConfigRoom, Room
  <2> QED
    BY <1>7, <1>8, <1>13, <2>1, <2>2, ProperOnly, RangeMeans
<1> QED
  BY <1>1, <1>4, <1>5, <1>6, <1>12, <1>13

----------------------------------------------------------------------------
(* The feeds *)

(***************************************************************************)
(* The inductive invariant.  The queue of each pair holds observations     *)
(* made of it, all of them proper, past and in order; unless the validity  *)
(* was prolonged, it holds all that are valid.                             *)
(***************************************************************************)
FeedsInv ==
    /\ block_time \in Nat /\ block_time >= 1
    /\ config \in PriceConfigs
    /\ IsFiniteSet(feeders)
    /\ DOMAIN observations = Pairs
    /\ \A p \in Pairs : PairInv(observations[p], fed[p], block_time)
    /\ ~prolonged =>
          \A p \in Pairs : Complete(observations[p], fed[p],
                                    FeedValidSince(config, block_time))

(***************************************************************************)
(* The configurations are typed and valid, the messages are proper.        *)
(***************************************************************************)
LEMMA FeedsTypes ==
    /\ \A c \in PriceConfigs : c \in ConfigType /\ ValidConfig(c)
    /\ \A msgs \in PriceMessages : MessagesType(msgs)
BY FeedsAssumption DEF ConfigType, MessagesType, Proper, PriceType

(***************************************************************************)
(* The validity starts no earlier at a later time, or under a feed         *)
(* validity that is not longer.                                            *)
(***************************************************************************)
LEMMA SinceMonotone ==
    ASSUME NEW c \in ConfigType, NEW d \in ConfigType, NEW at \in Nat, NEW then \in Nat,
           FeedValidity(d) <= FeedValidity(c), at <= then
    PROVE  FeedValidSince(c, at) <= FeedValidSince(d, then)
<1>1. FeedValidity(c) \in Nat /\ FeedValidity(d) \in Nat
  BY DEF FeedValidity, ConfigType
<1> QED
  BY <1>1 DEF FeedValidSince

(***************************************************************************)
(* A queue that has all that are valid has all that are valid since later. *)
(***************************************************************************)
LEMMA CompleteLater ==
    ASSUME NEW queue, NEW made, NEW at, PairInv(queue, made, at),
           NEW s \in Nat, NEW t \in Nat, s <= t, Complete(queue, made, s)
    PROVE  Complete(queue, made, t)
<1>1. ASSUME NEW o \in made, t < o.time PROVE s < o.time
  BY <1>1 DEF PairInv, Observed
<1> QED
  BY <1>1 DEF Complete, ValidSince

(***************************************************************************)
(* The past stays the past.                                                *)
(***************************************************************************)
LEMMA PairLater ==
    ASSUME NEW queue, NEW made, NEW at \in Nat, NEW then \in Nat, at <= then,
           PairInv(queue, made, at)
    PROVE  PairInv(queue, made, then)
<1>1. \A o \in made : Observed(o, then)
  BY DEF PairInv, Observed
<1> QED
  BY <1>1 DEF PairInv

(***************************************************************************)
(* No observations to start with.                                          *)
(***************************************************************************)
LEMMA FeedsInit_FeedsInv ==
    FeedsInit => FeedsInv
<1> SUFFICES ASSUME FeedsInit PROVE FeedsInv
  OBVIOUS
<1> USE DEF FeedsInit
<1>1. IsFiniteSet(feeders)
  BY FS_EmptySet
<1>2. ASSUME NEW p \in Pairs
      PROVE  /\ PairInv(observations[p], fed[p], block_time)
             /\ \A s : Complete(observations[p], fed[p], s)
  <2>1. observations[p] = <<>> /\ fed[p] = {}
    OBVIOUS
  <2>2. <<>> \in Seq({}) /\ Len(<<>>) = 0 /\ IsFiniteSet({})
    BY FS_EmptySet
  <2> QED
    BY <2>1, <2>2 DEF PairInv, Complete, InOrder
<1>3. block_time \in Nat /\ block_time >= 1 /\ DOMAIN observations = Pairs
  OBVIOUS
<1> QED
  BY <1>1, <1>2, <1>3 DEF FeedsInv

(***************************************************************************)
(* Each operation keeps the invariant.                                     *)
(***************************************************************************)
LEMMA FeedsNext_FeedsInv ==
    FeedsInv /\ [FeedsNext]_feedsVars => FeedsInv'
<1> SUFFICES ASSUME FeedsInv, [FeedsNext]_feedsVars PROVE FeedsInv'
  OBVIOUS
<1>0. /\ block_time \in Nat /\ block_time >= 1 /\ config \in PriceConfigs
      /\ config \in ConfigType /\ ValidConfig(config) /\ IsFiniteSet(feeders)
      /\ FeedValidSince(config, block_time) \in Nat
  BY FeedsTypes, SinceBefore DEF FeedsInv
<1>1. ASSUME NEW a \in Accounts, RegisterFeeder(a) PROVE FeedsInv'
  <2>1. IsFiniteSet(feeders')
    BY <1>0, <1>1, FS_AddElement DEF RegisterFeeder
  <2> QED
    BY <1>1, <2>1 DEF FeedsInv, RegisterFeeder
<1>2. ASSUME NEW a \in Accounts, RemoveFeeder(a) PROVE FeedsInv'
  <2>1. IsFiniteSet(feeders')
    BY <1>0, <1>2, FS_RemoveElement DEF RemoveFeeder
  <2> QED
    BY <1>2, <2>1 DEF FeedsInv, RemoveFeeder
<1>3. ASSUME NEW c \in PriceConfigs, UpdateConfig(c) PROVE FeedsInv'
  <2>1. config' = c /\ c \in ConfigType /\ ValidConfig(c)
    BY <1>3, FeedsTypes DEF UpdateConfig
  <2>2. UNCHANGED <<block_time, feeders, observations, fed>>
    BY <1>3 DEF UpdateConfig
  <2>3. ASSUME ~prolonged', NEW p \in Pairs
        PROVE  Complete(observations[p], fed[p], FeedValidSince(c, block_time))
    <3>1. ~prolonged /\ ~(FeedValidity(c) > FeedValidity(config))
      BY <1>3, <2>3 DEF UpdateConfig
    <3>2. FeedValidity(c) \in Nat /\ FeedValidity(config) \in Nat
      BY <1>0, <2>1 DEF FeedValidity, ConfigType
    <3>3. FeedValidSince(config, block_time) <= FeedValidSince(c, block_time)
      <4>1. FeedValidity(c) <= FeedValidity(config) /\ block_time <= block_time
        BY <1>0, <3>1, <3>2
      <4> QED
        BY <1>0, <2>1, <4>1, SinceMonotone
    <3>4. /\ Complete(observations[p], fed[p], FeedValidSince(config, block_time))
          /\ PairInv(observations[p], fed[p], block_time)
      BY <3>1 DEF FeedsInv
    <3>5. FeedValidSince(c, block_time) \in Nat
      BY <1>0, <2>1, SinceBefore
    <3> QED
      BY <1>0, <3>3, <3>4, <3>5, CompleteLater
  <2> QED
    BY <2>1, <2>2, <2>3 DEF FeedsInv
<1>4. ASSUME NEW a \in Accounts, NEW msgs \in PriceMessages,
             NEW supported \in SUBSET Pairs, FeedPrices(a, msgs, supported)
      PROVE  FeedsInv'
  <2>1. /\ observations' = Feed(observations, config, block_time, a, msgs)
        /\ UNCHANGED <<block_time, feeders, config, prolonged>>
    BY <1>4 DEF FeedPrices
  <2>2. \A p \in Pairs : fed'[p] = MadeOf(fed[p], a, block_time, msgs, p)
    BY <1>4 DEF FeedPrices, MadeOf
  <2>3. MessagesType(msgs)
    BY FeedsTypes
  <2>4. DOMAIN observations = Pairs
        /\ \A p \in Pairs : PairInv(observations[p], fed[p], block_time)
    BY DEF FeedsInv
  <2>5. PICK old, made, new, conf, at :
            /\ old = observations /\ made = fed /\ new = observations'
            /\ conf = config /\ at = block_time
    OBVIOUS
  <2>6. /\ DOMAIN new = Pairs
        /\ \A p \in Pairs :
              /\ PairInv(new[p], MadeOf(made[p], a, at, msgs, p), at)
              /\ Complete(old[p], made[p], FeedValidSince(conf, at))
                    => Complete(new[p], MadeOf(made[p], a, at, msgs, p),
                                FeedValidSince(conf, at))
    <3>1. /\ DOMAIN old = Pairs /\ \A p \in Pairs : PairInv(old[p], made[p], at)
          /\ conf \in ConfigType /\ ValidConfig(conf) /\ at \in Nat /\ at >= 1
          /\ new = Feed(old, conf, at, a, msgs)
      BY <1>0, <2>1, <2>4, <2>5
    <3> QED
      BY <2>3, <3>1, FeedKeeps
  <2>7. /\ DOMAIN observations' = Pairs
        /\ \A p \in Pairs : PairInv(observations'[p], fed'[p], block_time)
    BY <2>2, <2>5, <2>6
  <2>8. ASSUME ~prolonged, NEW p \in Pairs
        PROVE  Complete(observations'[p], fed'[p], FeedValidSince(config, block_time))
    <3>1. Complete(observations[p], fed[p], FeedValidSince(config, block_time))
      BY <2>8 DEF FeedsInv
    <3> QED
      BY <2>2, <2>5, <2>6, <3>1
  <2> QED
    BY <1>0, <2>1, <2>7, <2>8 DEF FeedsInv
<1>5. ASSUME NextBlock PROVE FeedsInv'
  <2>1. /\ block_time' = block_time + 1
        /\ UNCHANGED <<feeders, config, observations, fed, prolonged>>
    BY <1>5 DEF NextBlock
  <2>2. block_time' \in Nat /\ block_time' >= 1 /\ block_time <= block_time'
    BY <1>0, <2>1
  <2>3. ASSUME NEW p \in Pairs PROVE PairInv(observations[p], fed[p], block_time')
    <3>1. PairInv(observations[p], fed[p], block_time)
      BY DEF FeedsInv
    <3> QED
      BY <1>0, <2>2, <3>1, PairLater
  <2>4. ASSUME ~prolonged, NEW p \in Pairs
        PROVE  Complete(observations[p], fed[p], FeedValidSince(config, block_time'))
    <3>1. FeedValidSince(config, block_time) <= FeedValidSince(config, block_time')
      <4>1. FeedValidity(config) \in Nat
        BY <1>0 DEF FeedValidity, ConfigType
      <4>2. FeedValidity(config) <= FeedValidity(config)
        BY <4>1
      <4> QED
        BY <1>0, <2>2, <4>2, SinceMonotone
    <3>2. /\ Complete(observations[p], fed[p], FeedValidSince(config, block_time))
          /\ PairInv(observations[p], fed[p], block_time)
      BY <2>4 DEF FeedsInv
    <3>3. FeedValidSince(config, block_time') \in Nat
      BY <1>0, <2>2, SinceBefore
    <3> QED
      BY <1>0, <3>1, <3>2, <3>3, CompleteLater
  <2> QED
    BY <1>0, <2>1, <2>2, <2>3, <2>4 DEF FeedsInv
<1>6. CASE UNCHANGED feedsVars
  BY <1>6 DEF FeedsInv, feedsVars
<1> QED
  BY <1>1, <1>2, <1>3, <1>4, <1>5, <1>6 DEF FeedsNext

(***************************************************************************)
(* The queues of observations are in order at all times, and hold whatever *)
(* is valid unless the feed validity was prolonged.                        *)
(***************************************************************************)
THEOREM FeedsInvariant ==
    FeedsSpec => []FeedsInv
<1> QED
  BY FeedsInit_FeedsInv, FeedsNext_FeedsInv, PTL DEF FeedsSpec

(***************************************************************************)
(* The invariant means the two properties.                                 *)
(***************************************************************************)
LEMMA FeedsMeans ==
    FeedsInv => PricedWhileQuorum /\ PriceWithinObservations
<1> SUFFICES ASSUME FeedsInv
             PROVE  PricedWhileQuorum /\ PriceWithinObservations
  OBVIOUS
<1>0. /\ block_time \in Nat /\ block_time >= 1 /\ config \in PriceConfigs
      /\ config \in ConfigType /\ ValidConfig(config) /\ IsFiniteSet(feeders)
  BY FeedsTypes DEF FeedsInv
<1>1. TotalRegistered \in Nat /\ MinFeeders(config, TotalRegistered) \in Nat
  <2>1. TotalRegistered \in Nat
    BY <1>0, FS_CardinalityType DEF TotalRegistered
  <2>2. config.min_feeders \in Nat
    BY <1>0 DEF ConfigType
  <2> QED
    BY <2>1, <2>2, PercentOfNat DEF MinFeeders
<1>2. ASSUME NEW pair \in Pairs
      PROVE  /\ PairPrice(pair) # NoPrice => Quorum(pair)
             /\ Quorum(pair) /\ ~prolonged => PairPrice(pair) # NoPrice
             /\ Moderate(pair) /\ PairPrice(pair) # NoPrice =>
                   \/ PairPrice(pair) = Panic /\ config.discount_factor = HUNDRED
                   \/ /\ PairPrice(pair) # Panic
                      /\ \E o \in Fresh(pair) :
                            NotAboveBut(o.price, PairPrice(pair), RoundingSteps(config))
                      /\ \E o \in Fresh(pair) :
                            NotAboveBut(PairPrice(pair), o.price, RoundingSteps(config))
  <2>1. PICK queue, made, at, conf, total, p :
            /\ queue = observations[pair] /\ made = fed[pair] /\ at = block_time
            /\ conf = config /\ total = TotalRegistered /\ p = PairPrice(pair)
    OBVIOUS
  <2>2. /\ at \in Nat /\ PairInv(queue, made, at) /\ conf \in PriceConfigs
        /\ p = CalcPrice(queue, conf, at, total)
    BY <1>0, <2>1 DEF FeedsInv, PairPrice, PriceOfFeed
  <2> DEFINE valid == ValidNow(queue, conf, at)
             fresh == {o \in made : ValidSince(o, FeedValidSince(conf, at))}
             senders == {o.feeder : o \in fresh}
             min == MinFeeders(conf, total)
  <2>3. Fresh(pair) = fresh
    BY <2>1 DEF Fresh
  <2>4. Quorum(pair) <=> senders # {} /\ Cardinality(senders) >= min
    BY <2>1, <2>3 DEF Quorum
  <2>5. \A i \in valid : queue[i] \in fresh
    BY <2>2, ValidPlaces
  <2>6. IsFiniteSet(senders)
    <3>1. IsFiniteSet(fresh)
      BY <2>2, FS_Subset DEF PairInv
    <3> DEFINE g == [o \in fresh |-> o.feeder]
    <3>2. senders = {g[o] : o \in fresh}
      OBVIOUS
    <3> HIDE DEF fresh, g, senders
    <3> QED
      BY <3>1, <3>2, ImageFinite
  <2>7. FeedersOf(queue, valid) \subseteq senders
    BY <2>5 DEF FeedersOf
  <2>8. p # NoPrice <=> valid # {} /\ Cardinality(FeedersOf(queue, valid)) >= min
    <3>1. PICK C : C = {}
      OBVIOUS
    <3>2. /\ \A c \in C : InRange(c)
          /\ \A i \in ValidNow(queue, conf, at) : \A c \in C :
                 Between(queue[i].price, c, 1, 1, 0)
      BY <3>1
    <3>3. p # NoPrice <=> valid # {} /\ HasEnoughFeeders(queue, valid, conf, total)
      BY <2>2, <3>2, CalcPriced
    <3> QED
      BY <3>3 DEF HasEnoughFeeders
  <2>9. valid # {} <=> FeedersOf(queue, valid) # {}
    BY DEF FeedersOf
  <2>10. min \in Nat
    BY <1>1, <2>1
  <2>11. ~prolonged => FeedersOf(queue, valid) = senders
    <3> SUFFICES ASSUME ~prolonged, NEW o \in fresh
                 PROVE  o.feeder \in FeedersOf(queue, valid)
      BY <2>7
    <3>1. Complete(queue, made, FeedValidSince(conf, at))
      BY <2>1 DEF FeedsInv
    <3>2. PICK i \in 1 .. Len(queue) : queue[i] = o
      BY <3>1 DEF Complete, Has
    <3>3. DOMAIN queue = 1 .. Len(queue)
      BY <2>2 DEF PairInv
    <3>4. i \in valid
      BY <3>2, <3>3 DEF ValidNow, ValidObservations
    <3> HIDE DEF valid
    <3> QED
      BY <3>2, <3>4 DEF FeedersOf
  <2>12. p # NoPrice => Quorum(pair)
    <3> SUFFICES ASSUME p # NoPrice PROVE senders # {} /\ Cardinality(senders) >= min
      BY <2>4
    <3> HIDE DEF valid, senders, min
    <3>1. /\ IsFiniteSet(FeedersOf(queue, valid))
          /\ Cardinality(FeedersOf(queue, valid)) <= Cardinality(senders)
      BY <2>6, <2>7, FS_Subset
    <3>2. Cardinality(FeedersOf(queue, valid)) \in Nat /\ Cardinality(senders) \in Nat
      BY <2>6, <3>1, FS_CardinalityType
    <3> QED
      BY <2>7, <2>8, <2>9, <2>10, <3>1, <3>2
  <2>13. Quorum(pair) /\ ~prolonged => p # NoPrice
    <3> HIDE DEF valid, senders, min
    <3> QED
      BY <2>4, <2>8, <2>9, <2>11
  <2>14. ASSUME Moderate(pair), p # NoPrice
         PROVE  \/ p = Panic /\ conf.discount_factor = HUNDRED
                \/ /\ p # Panic
                   /\ \E o \in fresh : NotAboveBut(o.price, p, RoundingSteps(conf))
                   /\ \E o \in fresh : NotAboveBut(p, o.price, RoundingSteps(conf))
    <3>1. \A o \in fresh : IsModerate(o.price)
      BY <2>3, <2>14, Zenon DEF Moderate, IsModerate
    <3>2. \A i \in ValidNow(queue, conf, at) : IsModerate(queue[i].price)
      <4> HIDE DEF fresh
      <4> QED
        BY <2>5, <3>1
    <3>3. \/ Panicked(conf, p)
          \/ /\ p # Panic
             /\ \E i \in valid : NotAboveBut(queue[i].price, p, RoundingSteps(conf))
             /\ \E i \in valid : NotAboveBut(p, queue[i].price, RoundingSteps(conf))
      BY <2>2, <2>14, <3>2, CalcWithin
    <3> HIDE DEF valid, fresh
    <3> QED
      BY <2>5, <3>3 DEF Panicked
  <2> HIDE DEF fresh
  <2> QED
    BY <2>1, <2>3, <2>12, <2>13, <2>14
<1>3. PricedWhileQuorum
  BY <1>2, Zenon DEF PricedWhileQuorum
<1>4. PriceWithinObservations
  BY <1>2 DEF PriceWithinObservations
<1> QED
  BY <1>3, <1>4

(***************************************************************************)
(* For any feeders, configurations and messages, a pair has a price        *)
(* exactly while a quorum of feeders has observed it within the feed       *)
(* validity.                                                               *)
(***************************************************************************)
THEOREM AlwaysPricedWhileQuorum ==
    FeedsSpec => []PricedWhileQuorum
<1>1. FeedsInv => PricedWhileQuorum
  BY FeedsMeans
<1> QED
  BY <1>1, FeedsInvariant, PTL

(***************************************************************************)
(* A price of moderate observations can be computed at all times unless    *)
(* the discount factor is 100%, what run oracle_full_discount is about,    *)
(* and no mean, silence, discount or rounding brings it out of the range   *)
(* of the valid ones by more than the share that RoundingSteps allows.     *)
(***************************************************************************)
THEOREM AlwaysWithinObservations ==
    FeedsSpec => []PriceWithinObservations
<1>1. FeedsInv => PriceWithinObservations
  BY FeedsMeans
<1> QED
  BY <1>1, FeedsInvariant, PTL
=============================================================================
