----------------------------- MODULE DexProofs -----------------------------
(***************************************************************************)
(* Theorems about the swap protocol, for every task, every set of          *)
(* currencies and however many packets may be in flight.                   *)
(***************************************************************************)
EXTENDS Dex, FinanceProofs

-----------------------------------------------------------------------------
(* The coins of a task *)

(***************************************************************************)
(* A task has a coin at least, each of a positive amount of a currency.    *)
(***************************************************************************)
LEMMA TaskCoins ==
    ASSUME task \in Tasks
    PROVE  /\ Len(task.coins) \in Nat \ {0}
           /\ AllCoins = 1..Len(task.coins)
           /\ IsFiniteSet(AllCoins)
           /\ \A i \in AllCoins : /\ task.coins[i].cur \in Currencies
                                  /\ task.coins[i].amount \in Nat \ {0}
                                  /\ task.coins[i] \in [cur : Currencies, amount : Nat]
           /\ task.route \in Routes
<1>1. /\ task \in [route : Routes, coins : Seq(Coin)] /\ task.coins # << >>
      /\ task.route \in Routes /\ task.coins \in Seq(Coin)
  BY DexAssumption
<1>2. /\ Len(task.coins) \in Nat \ {0} /\ AllCoins = 1..Len(task.coins)
      /\ \A i \in AllCoins : task.coins[i] \in Coin
  BY <1>1 DEF AllCoins
<1>3. IsFiniteSet(1..Len(task.coins))
  BY <1>2, FS_Interval
<1> QED
  BY <1>1, <1>2, <1>3 DEF Coin

(***************************************************************************)
(* The amounts of a currency are naturals, and so are their sums.          *)
(***************************************************************************)
LEMMA AmountsNat ==
    ASSUME task \in Tasks, NEW c \in Currencies
    PROVE  /\ DOMAIN AmountsIn(task.coins, c) = AllCoins
           /\ \A i \in AllCoins :
                 /\ AmountsIn(task.coins, c)[i] \in Nat
                 /\ AmountsIn(task.coins, c)[i] =
                        IF task.coins[i].cur = c THEN task.coins[i].amount ELSE 0
           /\ \A indices \in SUBSET AllCoins : CoinsAt(indices, c) \in Nat
           /\ CoinsAt({}, c) = 0
           /\ CoinsAt(AllCoins, c) = AmountOf(task.coins, c)
<1> DEFINE f == AmountsIn(task.coins, c)
<1>1. /\ DOMAIN f = AllCoins
      /\ \A i \in AllCoins :
            /\ f[i] \in Nat
            /\ f[i] = IF task.coins[i].cur = c THEN task.coins[i].amount ELSE 0
  BY TaskCoins DEF AmountsIn, AllCoins
<1> HIDE DEF f
<1>2. ASSUME NEW indices \in SUBSET AllCoins
      PROVE  SumFunctionOnSet(f, indices) \in Nat
  <2>1. IsFiniteSet(indices)
    BY TaskCoins, FS_Subset
  <2> QED
    BY <1>1, <2>1, SumNat
<1>3. SumFunctionOnSet(f, {}) = 0
  BY SumEmpty
<1>4. SumFunctionOnSet(f, AllCoins) = SumFunction(f)
  BY <1>1 DEF SumFunction
<1> QED
  BY <1>1, <1>2, <1>3, <1>4 DEF CoinsAt, AmountOf, f

(***************************************************************************)
(* Each coin adds its amount to the ones before it, and to the ones after. *)
(***************************************************************************)
LEMMA CoinsAtNext ==
    ASSUME task \in Tasks, NEW c \in Currencies, NEW i \in AllCoins
    PROVE  LET n == Len(task.coins)
               a == IF task.coins[i].cur = c THEN task.coins[i].amount ELSE 0
           IN  /\ CoinsAt(1..i, c) = CoinsAt(1..(i - 1), c) + a
               /\ CoinsAt(i..n, c) = CoinsAt((i + 1)..n, c) + a
               /\ a \in Nat
               /\ CoinsAt(1..i, c) \in Nat /\ CoinsAt(1..(i - 1), c) \in Nat
               /\ CoinsAt(i..n, c) \in Nat /\ CoinsAt((i + 1)..n, c) \in Nat
<1> DEFINE n == Len(task.coins)
           f == AmountsIn(task.coins, c)
<1>1. n \in Nat /\ i \in 1..n /\ AllCoins = 1..n
  BY TaskCoins
<1>2. /\ 1..i = (1..(i - 1)) \cup {i} /\ i \notin 1..(i - 1)
      /\ i..n = ((i + 1)..n) \cup {i} /\ i \notin (i + 1)..n
      /\ 1..i \in SUBSET AllCoins /\ 1..(i - 1) \in SUBSET AllCoins
      /\ i..n \in SUBSET AllCoins /\ (i + 1)..n \in SUBSET AllCoins
  BY <1>1
<1>3. IsFiniteSet(1..(i - 1)) /\ IsFiniteSet((i + 1)..n)
  BY <1>2, TaskCoins, FS_Subset
<1>4. /\ \A j \in AllCoins : f[j] \in Int
      /\ f[i] = (IF task.coins[i].cur = c THEN task.coins[i].amount ELSE 0)
      /\ f[i] \in Nat
  BY AmountsNat
<1> HIDE DEF f, n
<1>5. SumFunctionOnSet(f, (1..(i - 1)) \cup {i}) = SumFunctionOnSet(f, 1..(i - 1)) + f[i]
  BY <1>2, <1>3, <1>4, SumInsert
<1>6. SumFunctionOnSet(f, ((i + 1)..n) \cup {i}) = SumFunctionOnSet(f, (i + 1)..n) + f[i]
  BY <1>2, <1>3, <1>4, SumInsert
<1>7. /\ CoinsAt(1..i, c) \in Nat /\ CoinsAt(1..(i - 1), c) \in Nat
      /\ CoinsAt(i..n, c) \in Nat /\ CoinsAt((i + 1)..n, c) \in Nat
  BY <1>2, AmountsNat
<1>8. /\ CoinsAt(1..i, c) = CoinsAt(1..(i - 1), c) + f[i]
      /\ CoinsAt(i..n, c) = CoinsAt((i + 1)..n, c) + f[i]
  BY <1>2, <1>5, <1>6 DEF CoinsAt, f
<1> QED
  BY <1>4, <1>7, <1>8 DEF n

-----------------------------------------------------------------------------
(* Packets *)

(***************************************************************************)
(* No coins of the task here leave what the account has besides.           *)
(***************************************************************************)
LEMMA GivenAlone ==
    ASSUME TypeOK, NEW c \in Currencies
    PROVE  Given(c) \in Nat /\ Given(c) + CoinsAt({}, c) = Given(c)
<1>1. Given(c) \in Nat /\ task \in Tasks
  BY DEF TypeOK, Given
<1>2. CoinsAt({}, c) = 0
  BY <1>1, AmountsNat
<1> QED
  BY <1>1, <1>2

(***************************************************************************)
(* As long as there is room, some identifier is free: fewer packets than   *)
(* identifiers cannot use them all.                                        *)
(***************************************************************************)
LEMMA FreshId ==
    ASSUME NEW pending \in SUBSET PacketType, IsFiniteSet(pending), HasRoom(pending)
    PROVE  /\ FreeId(pending) \in 1..MaxPackets
           /\ \A p \in pending : p.id # FreeId(pending)
<1> DEFINE ids == {p.id : p \in pending}
           free == {i \in 1..MaxPackets : \A p \in pending : p.id # i}
           idOf == [p \in pending |-> p.id]
<1>0. MaxPackets \in Nat
  BY DexAssumption
<1>1. IsFiniteSet(ids) /\ Cardinality(ids) <= Cardinality(pending)
  <2>1. ids = {idOf[p] : p \in pending}
    OBVIOUS
  <2> HIDE DEF ids, idOf
  <2> QED
    BY <2>1, ImageFinite
<1>2. Cardinality(ids) \in Nat /\ Cardinality(pending) \in Nat
  BY <1>1, FS_CardinalityType
<1>3. Cardinality(1..MaxPackets) = MaxPackets /\ IsFiniteSet(1..MaxPackets)
  BY <1>0, FS_Interval
<1>4. free # {}
  <2> SUFFICES ASSUME free = {} PROVE FALSE
    OBVIOUS
  <2>1. 1..MaxPackets \subseteq ids
    OBVIOUS
  <2> HIDE DEF ids, free
  <2>2. Cardinality(1..MaxPackets) <= Cardinality(ids)
    BY <1>1, <2>1, FS_Subset
  <2> QED
    BY <1>0, <1>1, <1>2, <1>3, <2>2 DEF HasRoom
<1>5. free \in SUBSET Nat
  BY <1>0
<1>6. \E i \in free : \A j \in free : i <= j
  <2> HIDE DEF free
  <2> QED
    BY <1>4, <1>5, NatMinimum
<1>7. FreeId(pending) \in free
  <2>1. FreeId(pending) = CHOOSE i \in free : \A j \in free : i <= j
    BY DEF FreeId
  <2> HIDE DEF free
  <2> QED
    BY <1>6, <2>1
<1> QED
  BY <1>7

BackOf(pending) == {p \in pending : p.kind = "back"}

OwnOf(pending) == {p \in pending : p.kind # "back"}

\* what a handler passes on
RestOK(rest) ==
    /\ rest \in [packets : SUBSET PacketType, local : [Currencies -> Nat],
                 alarm : BOOLEAN]
    /\ IsFiniteSet(rest.packets)
    /\ \A p, q \in rest.packets : p.id = q.id => p = q

\* a packet with a fresh identifier
Fresh(np, pending) ==
    /\ np \in PacketType /\ np \notin pending
    /\ \A p \in pending : p.id # np.id

(***************************************************************************)
(* A packet sent while there is room has an identifier of its own.         *)
(***************************************************************************)
LEMMA NewPacketFresh ==
    ASSUME NEW pending \in SUBSET PacketType, IsFiniteSet(pending), HasRoom(pending),
           NEW kind \in Kinds, NEW coin \in [cur : Currencies, amount : Nat],
           NEW left \in 0..IBC_TIMEOUT
    PROVE  Fresh(NewPacket(pending, kind, coin, left), pending)
<1>1. /\ FreeId(pending) \in 1..MaxPackets
      /\ \A p \in pending : p.id # FreeId(pending)
  BY FreshId
<1> QED
  BY <1>1 DEF Fresh, NewPacket, PacketType

(***************************************************************************)
(* Adding it keeps the identifiers distinct.                               *)
(***************************************************************************)
LEMMA FreshAdded ==
    ASSUME NEW pending \in SUBSET PacketType, IsFiniteSet(pending),
           \A p, q \in pending : p.id = q.id => p = q,
           NEW np, Fresh(np, pending), packets' = pending \cup {np}
    PROVE  PacketsInv' /\ packets' \subseteq PacketType
<1>1. IsFiniteSet(pending \cup {np})
  BY FS_AddElement
<1>2. \A p, q \in pending \cup {np} : p.id = q.id => p = q
  BY DEF Fresh
<1>3. IsFiniteSet(packets') /\ \A p, q \in packets' : p.id = q.id => p = q
  BY <1>1, <1>2
<1>4. PacketsInv'
  BY <1>3 DEF PacketsInv
<1> QED
  BY <1>4 DEF Fresh

(***************************************************************************)
(* Entering a state sends one packet and passes the rest on.               *)
(***************************************************************************)
LEMMA Entered ==
    ASSUME NEW rest, RestOK(rest), NEW kind \in Kinds,
           NEW coin \in [cur : Currencies, amount : Nat], NEW next,
           Enter(next, kind, coin, rest)
    PROVE  /\ \E np : /\ Fresh(np, rest.packets)
                      /\ np.kind = kind /\ np.coin = coin
                      /\ np.status = "sent" /\ np.left = IBC_TIMEOUT
                      /\ packets' = rest.packets \cup {np}
           /\ PacketsInv' /\ packets' \subseteq PacketType
           /\ state' = next /\ local' = rest.local
           /\ alarm' \in BOOLEAN
<1> DEFINE np == NewPacket(rest.packets, kind, coin, IBC_TIMEOUT)
<1>1. /\ rest.packets \in SUBSET PacketType /\ IsFiniteSet(rest.packets)
      /\ \A p, q \in rest.packets : p.id = q.id => p = q
      /\ rest.alarm \in BOOLEAN
  BY DEF RestOK
<1>2. IBC_TIMEOUT \in 0..IBC_TIMEOUT
  BY DexAssumption
<1>3. HasRoom(rest.packets)
  BY DEF Enter
<1>4. Fresh(np, rest.packets)
  BY <1>1, <1>2, <1>3, NewPacketFresh
<1>5. /\ np.kind = kind /\ np.coin = coin /\ np.status = "sent"
      /\ np.left = IBC_TIMEOUT
  BY DEF NewPacket
<1> DEFINE r == [rest EXCEPT !.packets = rest.packets \cup {np}]
<1>6. /\ r.packets = rest.packets \cup {np} /\ r.local = rest.local
      /\ r.alarm = rest.alarm
  BY DEF RestOK
<1>7. Go(next, r)
  BY DEF Enter
<1> HIDE DEF np, r
<1>8. /\ state' = next /\ packets' = rest.packets \cup {np}
      /\ local' = rest.local /\ alarm' = rest.alarm
  BY <1>6, <1>7 DEF Go
<1>9. PacketsInv' /\ packets' \subseteq PacketType
  BY <1>1, <1>4, <1>8, FreshAdded
<1> QED
  BY <1>1, <1>4, <1>5, <1>8, <1>9

-----------------------------------------------------------------------------
(* The states the handlers enter *)

(***************************************************************************)
(* The next coin leaves the account: it is neither here nor there while    *)
(* its packet is on the way.                                               *)
(***************************************************************************)
LEMMA ArriveTransferOut ==
    ASSUME TypeOK, UNCHANGED <<task, dex, swapped, given, early>>,
           ~early, swapped = << >>, task.route \in {"LocalLocal", "LocalRemote"},
           NEW rest, RestOK(rest), rest.packets = {}, NEW i \in AllCoins,
           \A c \in Currencies :
               /\ dex[c] = Held[c] + CoinsAt(1..(i - 1), c)
               /\ rest.local[c] = Given(c) + CoinsAt(i..Len(task.coins), c),
           EnterTransferOut(i, rest)
    PROVE  DexInv'
<1> DEFINE coin == task.coins[i]
           r == [rest EXCEPT !.local[coin.cur] = @ - coin.amount]
           next == [At("TransferOut") EXCEPT !.coin_index = i]
<1>1. /\ task \in Tasks /\ dex \in [Currencies -> Nat]
      /\ i \in Nat
      /\ coin.cur \in Currencies /\ coin.amount \in Nat
      /\ coin \in [cur : Currencies, amount : Nat]
  BY TaskCoins DEF TypeOK
<1>2. rest.local[coin.cur] >= coin.amount /\ Enter(next, "out", coin, r)
  BY DEF EnterTransferOut
<1>3. /\ r.packets = {} /\ r.alarm = rest.alarm
      /\ r.local \in [Currencies -> Nat]
      /\ r.local = [rest.local EXCEPT ![coin.cur] = @ - coin.amount]
      /\ RestOK(r)
  <2> DEFINE loc == [rest.local EXCEPT ![coin.cur] = @ - coin.amount]
  <2>1. loc \in [Currencies -> Nat]
    BY <1>1, <1>2 DEF RestOK
  <2>2. r = [rest EXCEPT !.local = loc]
    BY DEF RestOK
  <2> HIDE DEF loc, r
  <2>3. /\ r.packets = {} /\ r.alarm = rest.alarm /\ r.local = loc
        /\ r \in [packets : SUBSET PacketType, local : [Currencies -> Nat],
                  alarm : BOOLEAN]
    BY <2>1, <2>2 DEF RestOK
  <2> QED
    BY <2>1, <2>3, FS_EmptySet DEF RestOK, loc
<1>4. \A c \in Currencies : r.local[c] = Given(c) + CoinsAt((i + 1)..Len(task.coins), c)
  <2> TAKE c \in Currencies
  <2> DEFINE a == IF coin.cur = c THEN coin.amount ELSE 0
             x == CoinsAt((i + 1)..Len(task.coins), c)
             y == CoinsAt(i..Len(task.coins), c)
  <2>1. y = x + a /\ x \in Nat /\ a \in Nat
    BY <1>1, CoinsAtNext
  <2>2. /\ rest.local[c] = Given(c) + y /\ rest.local \in [Currencies -> Nat]
        /\ Given(c) \in Nat
    BY DEF RestOK, TypeOK, Given
  <2>3. r.local[c] = rest.local[c] - a
    BY <1>1, <1>3, <2>2
  <2> HIDE DEF x, y, a, r
  <2>4. r.local[c] = Given(c) + x
    BY <2>1, <2>2, <2>3
  <2> QED
    BY <2>4 DEF x
<1>5. "out" \in Kinds
  BY DEF Kinds
<1> HIDE DEF r, next, coin
<1>6. /\ \E np : /\ Fresh(np, r.packets) /\ np.kind = "out" /\ np.coin = coin
                 /\ np.status = "sent" /\ np.left = IBC_TIMEOUT
                 /\ packets' = r.packets \cup {np}
      /\ PacketsInv' /\ packets' \subseteq PacketType
      /\ state' = next /\ local' = r.local /\ alarm' \in BOOLEAN
  <2>1. /\ RestOK(r) /\ "out" \in Kinds /\ coin \in [cur : Currencies, amount : Nat]
        /\ Enter(next, "out", coin, r)
    BY <1>1, <1>2, <1>3, <1>5
  <2> QED
    BY <2>1, Entered
<1>7. PICK np : /\ np.kind = "out" /\ np.coin = coin /\ np.status = "sent"
                /\ packets' = {np}
  BY <1>3, <1>6
<1>8. /\ state'.at = "TransferOut" /\ state'.coin_index = i /\ state'.amount = 0
      /\ state'.left = 0 /\ state'.resp = NoResponse /\ state' \in StateType
  <2>1. << >> \in Seq(Nat) /\ 0 \in 0..IBC_TIMEOUT
    BY DexAssumption
  <2>2. next = [at |-> "TransferOut", coin_index |-> i, amount |-> 0, left |-> 0,
                resp |-> << >>]
    BY DEF next, At, NoResponse
  <2> QED
    BY <1>1, <1>6, <2>1, <2>2 DEF NoResponse, StateType, States, Awaiting
<1>9. TypeOK'
  BY <1>3, <1>6, <1>8 DEF TypeOK
<1>10. Own' = {np} /\ Back' = {}
  BY <1>7 DEF Own, Back
<1>11. ~Delivering' /\ ~Done'
  BY <1>7, <1>8, <1>10 DEF Delivering, Done
<1>12. \A S, c : CoinsAt(S, c)' = CoinsAt(S, c)
  BY DEF CoinsAt
<1>13. CoinsSplit(1..(i - 1), (i + 1)..Len(task.coins))'
  BY <1>4, <1>6, <1>12 DEF CoinsSplit, Given
<1>14. Awaits("out")'
  BY <1>7, <1>10, <1>11 DEF Awaits
<1>15. OutInv'
  <2>1. AllCoins' = AllCoins
    BY DEF AllCoins
  <2> QED
    BY <1>7, <1>8, <1>10, <1>11, <1>13, <1>14, <2>1 DEF OutInv, coin
<1>16. InInv'
  BY <1>8 DEF InInv
<1> QED
  BY <1>6, <1>9, <1>15, <1>16 DEF DexInv

(***************************************************************************)
(* The interchain account is being opened, all the coins are still here.   *)
(***************************************************************************)
LEMMA ArriveOpenIca ==
    ASSUME TypeOK, UNCHANGED <<task, dex, swapped, given, early>>,
           ~early, swapped = << >>, task.route = "LocalRemote",
           NEW rest, RestOK(rest), rest.packets = {}, rest.local = local,
           CoinsSplit({}, AllCoins), EnterOpenIca(rest)
    PROVE  DexInv'
<1> DEFINE next == At("OpenIca")
<1>1. task \in Tasks /\ dex \in [Currencies -> Nat] /\ local \in [Currencies -> Nat]
  BY DEF TypeOK
<1>2. /\ Enter(next, "open", NoCoin, rest) /\ "open" \in Kinds
      /\ NoCoin \in [cur : Currencies, amount : Nat]
  BY DexAssumption DEF EnterOpenIca, Kinds, NoCoin
<1> HIDE DEF next
<1>3. /\ PacketsInv' /\ packets' \subseteq PacketType
      /\ state' = next /\ local' = rest.local /\ alarm' \in BOOLEAN
  BY <1>2, Entered
<1>4. PICK np : np.kind = "open" /\ packets' = {np}
  BY <1>2, Entered
<1>5. /\ state'.at = "OpenIca" /\ state'.coin_index = 0 /\ state'.amount = 0
      /\ state'.left = 0 /\ state'.resp = NoResponse /\ state' \in StateType
  <2>1. << >> \in Seq(Nat) /\ 0 \in 0..IBC_TIMEOUT
    BY DexAssumption
  <2>2. next = [at |-> "OpenIca", coin_index |-> 0, amount |-> 0, left |-> 0,
                resp |-> << >>]
    BY DEF next, At, NoResponse
  <2> QED
    BY <1>3, <2>1, <2>2 DEF NoResponse, StateType, States, Awaiting
<1>6. TypeOK'
  BY <1>1, <1>3, <1>5 DEF TypeOK
<1>7. Own' = {np} /\ Back' = {} /\ ~Delivering'
  BY <1>4, <1>5 DEF Own, Back, Delivering
<1>8. CoinsSplit({}, AllCoins)'
  BY <1>3 DEF CoinsSplit, Given, CoinsAt, AllCoins
<1>9. Awaits("open")'
  BY <1>4, <1>7 DEF Awaits
<1>10. OutInv'
  BY <1>4, <1>5, <1>7, <1>8, <1>9 DEF OutInv
<1>11. InInv'
  BY <1>5 DEF InInv
<1> QED
  BY <1>3, <1>6, <1>10, <1>11 DEF DexInv

(***************************************************************************)
(* All the coins are there and the swap is sent, for the first time or     *)
(* again.  Unless healed early, there is no other packet.                  *)
(***************************************************************************)
LEMMA ArriveSwapExactIn ==
    ASSUME TypeOK, UNCHANGED <<task, dex, swapped, given>>, early' \in BOOLEAN,
           task.route # "TransferIn",
           NEW rest, RestOK(rest),
           swapped = << >> =>
               /\ \A p \in rest.packets : p.kind = "swap" /\ p.status # "acked"
               /\ \A c \in Currencies : /\ dex[c] = Held[c] + CoinsAt(AllCoins, c)
                                        /\ rest.local[c] = Given(c),
           ~early' => rest.packets = {} /\ swapped = << >>,
           EnterSwapExactIn(rest)
    PROVE  DexInv'
<1> DEFINE next == At("SwapExactIn")
<1>1. task \in Tasks /\ dex \in [Currencies -> Nat] /\ rest.local \in [Currencies -> Nat]
      /\ swapped \in Seq(SwapOuts)
  BY DEF TypeOK, RestOK
<1>2. /\ Enter(next, "swap", NoCoin, rest) /\ "swap" \in Kinds
      /\ NoCoin \in [cur : Currencies, amount : Nat]
  BY DexAssumption DEF EnterSwapExactIn, Kinds, NoCoin
<1> HIDE DEF next
<1>3. /\ \E np : /\ Fresh(np, rest.packets) /\ np.kind = "swap" /\ np.coin = NoCoin
                 /\ np.status = "sent" /\ np.left = IBC_TIMEOUT
                 /\ packets' = rest.packets \cup {np}
      /\ PacketsInv' /\ packets' \subseteq PacketType
      /\ state' = next /\ local' = rest.local /\ alarm' \in BOOLEAN
  BY <1>2, Entered
<1>4. PICK np : np.kind = "swap" /\ np.status = "sent" /\ packets' = rest.packets \cup {np}
  BY <1>3
<1>5. /\ state'.at = "SwapExactIn" /\ state'.coin_index = 0 /\ state'.amount = 0
      /\ state'.left = 0 /\ state'.resp = NoResponse /\ state' \in StateType
  <2>1. << >> \in Seq(Nat) /\ 0 \in 0..IBC_TIMEOUT
    BY DexAssumption
  <2>2. next = [at |-> "SwapExactIn", coin_index |-> 0, amount |-> 0, left |-> 0,
                resp |-> << >>]
    BY DEF next, At, NoResponse
  <2> QED
    BY <1>3, <2>1, <2>2 DEF NoResponse, StateType, States, Awaiting
<1>6. TypeOK'
  BY <1>1, <1>3, <1>5 DEF TypeOK
<1>7. ~Delivering'
  BY <1>5 DEF Delivering
<1>8. ASSUME swapped' = << >>
      PROVE  /\ ~Done' /\ \A p \in packets' : p.kind = "swap"
             /\ CoinsSplit(AllCoins, {})'
  <2>1. \A p \in packets' : p.kind = "swap" /\ p.status # "acked"
    BY <1>4, <1>8
  <2>2. ~Done'
    BY <1>7, <2>1 DEF Done, Own
  <2>3. \A c \in Currencies : Given(c) + CoinsAt({}, c) = Given(c)
    BY GivenAlone
  <2>4. CoinsSplit(AllCoins, {})'
    BY <1>3, <1>8, <2>3 DEF CoinsSplit, Given, CoinsAt, AllCoins
  <2> QED
    BY <2>1, <2>2, <2>4
<1>9. OutInv'
  BY <1>5, <1>8 DEF OutInv
<1>10. ASSUME ~early' PROVE InInv'
  <2>1. packets' = {np} /\ swapped' = << >>
    BY <1>4, <1>10
  <2>2. Own' = {np} /\ Back' = {}
    BY <1>4, <2>1 DEF Own, Back
  <2>3. Awaits("swap")'
    BY <1>4, <1>7, <2>2 DEF Awaits
  <2>4. Len(swapped') <= 1
    BY <2>1
  <2> QED
    BY <1>5, <2>1, <2>2, <2>3, <2>4 DEF InInv
<1> QED
  BY <1>3, <1>6, <1>9, <1>10 DEF DexInv

-----------------------------------------------------------------------------
(* The way back *)

RefundsOf(pending) == SumFunction([p \in BackOf(pending) |-> p.coin.amount])

\* nothing but transfers of the proceeds is on its way
OnlyBack(pending) ==
    \A p \in pending : /\ p.kind = "back" /\ p.status = "sent"
                       /\ p.coin = [cur |-> Out, amount |-> Proceeds]

SwapsDone == Len(swapped) = IF task.route = "TransferIn" THEN 0 ELSE 1

ReceivedWith(pending, balances) ==
    /\ \A p \in BackOf(pending) : p.left = 0
    /\ balances[Out] = given + Proceeds /\ dex[Out] + RefundsOf(pending) = Held[Out]

PendingWith(pending, balances, left) ==
    /\ \A p \in BackOf(pending) : p.left <= left
    /\ \A p, q \in BackOf(pending) : p.left > 0 /\ q.left > 0 => p = q
    /\ balances[Out] = given /\ dex[Out] + RefundsOf(pending) = Held[Out] + Proceeds

(***************************************************************************)
(* What was received and what is pending depends on the transfers back     *)
(* only, not on the packets the contract gets an answer to.                *)
(***************************************************************************)
LEMMA SameBack ==
    ASSUME NEW pending, NEW balances, BackOf(packets') = BackOf(pending),
           local'[Out] = balances[Out], UNCHANGED <<task, dex, swapped, given>>
    PROVE  /\ Back' = BackOf(pending)
           /\ Proceeds' = Proceeds
           /\ ReceivedWith(pending, balances) => Received'
           /\ \A left : PendingWith(pending, balances, left) => Pending(left)'
<1>1. Back' = BackOf(pending)
  BY DEF Back, BackOf
<1>2. Proceeds' = Proceeds
  BY DEF Proceeds, Filtered
<1>3. Refunds' = RefundsOf(pending)
  BY <1>1 DEF Refunds, RefundsOf
<1>4. ReceivedWith(pending, balances) => Received'
  BY <1>1, <1>2, <1>3 DEF ReceivedWith, Received
<1>5. \A left : PendingWith(pending, balances, left) => Pending(left)'
  BY <1>1, <1>2, <1>3 DEF PendingWith, Pending
<1> QED
  BY <1>1, <1>2, <1>4, <1>5

(***************************************************************************)
(* What the task yields is a positive amount.                              *)
(***************************************************************************)
LEMMA ProceedsPositive ==
    ASSUME TypeOK, SwapsDone
    PROVE  Proceeds \in Nat \ {0}
<1>1. task \in Tasks /\ swapped \in Seq(SwapOuts)
  BY DEF TypeOK
<1>2. CASE task.route = "TransferIn"
  <2>1. 1 \in AllCoins
    BY <1>1, TaskCoins
  <2> QED
    BY <1>1, <1>2, <2>1, TaskCoins DEF Proceeds
<1>3. CASE task.route # "TransferIn"
  <2>1. Len(swapped) = 1
    BY <1>3 DEF SwapsDone
  <2>2. swapped[1] \in SwapOuts
    BY <1>1, <2>1
  <2>3. swapped[1] \in Nat \ {0}
    BY <2>2, DexAssumption
  <2>4. Filtered(task.coins) \in Nat
    <3>1. Out \in Currencies /\ AllCoins \in SUBSET AllCoins
      BY DexAssumption
    <3> QED
      BY <1>1, <3>1, AmountsNat DEF Filtered
  <2> QED
    BY <1>3, <2>3, <2>4 DEF Proceeds
<1> QED
  BY <1>2, <1>3

(***************************************************************************)
(* The transfer back is requested: unless healed early, none requested     *)
(* before can be received any more.                                        *)
(***************************************************************************)
LEMMA ArriveTransferInInit ==
    ASSUME TypeOK, UNCHANGED <<task, dex, swapped, given>>, early' \in BOOLEAN,
           NEW rest, RestOK(rest), NEW amount \in Nat,
           ~early' => /\ amount = Proceeds /\ SwapsDone
                      /\ task.route # "LocalRemote"
                      /\ OnlyBack(rest.packets)
                      /\ PendingWith(rest.packets, rest.local, 0),
           EnterTransferInInit(amount, rest)
    PROVE  DexInv'
<1> DEFINE next == [At("TransferInInit") EXCEPT !.amount = amount]
           coin == [cur |-> Out, amount |-> amount]
<1>1. task \in Tasks /\ dex \in [Currencies -> Nat] /\ rest.local \in [Currencies -> Nat]
      /\ swapped \in Seq(SwapOuts)
  BY DEF TypeOK, RestOK
<1>2. /\ Enter(next, "in", coin, rest) /\ "in" \in Kinds
      /\ coin \in [cur : Currencies, amount : Nat]
  BY DexAssumption DEF EnterTransferInInit, Kinds
<1> HIDE DEF next, coin
<1>3. /\ PacketsInv' /\ packets' \subseteq PacketType
      /\ state' = next /\ local' = rest.local /\ alarm' \in BOOLEAN
  BY <1>2, Entered
<1>4. PICK np : /\ np.kind = "in" /\ np.status = "sent" /\ np.coin = coin
                /\ packets' = rest.packets \cup {np}
  BY <1>2, Entered
<1>5. /\ state'.at = "TransferInInit" /\ state'.coin_index = 0 /\ state'.amount = amount
      /\ state'.left = 0 /\ state'.resp = NoResponse /\ state' \in StateType
  <2>1. << >> \in Seq(Nat) /\ 0 \in 0..IBC_TIMEOUT
    BY DexAssumption
  <2>2. next = [at |-> "TransferInInit", coin_index |-> 0, amount |-> amount, left |-> 0,
                resp |-> << >>]
    BY DEF next, At, NoResponse
  <2> QED
    BY <1>3, <2>1, <2>2 DEF NoResponse, StateType, States, Awaiting
<1>6. TypeOK'
  BY <1>1, <1>3, <1>5 DEF TypeOK
<1>7. OutInv'
  BY <1>5 DEF OutInv
<1>8. ASSUME ~early' PROVE InInv'
  <2>1. /\ amount = Proceeds /\ SwapsDone /\ task.route # "LocalRemote"
        /\ OnlyBack(rest.packets) /\ PendingWith(rest.packets, rest.local, 0)
    BY <1>8
  <2>2. BackOf(packets') = BackOf(rest.packets) /\ local'[Out] = rest.local[Out]
    BY <1>3, <1>4 DEF BackOf
  <2>3. Back' = BackOf(rest.packets) /\ Proceeds' = Proceeds /\ Pending(0)'
    BY <2>1, <2>2, SameBack
  <2>4. Own' = {np}
    BY <1>4, <2>1 DEF Own, OnlyBack
  <2>5. ~Delivering' /\ ~Done'
    BY <1>4, <1>5, <2>4 DEF Delivering, Done
  <2>6. Awaits("in")'
    BY <1>4, <2>4, <2>5 DEF Awaits
  <2>7. /\ \A p \in Own' : p.coin = [cur |-> Out, amount |-> Proceeds']
        /\ \A p \in Back' : /\ p.coin = [cur |-> Out, amount |-> Proceeds']
                            /\ p.status = "sent"
    BY <1>4, <2>1, <2>3, <2>4 DEF coin, OnlyBack, BackOf
  <2>8. Len(swapped') = IF task'.route = "TransferIn" THEN 0 ELSE 1
    BY <2>1 DEF SwapsDone
  <2> QED
    BY <1>5, <2>1, <2>3, <2>5, <2>6, <2>7, <2>8 DEF InInv
<1> QED
  BY <1>3, <1>6, <1>7, <1>8 DEF DexInv

(***************************************************************************)
(* The task is finished: unless healed early, with the proceeds on the     *)
(* account they are spent from.                                            *)
(***************************************************************************)
LEMMA ArriveFinished ==
    ASSUME TypeOK, UNCHANGED <<task, dex, swapped, given>>, early' \in BOOLEAN,
           NEW rest, RestOK(rest), NEW amount \in Nat,
           ~early' => /\ amount = Proceeds /\ SwapsDone
                      /\ OnlyBack(rest.packets)
                      /\ IF task.route = "LocalRemote"
                         THEN /\ rest.packets = {}
                              /\ PendingWith(rest.packets, rest.local, 0)
                         ELSE \/ ReceivedWith(rest.packets, rest.local)
                              \/ /\ PendingWith(rest.packets, rest.local, IBC_TIMEOUT)
                                 /\ given >= Proceeds,
           Finish(amount, rest)
    PROVE  DexInv'
<1> DEFINE next == [At("Finished") EXCEPT !.amount = amount]
<1>1. /\ task \in Tasks /\ dex \in [Currencies -> Nat] /\ swapped \in Seq(SwapOuts)
      /\ rest.local \in [Currencies -> Nat] /\ rest.packets \in SUBSET PacketType
      /\ rest.alarm \in BOOLEAN
  BY DEF TypeOK, RestOK
<1>2. /\ state' = next /\ packets' = rest.packets /\ local' = rest.local
      /\ alarm' = rest.alarm
  BY DEF Finish, Go
<1>3. PacketsInv'
  BY <1>2 DEF PacketsInv, RestOK
<1> HIDE DEF next
<1>5. /\ state'.at = "Finished" /\ state'.coin_index = 0 /\ state'.amount = amount
      /\ state'.left = 0 /\ state'.resp = NoResponse /\ state' \in StateType
  <2>1. << >> \in Seq(Nat) /\ 0 \in 0..IBC_TIMEOUT
    BY DexAssumption
  <2>2. next = [at |-> "Finished", coin_index |-> 0, amount |-> amount, left |-> 0,
                resp |-> << >>]
    BY DEF next, At, NoResponse
  <2> QED
    BY <1>2, <2>1, <2>2 DEF NoResponse, StateType, States, Awaiting
<1>6. TypeOK'
  BY <1>1, <1>2, <1>5 DEF TypeOK
<1>7. OutInv'
  BY <1>5 DEF OutInv
<1>8. ASSUME ~early' PROVE InInv'
  <2>1. amount = Proceeds /\ SwapsDone /\ OnlyBack(rest.packets)
    BY <1>8
  <2>2. BackOf(packets') = BackOf(rest.packets) /\ local'[Out] = rest.local[Out]
    BY <1>2
  <2>3. /\ Back' = BackOf(rest.packets) /\ Proceeds' = Proceeds
        /\ \A left : PendingWith(rest.packets, rest.local, left) => Pending(left)'
        /\ ReceivedWith(rest.packets, rest.local) => Received'
    BY <2>2, SameBack
  <2>4. Own' = {} /\ ~Delivering'
    BY <1>2, <1>5, <2>1 DEF Own, OnlyBack, Delivering
  <2>5. IF task'.route = "LocalRemote" THEN Back' = {} /\ Pending(0)'
        ELSE Received' \/ (Pending(IBC_TIMEOUT)' /\ given' >= Proceeds')
    BY <1>8, <2>3 DEF BackOf
  <2>6. \A p \in Back' : /\ p.coin = [cur |-> Out, amount |-> Proceeds']
                         /\ p.status = "sent"
    BY <2>1, <2>3 DEF OnlyBack, BackOf
  <2>7. Len(swapped') = IF task'.route = "TransferIn" THEN 0 ELSE 1
    BY <2>1 DEF SwapsDone
  <2> QED
    BY <1>5, <2>1, <2>3, <2>4, <2>5, <2>6, <2>7 DEF InInv
<1> QED
  BY <1>3, <1>6, <1>7, <1>8 DEF DexInv

(***************************************************************************)
(* TransferInFinish::try_complete: unless healed early, it transfers again *)
(* only once the last transfer cannot be received any more, and finishes   *)
(* only with the amount received.                                          *)
(***************************************************************************)
LEMMA TryCompleteKeeps ==
    ASSUME TypeOK, UNCHANGED <<task, dex, swapped, given>>, early' \in BOOLEAN,
           NEW rest, RestOK(rest), NEW amount \in Nat, NEW left \in 0..IBC_TIMEOUT,
           ~early' => /\ amount = Proceeds /\ SwapsDone
                      /\ task.route # "LocalRemote"
                      /\ OnlyBack(rest.packets)
                      /\ \/ ReceivedWith(rest.packets, rest.local)
                         \/ PendingWith(rest.packets, rest.local, left),
           TryComplete(amount, left, rest)
    PROVE  DexInv'
<1>0. /\ task \in Tasks /\ dex \in [Currencies -> Nat] /\ swapped \in Seq(SwapOuts)
      /\ rest.local \in [Currencies -> Nat] /\ rest.packets \in SUBSET PacketType
      /\ rest.local[Out] \in Nat /\ given \in Nat
  BY DexAssumption DEF TypeOK, RestOK
<1>1. ~early' => Proceeds \in Nat \ {0}
  BY ProceedsPositive
<1>2. CASE rest.local[Out] >= amount /\ Finish(amount, rest)
  <2>1. ~early' => \/ ReceivedWith(rest.packets, rest.local)
                   \/ /\ PendingWith(rest.packets, rest.local, IBC_TIMEOUT)
                      /\ given >= Proceeds
    <3>1. PendingWith(rest.packets, rest.local, left) =>
              PendingWith(rest.packets, rest.local, IBC_TIMEOUT)
      <4>1. \A p \in BackOf(rest.packets) : p.left \in 0..IBC_TIMEOUT
        BY <1>0 DEF BackOf, PacketType
      <4> QED
        BY <4>1, DexAssumption DEF PendingWith
    <3>2. ~early' /\ PendingWith(rest.packets, rest.local, left) => given >= Proceeds
      BY <1>0, <1>1, <1>2 DEF PendingWith
    <3> QED
      BY <3>1, <3>2
  <2> QED
    BY <1>2, <2>1, ArriveFinished
<1>3. CASE rest.local[Out] < amount /\ left = 0 /\ EnterTransferInInit(amount, rest)
  <2>1. ~early' => ~ReceivedWith(rest.packets, rest.local)
    BY <1>0, <1>1, <1>3 DEF ReceivedWith
  <2>2. ~early' => PendingWith(rest.packets, rest.local, 0)
    BY <1>3, <2>1
  <2> QED
    BY <1>3, <2>2, ArriveTransferInInit
<1>4. CASE /\ rest.local[Out] < amount /\ left > 0
           /\ Go([At("TransferInFinish") EXCEPT !.amount = amount, !.left = left],
                 [rest EXCEPT !.alarm = TRUE])
  <2> DEFINE next == [At("TransferInFinish") EXCEPT !.amount = amount, !.left = left]
             r == [rest EXCEPT !.alarm = TRUE]
  <2>1. r.packets = rest.packets /\ r.local = rest.local /\ r.alarm = TRUE
    BY DEF RestOK
  <2>2. /\ state' = next /\ packets' = rest.packets /\ local' = rest.local
        /\ alarm' = TRUE
    BY <1>4, <2>1 DEF Go
  <2>3. PacketsInv'
    BY <2>2 DEF PacketsInv, RestOK
  <2> HIDE DEF next, r
  <2>4. /\ state'.at = "TransferInFinish" /\ state'.coin_index = 0
        /\ state'.amount = amount /\ state'.left = left
        /\ state'.resp = NoResponse /\ state' \in StateType
    <3>1. << >> \in Seq(Nat)
      OBVIOUS
    <3>2. next = [at |-> "TransferInFinish", coin_index |-> 0, amount |-> amount,
                  left |-> left, resp |-> << >>]
      <4>1. At("TransferInFinish") = [at |-> "TransferInFinish", coin_index |-> 0,
                                      amount |-> 0, left |-> 0, resp |-> << >>]
        BY DEF At, NoResponse
      <4>2. [At("TransferInFinish") EXCEPT !.amount = amount] =
                [at |-> "TransferInFinish", coin_index |-> 0,
                 amount |-> amount, left |-> 0, resp |-> << >>]
        BY <4>1
      <4>3. next = [[At("TransferInFinish") EXCEPT !.amount = amount]
                       EXCEPT !.left = left]
        BY <4>1, Zenon DEF next
      <4> QED
        BY <4>2, <4>3
    <3> QED
      BY <2>2, <3>1, <3>2 DEF NoResponse, StateType, States, Awaiting
  <2>5. TypeOK'
    BY <1>0, <2>2, <2>4 DEF TypeOK
  <2>6. OutInv'
    BY <2>4 DEF OutInv
  <2>7. ASSUME ~early' PROVE InInv'
    <3>1. /\ amount = Proceeds /\ SwapsDone /\ OnlyBack(rest.packets)
          /\ task.route # "LocalRemote"
      BY <2>7
    <3>2. BackOf(packets') = BackOf(rest.packets) /\ local'[Out] = rest.local[Out]
      BY <2>2
    <3>3. /\ Back' = BackOf(rest.packets) /\ Proceeds' = Proceeds
          /\ PendingWith(rest.packets, rest.local, left) => Pending(left)'
          /\ ReceivedWith(rest.packets, rest.local) => Received'
      BY <3>2, SameBack
    <3>4. Own' = {} /\ ~Delivering'
      BY <2>2, <2>4, <3>1 DEF Own, OnlyBack, Delivering
    <3>5. Received' \/ Pending(state.left)'
      BY <2>4, <2>7, <3>3 DEF Pending
    <3>6. \A p \in Back' : /\ p.coin = [cur |-> Out, amount |-> Proceeds']
                           /\ p.status = "sent"
      BY <3>1, <3>3 DEF OnlyBack, BackOf
    <3>7. Len(swapped') = IF task'.route = "TransferIn" THEN 0 ELSE 1
      BY <3>1 DEF SwapsDone
    <3> QED
      BY <2>4, <3>1, <3>3, <3>4, <3>5, <3>6, <3>7 DEF InInv
  <2> QED
    BY <2>3, <2>5, <2>6, <2>7 DEF DexInv
<1> QED
  BY <1>2, <1>3, <1>4 DEF TryComplete

(***************************************************************************)
(* What the invariant says of the transfers back, once the packets with an *)
(* answer are left out.                                                    *)
(***************************************************************************)
LEMMA InFacts ==
    ASSUME TypeOK, InInv, state.at \in {"TransferInInit", "TransferInFinish"},
           NEW pending, BackOf(pending) = Back, OwnOf(pending) = {}
    PROVE  /\ state.amount = Proceeds /\ SwapsDone /\ task.route # "LocalRemote"
           /\ OnlyBack(pending)
           /\ Received => ReceivedWith(pending, local)
           /\ \A left : Pending(left) => PendingWith(pending, local, left)
<1>1. pending = Back
  BY DEF BackOf, OwnOf
<1>2. /\ state.amount = Proceeds /\ SwapsDone /\ task.route # "LocalRemote"
      /\ OnlyBack(pending)
  BY <1>1 DEF InInv, SwapsDone, OnlyBack, Back
<1>3. RefundsOf(pending) = Refunds
  BY DEF RefundsOf, Refunds
<1>4. Received => ReceivedWith(pending, local)
  BY <1>3 DEF Received, ReceivedWith
<1>5. \A left : Pending(left) => PendingWith(pending, local, left)
  BY <1>3 DEF Pending, PendingWith
<1> QED
  BY <1>2, <1>4, <1>5

(***************************************************************************)
(* The sum of no refunds.                                                  *)
(***************************************************************************)
LEMMA NoRefunds ==
    ASSUME NEW pending, BackOf(pending) = {}
    PROVE  RefundsOf(pending) = 0
<1> DEFINE f == [p \in BackOf(pending) |-> p.coin.amount]
<1>1. DOMAIN f = {}
  OBVIOUS
<1> HIDE DEF f
<1>2. SumFunction(f) = 0
  BY <1>1, SumEmpty DEF SumFunction
<1> QED
  BY <1>2 DEF RefundsOf, f

(***************************************************************************)
(* Handler::on_response, whether the answer has just come or had been      *)
(* stored: the operation of the state is done, and the next one follows.   *)
(***************************************************************************)
LEMMA OnResponseKeeps ==
    ASSUME DexInv, UNCHANGED <<task, dex, swapped, given, early>>,
           NEW rest, RestOK(rest), rest.local = local,
           ~early => /\ Done /\ BackOf(rest.packets) = Back
                     /\ OwnOf(rest.packets) = {},
           NEW response \in Nat,
           ~early /\ state.at = "SwapExactIn" => swapped = <<response>>,
           OnResponse(response, rest)
    PROVE  DexInv'
<1>0. /\ TypeOK /\ OutInv /\ (~early => InInv)
      /\ task \in Tasks /\ dex \in [Currencies -> Nat] /\ local \in [Currencies -> Nat]
      /\ swapped \in Seq(SwapOuts) /\ early' \in BOOLEAN
      /\ state \in StateType /\ state.amount \in Nat /\ Out \in Currencies
  BY DexAssumption DEF DexInv, TypeOK, StateType
<1>1. CASE state.at = "OpenIca" /\ EnterTransferOut(1, rest)
  <2>1. /\ ~early /\ swapped = << >> /\ Back = {} /\ task.route = "LocalRemote"
        /\ CoinsSplit({}, AllCoins)
    BY <1>0, <1>1 DEF OutInv
  <2>2. rest.packets = {}
    BY <2>1 DEF BackOf, OwnOf
  <2>3. 1 \in AllCoins /\ 1..(1 - 1) = {} /\ 1..Len(task.coins) = AllCoins
    BY <1>0, TaskCoins
  <2>4. \A c \in Currencies : /\ dex[c] = Held[c] + CoinsAt(1..(1 - 1), c)
                              /\ rest.local[c] = Given(c) + CoinsAt(1..Len(task.coins), c)
    BY <2>1, <2>3 DEF CoinsSplit
  <2> QED
    BY <1>0, <1>1, <2>1, <2>2, <2>3, <2>4, ArriveTransferOut
<1>2. CASE state.at = "TransferOut" /\ OnTransferredOut(rest)
  <2> DEFINE i == state.coin_index
             n == Len(task.coins)
  <2>1. /\ ~early /\ swapped = << >> /\ Back = {} /\ i \in AllCoins
        /\ task.route \in {"LocalLocal", "LocalRemote"}
        /\ CoinsSplit(1..i, (i + 1)..n)
    BY <1>0, <1>2 DEF OutInv
  <2>2. rest.packets = {}
    BY <2>1 DEF BackOf, OwnOf
  <2>3. n \in Nat /\ i \in 1..n /\ AllCoins = 1..n
    BY <1>0, <2>1, TaskCoins
  <2>4. CASE i = n
    <3>1. EnterSwapExactIn(rest) /\ 1..i = AllCoins /\ (i + 1)..n = {}
      BY <1>2, <2>3, <2>4 DEF OnTransferredOut
    <3>2. \A c \in Currencies : Given(c) + CoinsAt({}, c) = Given(c)
      BY <1>0, GivenAlone
    <3>3. \A c \in Currencies : /\ dex[c] = Held[c] + CoinsAt(AllCoins, c)
                                /\ rest.local[c] = Given(c)
      BY <2>1, <3>1, <3>2 DEF CoinsSplit
    <3>4. /\ task.route # "TransferIn"
          /\ \A p \in rest.packets : p.kind = "swap" /\ p.status # "acked"
      BY <2>1, <2>2
    <3> QED
      BY <1>0, <2>1, <2>2, <3>1, <3>3, <3>4, ArriveSwapExactIn
  <2>5. CASE i # n
    <3>1. /\ EnterTransferOut(i + 1, rest) /\ i + 1 \in AllCoins
          /\ 1..((i + 1) - 1) = 1..i
      BY <1>2, <2>3, <2>5 DEF OnTransferredOut
    <3>2. \A c \in Currencies : /\ dex[c] = Held[c] + CoinsAt(1..((i + 1) - 1), c)
                                /\ rest.local[c] = Given(c) + CoinsAt((i + 1)..n, c)
      BY <2>1, <3>1 DEF CoinsSplit
    <3> QED
      BY <1>0, <2>1, <2>2, <3>1, <3>2, ArriveTransferOut
  <2> QED
    BY <2>4, <2>5
<1>3. CASE state.at = "SwapExactIn" /\ OnSwapped(response, rest)
  <2> DEFINE amount == Filtered(task.coins) + response
  <2>1. task.route # "TransferIn"
    BY <1>0, <1>3 DEF OutInv
  <2>2. amount \in Nat
    <3>1. Filtered(task.coins) \in Nat
      BY <1>0, AmountsNat DEF Filtered
    <3> QED
      BY <3>1
  <2>3. ASSUME ~early
        PROVE  /\ amount = Proceeds /\ SwapsDone /\ rest.packets = {}
               /\ OnlyBack(rest.packets)
               /\ PendingWith(rest.packets, rest.local, 0)
    <3>1. swapped = <<response>> /\ Back = {} /\ InInv
      BY <1>0, <1>3, <2>3 DEF InInv
    <3>2. Len(swapped) = 1 /\ swapped[1] = response /\ swapped # << >>
      BY <3>1
    <3>3. local[Out] = given /\ dex[Out] = Held[Out] + Proceeds
      BY <1>3, <3>1, <3>2 DEF InInv
    <3>4. amount = Proceeds /\ SwapsDone
      BY <2>1, <3>2 DEF Proceeds, SwapsDone
    <3>5. BackOf(rest.packets) = {} /\ rest.packets = {}
      BY <2>3, <3>1 DEF BackOf, OwnOf
    <3>6. RefundsOf(rest.packets) = 0
      BY <3>5, NoRefunds
    <3>7. PendingWith(rest.packets, rest.local, 0)
      BY <1>0, <3>3, <3>5, <3>6 DEF PendingWith
    <3>8. OnlyBack(rest.packets)
      BY <3>5 DEF OnlyBack
    <3> QED
      BY <3>4, <3>5, <3>7, <3>8
  <2> HIDE DEF amount
  <2>4. CASE task.route = "LocalRemote" /\ Finish(amount, rest)
    BY <1>0, <2>2, <2>3, <2>4, ArriveFinished
  <2>5. CASE task.route # "LocalRemote" /\ EnterTransferInInit(amount, rest)
    BY <1>0, <2>2, <2>3, <2>5, ArriveTransferInInit
  <2> QED
    BY <1>3, <2>4, <2>5 DEF OnSwapped, amount
<1>4. CASE state.at = "TransferInInit" /\ TryComplete(state.amount, IBC_TIMEOUT, rest)
  <2>1. IBC_TIMEOUT \in 0..IBC_TIMEOUT
    BY DexAssumption
  <2>2. ASSUME ~early
        PROVE  /\ state.amount = Proceeds /\ SwapsDone /\ task.route # "LocalRemote"
               /\ OnlyBack(rest.packets)
               /\ \/ ReceivedWith(rest.packets, rest.local)
                  \/ PendingWith(rest.packets, rest.local, IBC_TIMEOUT)
    <3>1. /\ InInv /\ (Received \/ Pending(IBC_TIMEOUT))
          /\ BackOf(rest.packets) = Back /\ OwnOf(rest.packets) = {}
      BY <1>0, <1>4, <2>2 DEF InInv
    <3> QED
      BY <1>0, <1>4, <3>1, InFacts
  <2> QED
    BY <1>0, <1>4, <2>1, <2>2, TryCompleteKeeps
<1> QED
  BY <1>1, <1>2, <1>3, <1>4 DEF OnResponse

-----------------------------------------------------------------------------
(* Init and every action keep the invariant *)

(***************************************************************************)
(* The coins are all in one place before the task starts.                  *)
(***************************************************************************)
LEMMA InitHolds == Init => DexInv
<1> SUFFICES ASSUME Init PROVE DexInv
  OBVIOUS
<1>1. /\ task \in Tasks /\ packets = {} /\ swapped = << >> /\ early = FALSE
      /\ state = At("Idle") /\ alarm = FALSE
  BY DEF Init
<1>2. \A c \in Currencies : /\ CoinsAt({}, c) = 0
                            /\ CoinsAt(AllCoins, c) = AmountOf(task.coins, c)
                            /\ AmountOf(task.coins, c) \in Nat
                            /\ Held[c] \in Nat /\ Given(c) \in Nat
  BY <1>1, AmountsNat, DexAssumption DEF Init, Given
<1>3. /\ state.at = "Idle" /\ state.coin_index = 0 /\ state.amount = 0
      /\ state.left = 0 /\ state.resp = NoResponse /\ state \in StateType
  <2>1. << >> \in Seq(Nat) /\ 0 \in 0..IBC_TIMEOUT
    BY DexAssumption
  <2> QED
    BY <1>1, <2>1 DEF At, NoResponse, StateType, States, Awaiting
<1>4. local \in [Currencies -> Nat] /\ dex \in [Currencies -> Nat]
  BY <1>2 DEF Init
<1>5. TypeOK
  <2>1. swapped \in Seq(SwapOuts) /\ given \in Nat
    BY <1>1, DexAssumption DEF Init
  <2> QED
    BY <1>1, <1>3, <1>4, <2>1 DEF TypeOK
<1>6. PacketsInv
  BY <1>1, FS_EmptySet DEF PacketsInv
<1>7. IF task.route \in {"LocalLocal", "LocalRemote"}
      THEN CoinsSplit({}, AllCoins) ELSE CoinsSplit(AllCoins, {})
  <2>1. task.route \in Routes
    BY <1>1, TaskCoins
  <2>2. CASE task.route \in {"LocalLocal", "LocalRemote"}
    BY <1>2, <2>2 DEF Init, CoinsSplit
  <2>3. CASE task.route \in {"RemoteLocal", "TransferIn"}
    BY <1>2, <2>3 DEF Init, CoinsSplit
  <2> QED
    BY <2>1, <2>2, <2>3 DEF Routes
<1>8. Back = {}
  BY <1>1 DEF Back
<1>9. OutInv
  BY <1>1, <1>3, <1>7, <1>8 DEF OutInv
<1>10. InInv
  BY <1>3 DEF InInv
<1> QED
  BY <1>5, <1>6, <1>9, <1>10 DEF DexInv

(***************************************************************************)
(* The packets less an answered one, and the balances, are passed on.      *)
(***************************************************************************)
LEMMA RestPassedOn ==
    ASSUME TypeOK, PacketsInv, NEW pending \in SUBSET packets,
           NEW balances \in [Currencies -> Nat], NEW pendingAlarm \in BOOLEAN
    PROVE  LET rest == Rest(pending, balances, pendingAlarm)
           IN  /\ RestOK(rest) /\ rest.packets = pending
               /\ rest.local = balances /\ rest.alarm = pendingAlarm
<1>1. IsFiniteSet(pending)
  BY FS_Subset DEF PacketsInv
<1> QED
  BY <1>1 DEF Rest, RestOK, TypeOK, PacketsInv

(***************************************************************************)
(* The start of the task, on each route.                                   *)
(***************************************************************************)
LEMMA StartKeeps ==
    ASSUME DexInv, Start
    PROVE  DexInv'
<1> DEFINE rest == Rest(packets, local, alarm)
<1>1. /\ TypeOK /\ PacketsInv /\ OutInv /\ task \in Tasks
      /\ local \in [Currencies -> Nat] /\ alarm \in BOOLEAN /\ early \in BOOLEAN
      /\ dex \in [Currencies -> Nat] /\ Out \in Currencies /\ Held[Out] \in Nat
  BY DexAssumption DEF DexInv, TypeOK
<1>2. /\ state.at = "Idle" /\ UNCHANGED <<task, dex, swapped, given, early>>
      /\ early' \in BOOLEAN
  BY <1>1 DEF Start
<1>3. /\ ~early /\ swapped = << >> /\ packets = {}
      /\ IF task.route \in {"LocalLocal", "LocalRemote"}
         THEN CoinsSplit({}, AllCoins) ELSE CoinsSplit(AllCoins, {})
  BY <1>1, <1>2 DEF OutInv
<1>4. RestOK(rest) /\ rest.packets = {} /\ rest.local = local
  BY <1>1, <1>3, RestPassedOn
<1>5. /\ 1 \in AllCoins /\ 1..(1 - 1) = {} /\ 1..Len(task.coins) = AllCoins
      /\ \A c \in Currencies : /\ CoinsAt({}, c) = 0
                              /\ Given(c) + CoinsAt({}, c) = Given(c)
  BY <1>1, TaskCoins, AmountsNat, GivenAlone
<1> HIDE DEF rest
<1>6. CASE task.route = "LocalLocal" /\ EnterTransferOut(1, rest)
  <2>1. \A c \in Currencies : /\ dex[c] = Held[c] + CoinsAt(1..(1 - 1), c)
                              /\ rest.local[c] = Given(c) + CoinsAt(1..Len(task.coins), c)
    BY <1>3, <1>4, <1>5, <1>6 DEF CoinsSplit, Given
  <2> QED
    BY <1>1, <1>2, <1>3, <1>4, <1>5, <1>6, <2>1, ArriveTransferOut
<1>7. CASE task.route = "RemoteLocal" /\ EnterSwapExactIn(rest)
  <2>1. /\ task.route # "TransferIn"
        /\ \A p \in rest.packets : p.kind = "swap" /\ p.status # "acked"
        /\ \A c \in Currencies : /\ dex[c] = Held[c] + CoinsAt(AllCoins, c)
                                 /\ rest.local[c] = Given(c)
    BY <1>3, <1>4, <1>5, <1>7 DEF CoinsSplit
  <2> QED
    BY <1>1, <1>2, <1>3, <1>4, <1>7, <2>1, ArriveSwapExactIn
<1>8. CASE task.route = "LocalRemote" /\ EnterOpenIca(rest)
  BY <1>1, <1>2, <1>3, <1>4, <1>8, ArriveOpenIca
<1>9. CASE task.route = "TransferIn" /\ EnterTransferInInit(task.coins[1].amount, rest)
  <2> DEFINE amount == task.coins[1].amount
  <2>1. /\ Len(task.coins) = 1 /\ task.coins[1].cur = Out /\ amount \in Nat
        /\ AllCoins = 1..1
    BY <1>1, <1>5, <1>9, TaskCoins, DexAssumption
  <2>2. CoinsAt(1..1, Out) = CoinsAt(1..(1 - 1), Out) + amount
    BY <1>1, <1>5, <2>1, CoinsAtNext
  <2>3. CoinsAt(AllCoins, Out) = amount
    BY <1>1, <1>5, <2>1, <2>2
  <2>4. local[Out] = given /\ dex[Out] = Held[Out] + amount
    BY <1>1, <1>3, <1>5, <1>9, <2>3 DEF CoinsSplit, Given
  <2>5. amount = Proceeds /\ SwapsDone /\ OnlyBack(rest.packets)
    BY <1>3, <1>4, <1>9 DEF Proceeds, SwapsDone, OnlyBack
  <2>6. BackOf(rest.packets) = {}
    BY <1>4 DEF BackOf
  <2>7. RefundsOf(rest.packets) = 0
    BY <2>6, NoRefunds
  <2>8. PendingWith(rest.packets, rest.local, 0)
    BY <1>1, <1>4, <2>4, <2>5, <2>6, <2>7 DEF PendingWith
  <2> HIDE DEF amount
  <2>9. EnterTransferInInit(amount, rest)
    BY <1>9 DEF amount
  <2> QED
    BY <1>1, <1>2, <1>4, <1>9, <2>1, <2>5, <2>8, <2>9, ArriveTransferInInit
<1> QED
  BY <1>6, <1>7, <1>8, <1>9 DEF Start, rest

(***************************************************************************)
(* Unless healed early, a packet that waits for an answer is the only one, *)
(* and the contract is in the state that sent it.                          *)
(***************************************************************************)
LEMMA OwnAlone ==
    ASSUME DexInv, ~early, NEW p \in packets, p.kind # "back"
    PROVE  /\ p \in Own /\ Own = {p} /\ ~Delivering
           /\ Done <=> p.status = "acked"
           /\ BackOf(packets \ {p}) = Back /\ OwnOf(packets \ {p}) = {}
           /\ \/ state.at = "OpenIca" /\ p.kind = "open"
              \/ /\ state.at = "TransferOut" /\ p.kind = "out"
                 /\ p.coin = task.coins[state.coin_index]
              \/ state.at = "SwapExactIn" /\ p.kind = "swap"
              \/ /\ state.at = "TransferInInit" /\ p.kind = "in"
                 /\ p.coin = [cur |-> Out, amount |-> Proceeds]
<1>1. TypeOK /\ OutInv /\ InInv /\ state.at \in States
  BY DEF DexInv, TypeOK, StateType
<1>2. p \in Own
  BY DEF Own
<1>3. /\ Own = {p} /\ ~Delivering
      /\ \/ state.at = "OpenIca" /\ p.kind = "open"
         \/ /\ state.at = "TransferOut" /\ p.kind = "out"
            /\ p.coin = task.coins[state.coin_index]
         \/ state.at = "SwapExactIn" /\ p.kind = "swap"
         \/ /\ state.at = "TransferInInit" /\ p.kind = "in"
            /\ p.coin = [cur |-> Out, amount |-> Proceeds]
  <2>1. CASE state.at = "Idle"
    BY <1>1, <2>1 DEF OutInv
  <2>2. CASE state.at = "OpenIca"
    BY <1>1, <1>2, <2>2 DEF OutInv, Awaits
  <2>3. CASE state.at = "TransferOut"
    BY <1>1, <1>2, <2>3 DEF OutInv, Awaits
  <2>4. CASE state.at = "SwapExactIn"
    BY <1>1, <1>2, <2>4 DEF InInv, Awaits
  <2>5. CASE state.at = "TransferInInit"
    BY <1>1, <1>2, <2>5 DEF InInv, Awaits
  <2>6. CASE state.at \in {"TransferInFinish", "Finished"}
    BY <1>1, <1>2, <2>6 DEF InInv
  <2> QED
    BY <1>1, <2>1, <2>2, <2>3, <2>4, <2>5, <2>6 DEF States, Awaiting
<1>4. Done <=> p.status = "acked"
  BY <1>3 DEF Done
<1>5. BackOf(packets \ {p}) = Back /\ OwnOf(packets \ {p}) = {}
  BY <1>3 DEF BackOf, OwnOf, Back, Own
<1> QED
  BY <1>2, <1>3, <1>4, <1>5

(***************************************************************************)
(* Unless healed early, a transfer back is neither acknowledged nor failed *)
(* to the contract.                                                        *)
(***************************************************************************)
LEMMA BackSent ==
    ASSUME DexInv, ~early, NEW p \in packets, p.kind = "back"
    PROVE  /\ p.status = "sent" /\ p.coin = [cur |-> Out, amount |-> Proceeds]
           /\ state.at \in {"TransferInInit", "TransferInFinish", "Finished"}
           /\ p \in Back
<1>1. TypeOK /\ OutInv /\ InInv /\ state.at \in States
  BY DEF DexInv, TypeOK, StateType
<1>2. p \in Back
  BY DEF Back
<1>3. state.at \notin {"Idle", "OpenIca", "TransferOut"}
  BY <1>1, <1>2 DEF OutInv
<1>4. state.at # "SwapExactIn"
  BY <1>1, <1>2 DEF InInv
<1>5. state.at \in {"TransferInInit", "TransferInFinish", "Finished"}
  BY <1>1, <1>3, <1>4 DEF States, Awaiting
<1> QED
  BY <1>1, <1>2, <1>5 DEF InInv

(***************************************************************************)
(* Once healed early, all that is kept is that a swap which was not        *)
(* executed finds the coins.                                               *)
(***************************************************************************)
LEMMA EarlyKept ==
    ASSUME DexInv, early, early', UNCHANGED <<task, given>>,
           state' \in StateType, state'.at = state.at,
           state'.coin_index = state.coin_index, state'.amount = state.amount,
           state.at # "TransferInFinish" => state'.left = 0,
           local' \in [Currencies -> Nat], dex' \in [Currencies -> Nat],
           packets' \subseteq PacketType, PacketsInv', alarm' \in BOOLEAN,
           swapped' \in Seq(SwapOuts), early' \in BOOLEAN,
           state.at = "SwapExactIn" /\ swapped' = << >> =>
               /\ swapped = << >> /\ UNCHANGED <<local, dex, given>> /\ ~Delivering'
               /\ \A p \in packets' : p.kind = "swap" /\ p.status # "acked"
    PROVE  DexInv'
<1>1. TypeOK /\ OutInv
  BY DEF DexInv
<1>2. TypeOK'
  BY <1>1 DEF TypeOK
<1>3. state.at \notin {"Idle", "OpenIca", "TransferOut"}
  BY <1>1 DEF OutInv
<1>4. ASSUME state.at = "SwapExactIn"
      PROVE  /\ task'.route # "TransferIn" /\ state'.coin_index = 0 /\ state'.amount = 0
             /\ swapped' = << >> =>
                   /\ ~Done' /\ \A p \in packets' : p.kind = "swap"
                   /\ CoinsSplit(AllCoins, {})'
  <2>1. /\ task'.route # "TransferIn" /\ state'.coin_index = 0 /\ state'.amount = 0
        /\ swapped = << >> => CoinsSplit(AllCoins, {})
    BY <1>1, <1>4 DEF OutInv
  <2>2. ASSUME swapped' = << >>
        PROVE  /\ ~Done' /\ \A p \in packets' : p.kind = "swap"
               /\ CoinsSplit(AllCoins, {})'
    <3>1. /\ swapped = << >> /\ UNCHANGED <<local, dex, given>> /\ ~Delivering'
          /\ \A p \in packets' : p.kind = "swap" /\ p.status # "acked"
      BY <1>4, <2>2
    <3>2. CoinsSplit(AllCoins, {})'
      BY <2>1, <3>1 DEF CoinsSplit, Given, CoinsAt, AllCoins
    <3> QED
      BY <3>1, <3>2 DEF Done, Own
  <2> QED
    BY <2>1, <2>2
<1>5. OutInv'
  BY <1>3, <1>4 DEF OutInv
<1> QED
  BY <1>2, <1>5 DEF DexInv

(***************************************************************************)
(* Fewer packets keep their identifiers distinct.                          *)
(***************************************************************************)
LEMMA FewerPackets ==
    ASSUME TypeOK, PacketsInv, packets' \subseteq packets
    PROVE  PacketsInv' /\ packets' \subseteq PacketType
<1>1. IsFiniteSet(packets')
  BY FS_Subset DEF PacketsInv
<1> QED
  BY <1>1 DEF PacketsInv, TypeOK

(***************************************************************************)
(* A response is stored until it is delivered: the operation of the state  *)
(* counts as done all along.                                               *)
(***************************************************************************)
LEMMA ResponseStored ==
    ASSUME DexInv, ~early, ~early', UNCHANGED <<task, local, dex, swapped, given>>,
           NEW p \in packets, p.kind # "back", p.status = "acked",
           state' = [state EXCEPT !.resp = <<p.result>>],
           packets' = packets \ {p}, alarm' = TRUE, early' \in BOOLEAN
    PROVE  DexInv'
<1>0. /\ TypeOK /\ PacketsInv /\ OutInv /\ InInv /\ state \in StateType
      /\ p.result \in Nat
  BY DEF DexInv, TypeOK, PacketType
<1>1. /\ Own = {p} /\ ~Delivering /\ Done
      /\ BackOf(packets') = Back /\ OwnOf(packets') = {}
      /\ state.at \in {"OpenIca", "TransferOut", "SwapExactIn", "TransferInInit"}
  BY OwnAlone
<1>2. /\ state'.at = state.at /\ state'.coin_index = state.coin_index
      /\ state'.amount = state.amount /\ state'.left = state.left
      /\ state'.resp = <<p.result>> /\ state' \in StateType
  <2>1. <<p.result>> \in Seq(Nat)
    BY <1>0
  <2> QED
    BY <1>0, <2>1 DEF StateType
<1>3. Delivering' /\ Done'
  <2>1. <<p.result>> # << >>
    OBVIOUS
  <2> QED
    BY <1>2, <2>1 DEF Delivering, Done, NoResponse
<1>4. Own' = {} /\ Back' = Back /\ PacketsInv' /\ packets' \subseteq PacketType
  BY <1>0, <1>1, FewerPackets DEF Own, OwnOf, Back, BackOf
<1>5. TypeOK'
  BY <1>0, <1>2, <1>4 DEF TypeOK
<1>6. \A S, T : CoinsSplit(S, T)' <=> CoinsSplit(S, T)
  BY DEF CoinsSplit, Given, CoinsAt
<1>7. Proceeds' = Proceeds /\ (Received => Received') /\ (\A left : Pending(left) => Pending(left)')
  <2>1. Refunds' = Refunds
    BY <1>4 DEF Refunds
  <2>2. Proceeds' = Proceeds
    BY DEF Proceeds, Filtered
  <2> QED
    BY <1>4, <2>1, <2>2 DEF Received, Pending
<1>8. \A kind : Awaits(kind)'
  BY <1>4 DEF Awaits
<1>9. CASE state.at = "OpenIca"
  <2>1. OutInv'
    BY <1>0, <1>2, <1>4, <1>6, <1>8, <1>9 DEF OutInv, AllCoins
  <2>2. InInv'
    BY <1>2, <1>9 DEF InInv
  <2> QED
    BY <1>4, <1>5, <2>1, <2>2 DEF DexInv
<1>10. CASE state.at = "TransferOut"
  <2> DEFINE i == state.coin_index
  <2>1. CoinsSplit(1..i, (i + 1)..Len(task.coins))'
    BY <1>0, <1>1, <1>6, <1>10 DEF OutInv
  <2>2. OutInv'
    BY <1>0, <1>2, <1>3, <1>4, <1>8, <1>10, <2>1 DEF OutInv, AllCoins
  <2>3. InInv'
    BY <1>2, <1>10 DEF InInv
  <2> QED
    BY <1>4, <1>5, <2>2, <2>3 DEF DexInv
<1>11. CASE state.at = "SwapExactIn"
  <2>1. swapped # << >>
    BY <1>0, <1>1, <1>11 DEF OutInv
  <2>2. swapped = <<p.result>>
    BY <1>0, <1>1, <1>11, <2>1 DEF InInv
  <2>3. /\ local[Out] = given /\ dex[Out] = Held[Out] + Proceeds
        /\ Back = {} /\ Len(swapped) <= 1
    BY <1>0, <1>11, <2>1 DEF InInv
  <2>4. OutInv'
    BY <1>0, <1>2, <1>11, <2>1 DEF OutInv
  <2>5. InInv'
    BY <1>2, <1>3, <1>4, <1>7, <1>8, <1>11, <2>2, <2>3 DEF InInv
  <2> QED
    BY <1>4, <1>5, <2>4, <2>5 DEF DexInv
<1>12. CASE state.at = "TransferInInit"
  <2>1. OutInv'
    BY <1>0, <1>2, <1>12 DEF OutInv
  <2>2. Received' \/ Pending(IBC_TIMEOUT)'
    BY <1>0, <1>1, <1>7, <1>12 DEF InInv
  <2>3. InInv'
    BY <1>0, <1>2, <1>3, <1>4, <1>7, <1>8, <1>12, <2>2 DEF InInv
  <2> QED
    BY <1>4, <1>5, <2>1, <2>3 DEF DexInv
<1> QED
  BY <1>1, <1>9, <1>10, <1>11, <1>12

(***************************************************************************)
(* SudoMsg::Response and SudoMsg::OpenAck.                                 *)
(***************************************************************************)
LEMMA ResponseKeeps ==
    ASSUME DexInv, NEW p, Response(p)
    PROVE  DexInv'
<1> DEFINE rest == Rest(packets \ {p}, local, alarm)
           supported == /\ ~Delivering
                        /\ IF p.kind = "open" THEN state.at = "OpenIca"
                           ELSE state.at \in Awaiting
<1>0. /\ TypeOK /\ PacketsInv /\ OutInv /\ (~early => InInv) /\ state \in StateType
      /\ local \in [Currencies -> Nat] /\ alarm \in BOOLEAN /\ early \in BOOLEAN
      /\ dex \in [Currencies -> Nat] /\ swapped \in Seq(SwapOuts)
  BY DEF DexInv, TypeOK
<1>1. /\ p \in packets /\ p.status = "acked" /\ p.result \in Nat
      /\ UNCHANGED <<task, dex, swapped, given, early>> /\ early' \in BOOLEAN
  BY <1>0 DEF Response, TypeOK, PacketType
<1>2. /\ RestOK(rest) /\ rest.packets = packets \ {p} /\ rest.local = local
      /\ rest.alarm = alarm
  BY <1>0, RestPassedOn
<1>3. ~early => /\ p.kind # "back" /\ supported /\ Done
                /\ BackOf(rest.packets) = Back /\ OwnOf(rest.packets) = {}
  <2> SUFFICES ASSUME ~early
               PROVE  /\ p.kind # "back" /\ supported /\ Done
                      /\ BackOf(rest.packets) = Back /\ OwnOf(rest.packets) = {}
    OBVIOUS
  <2>1. p.kind # "back"
    BY <1>1, BackSent
  <2> HIDE DEF rest
  <2> QED
    BY <1>1, <1>2, <2>1, OwnAlone DEF Awaiting
<1>4. ~early /\ state.at = "SwapExactIn" => swapped = <<p.result>>
  <2> SUFFICES ASSUME ~early, state.at = "SwapExactIn"
               PROVE  swapped = <<p.result>>
    OBVIOUS
  <2>1. Own = {p} /\ ~Delivering /\ Done /\ InInv
    BY <1>0, <1>1, <1>3, OwnAlone
  <2>2. swapped # << >>
    BY <1>0, <2>1 DEF OutInv
  <2> QED
    BY <2>1, <2>2 DEF InInv
<1>5. early /\ state.at = "SwapExactIn" => swapped # << >>
  BY <1>0, <1>1 DEF OutInv, Done, Own
<1> HIDE DEF rest, supported
<1>6. CASE supported /\ OnResponse(p.result, rest)
  BY <1>1, <1>2, <1>3, <1>4, <1>6, OnResponseKeeps
<1>7. CASE supported /\ Go([state EXCEPT !.resp = <<p.result>>], [rest EXCEPT !.alarm = TRUE])
  <2>1. /\ state' = [state EXCEPT !.resp = <<p.result>>] /\ packets' = packets \ {p}
        /\ local' = local /\ alarm' = TRUE
    BY <1>2, <1>7 DEF Go, RestOK
  <2>2. CASE ~early
    BY <1>1, <1>3, <2>1, <2>2, ResponseStored
  <2>3. CASE early
    <3>1. /\ state' \in StateType /\ state'.at = state.at /\ state'.left = state.left
          /\ state'.coin_index = state.coin_index /\ state'.amount = state.amount
      <4>1. <<p.result>> \in Seq(Nat)
        BY <1>1
      <4> QED
        BY <1>0, <2>1, <4>1 DEF StateType
    <3>2. PacketsInv' /\ packets' \subseteq PacketType
      BY <1>0, <2>1, FewerPackets
    <3>3. state.at # "TransferInFinish" => state'.left = 0
      BY <1>0, <3>1 DEF OutInv
    <3> QED
      BY <1>0, <1>1, <1>5, <2>1, <2>3, <3>1, <3>2, <3>3, EarlyKept
  <2> QED
    BY <2>2, <2>3
<1>8. CASE ~supported /\ Go(state, rest)
  <2>1. state' = state /\ packets' = packets \ {p} /\ local' = local /\ alarm' = alarm
    BY <1>2, <1>8 DEF Go
  <2>2. early
    BY <1>3, <1>8
  <2>3. PacketsInv' /\ packets' \subseteq PacketType
    BY <1>0, <2>1, FewerPackets
  <2>4. state.at # "TransferInFinish" => state'.left = 0
    BY <1>0, <2>1 DEF OutInv
  <2> QED
    BY <1>0, <1>1, <1>5, <2>1, <2>2, <2>3, <2>4, EarlyKept
<1> QED
  BY <1>6, <1>7, <1>8 DEF Response, rest, supported

(***************************************************************************)
(* What Refunded passes on: only a transfer out gives its coin back.       *)
(***************************************************************************)
LEMMA RefundPassedOn ==
    ASSUME TypeOK, PacketsInv, NEW p \in packets
    PROVE  /\ RestOK(Refunded(p)) /\ Refunded(p).packets = packets \ {p}
           /\ Refunded(p).local \in [Currencies -> Nat] /\ Refunded(p).alarm = alarm
           /\ p.kind # "out" => Refunded(p).local = local
           /\ p.kind = "out" =>
                 \A c \in Currencies : Refunded(p).local[c] =
                     local[c] + IF p.coin.cur = c THEN p.coin.amount ELSE 0
<1>1. /\ p.coin.cur \in Currencies /\ p.coin.amount \in Nat
      /\ local \in [Currencies -> Nat] /\ alarm \in BOOLEAN
  BY DEF TypeOK, PacketType
<1> DEFINE back == [local EXCEPT ![p.coin.cur] = @ + p.coin.amount]
           balances == IF p.kind = "out" THEN back ELSE local
<1>2. /\ back \in [Currencies -> Nat]
      /\ \A c \in Currencies : back[c] =
             local[c] + IF p.coin.cur = c THEN p.coin.amount ELSE 0
  BY <1>1
<1>3. Refunded(p) = Rest(packets \ {p}, balances, alarm)
  BY DEF Refunded
<1> HIDE DEF back
<1>4. balances \in [Currencies -> Nat]
  BY <1>1, <1>2
<1>5. p.kind # "out" => balances = local
  OBVIOUS
<1>6. p.kind = "out" => balances = back
  OBVIOUS
<1> HIDE DEF balances
<1>7. /\ RestOK(Refunded(p)) /\ Refunded(p).packets = packets \ {p}
      /\ Refunded(p).local = balances /\ Refunded(p).alarm = alarm
  BY <1>1, <1>3, <1>4, RestPassedOn
<1> QED
  BY <1>2, <1>4, <1>5, <1>6, <1>7

(***************************************************************************)
(* timeout::on_timeout_retry: the operation whose packet was not executed  *)
(* is repeated, a transfer out with the coin refunded.                     *)
(***************************************************************************)
LEMMA ReenterKeeps ==
    ASSUME DexInv, NEW p \in packets, p.status # "acked", p.kind # "back" \/ early,
           UNCHANGED <<task, dex, swapped, given, early>>, Reenter(Refunded(p))
    PROVE  DexInv'
<1> DEFINE rest == Refunded(p)
<1>0. /\ TypeOK /\ PacketsInv /\ OutInv /\ (~early => InInv) /\ state \in StateType
      /\ local \in [Currencies -> Nat] /\ early' \in BOOLEAN /\ task \in Tasks
      /\ dex \in [Currencies -> Nat] /\ swapped \in Seq(SwapOuts) /\ state.amount \in Nat
  BY DEF DexInv, TypeOK, StateType
<1>1. /\ RestOK(rest) /\ rest.packets = packets \ {p}
      /\ p.kind # "out" => rest.local = local
      /\ p.kind = "out" => \A c \in Currencies : rest.local[c] =
                               local[c] + IF p.coin.cur = c THEN p.coin.amount ELSE 0
  BY <1>0, RefundPassedOn
<1>2. ~early => /\ Own = {p} /\ ~Delivering /\ ~Done
                /\ BackOf(rest.packets) = Back /\ OwnOf(rest.packets) = {}
                /\ state.at = "TransferOut" =>
                      p.kind = "out" /\ p.coin = task.coins[state.coin_index]
                /\ state.at \in {"SwapExactIn", "TransferInInit"} => p.kind # "out"
  BY <1>1, OwnAlone
<1> HIDE DEF rest
<1>3. CASE state.at = "TransferOut" /\ EnterTransferOut(state.coin_index, rest)
  <2> DEFINE i == state.coin_index
             n == Len(task.coins)
  <2>1. /\ ~early /\ swapped = << >> /\ Back = {} /\ i \in AllCoins
        /\ task.route \in {"LocalLocal", "LocalRemote"}
    BY <1>0, <1>3 DEF OutInv
  <2>2. CoinsSplit(1..(i - 1), (i + 1)..n)
    BY <1>0, <1>2, <1>3, <2>1 DEF OutInv
  <2>3. rest.packets = {}
    BY <1>2, <2>1 DEF BackOf, OwnOf
  <2>4. ASSUME NEW c \in Currencies
        PROVE  /\ dex[c] = Held[c] + CoinsAt(1..(i - 1), c)
               /\ rest.local[c] = Given(c) + CoinsAt(i..n, c)
    <3> DEFINE a == IF task.coins[i].cur = c THEN task.coins[i].amount ELSE 0
    <3>1. /\ CoinsAt(i..n, c) = CoinsAt((i + 1)..n, c) + a
          /\ CoinsAt((i + 1)..n, c) \in Nat /\ a \in Nat /\ Given(c) \in Nat
      BY <1>0, <2>1, CoinsAtNext, GivenAlone
    <3>2. rest.local[c] = local[c] + a
      BY <1>1, <1>2, <1>3, <2>1
    <3>3. /\ dex[c] = Held[c] + CoinsAt(1..(i - 1), c)
          /\ local[c] = Given(c) + CoinsAt((i + 1)..n, c)
      BY <2>2 DEF CoinsSplit
    <3> HIDE DEF a
    <3> QED
      BY <3>1, <3>2, <3>3
  <2> QED
    BY <1>0, <1>1, <1>3, <2>1, <2>3, <2>4, ArriveTransferOut
<1>4. CASE state.at = "SwapExactIn" /\ EnterSwapExactIn(rest)
  <2>1. task.route # "TransferIn"
    BY <1>0, <1>4 DEF OutInv
  <2>2. ASSUME swapped = << >>
        PROVE  /\ \A q \in rest.packets : q.kind = "swap" /\ q.status # "acked"
               /\ \A c \in Currencies : /\ dex[c] = Held[c] + CoinsAt(AllCoins, c)
                                        /\ rest.local[c] = Given(c)
    <3>1. /\ ~Done /\ \A q \in packets : q.kind = "swap"
          /\ CoinsSplit(AllCoins, {})
      BY <1>0, <1>4, <2>2 DEF OutInv
    <3>2. \A q \in packets : q.status # "acked"
      BY <3>1 DEF Done, Own
    <3>3. rest.local = local
      BY <1>1, <3>1
    <3>4. \A c \in Currencies : Given(c) + CoinsAt({}, c) = Given(c)
      BY <1>0, GivenAlone
    <3> QED
      BY <1>1, <3>1, <3>2, <3>3, <3>4 DEF CoinsSplit
  <2>3. ASSUME ~early' PROVE rest.packets = {} /\ swapped = << >>
    <3>1. ~early /\ InInv
      BY <1>0, <2>3
    <3>2. swapped = << >>
      BY <1>2, <1>4, <3>1 DEF InInv, Done
    <3>3. Back = {}
      BY <1>4, <3>1 DEF InInv
    <3> QED
      BY <1>2, <3>1, <3>2, <3>3 DEF BackOf, OwnOf
  <2> QED
    BY <1>0, <1>1, <1>4, <2>1, <2>2, <2>3, ArriveSwapExactIn
<1>5. CASE state.at = "TransferInInit" /\ EnterTransferInInit(state.amount, rest)
  <2>1. ASSUME ~early'
        PROVE  /\ state.amount = Proceeds /\ SwapsDone /\ task.route # "LocalRemote"
               /\ OnlyBack(rest.packets) /\ PendingWith(rest.packets, rest.local, 0)
    <3>1. /\ ~early /\ InInv /\ Pending(0) /\ rest.local = local
          /\ BackOf(rest.packets) = Back /\ OwnOf(rest.packets) = {}
      BY <1>0, <1>1, <1>2, <1>5, <2>1 DEF InInv
    <3> QED
      BY <1>0, <1>5, <3>1, InFacts
  <2> QED
    BY <1>0, <1>1, <1>5, <2>1, ArriveTransferInInit
<1> QED
  BY <1>3, <1>4, <1>5 DEF Reenter, rest

(***************************************************************************)
(* An answer that the state does not support changes no more than the      *)
(* packets; unless healed early, it is the error of an operation that only *)
(* Heal repeats.                                                           *)
(***************************************************************************)
LEMMA RefusedKeeps ==
    ASSUME DexInv, NEW p \in packets, p.status # "acked", p.kind # "back" \/ early,
           ~early => state.at # "TransferOut",
           UNCHANGED <<task, dex, swapped, given, early>>, Go(state, Refunded(p))
    PROVE  DexInv'
<1>0. /\ TypeOK /\ PacketsInv /\ OutInv /\ (~early => InInv) /\ state \in StateType
      /\ local \in [Currencies -> Nat] /\ alarm \in BOOLEAN /\ early' \in BOOLEAN
      /\ dex \in [Currencies -> Nat] /\ swapped \in Seq(SwapOuts)
  BY DEF DexInv, TypeOK
<1>1. /\ state' = state /\ packets' = packets \ {p} /\ alarm' = alarm
      /\ local' \in [Currencies -> Nat] /\ (p.kind # "out" => local' = local)
  <2>1. /\ Refunded(p).packets = packets \ {p} /\ Refunded(p).alarm = alarm
        /\ Refunded(p).local \in [Currencies -> Nat]
        /\ p.kind # "out" => Refunded(p).local = local
    BY <1>0, RefundPassedOn
  <2> QED
    BY <2>1 DEF Go
<1>2. PacketsInv' /\ packets' \subseteq PacketType
  BY <1>0, <1>1, FewerPackets
<1>3. CASE early
  <2>1. state.at # "TransferInFinish" => state'.left = 0
    BY <1>0, <1>1 DEF OutInv
  <2>2. ASSUME state.at = "SwapExactIn", swapped' = << >>
        PROVE  /\ swapped = << >> /\ UNCHANGED <<local, dex, given>> /\ ~Delivering'
               /\ \A q \in packets' : q.kind = "swap" /\ q.status # "acked"
    <3>1. ~Done /\ \A q \in packets : q.kind = "swap"
      BY <1>0, <2>2 DEF OutInv
    <3> QED
      BY <1>1, <2>2, <3>1 DEF Done, Own, Delivering
  <2> QED
    BY <1>0, <1>1, <1>2, <1>3, <2>1, <2>2, EarlyKept
<1>4. CASE ~early
  <2>1. /\ Own = {p} /\ ~Delivering /\ ~Done /\ p.kind # "out"
        /\ BackOf(packets') = Back /\ OwnOf(packets') = {}
        /\ state.at \in {"OpenIca", "SwapExactIn", "TransferInInit"}
    BY <1>1, <1>4, OwnAlone
  <2>2. UNCHANGED <<local, state>>
    BY <1>1, <2>1
  <2>3. Own' = {} /\ Back' = Back /\ ~Delivering' /\ ~Done'
    BY <2>1, <2>2 DEF Own, OwnOf, Back, BackOf, Delivering, Done
  <2>4. TypeOK'
    BY <1>0, <1>1, <1>2 DEF TypeOK
  <2>5. \A kind : Awaits(kind)'
    BY <2>3 DEF Awaits
  <2>6. CoinsSplit({}, AllCoins)' = CoinsSplit({}, AllCoins) /\ CoinsSplit(AllCoins, {})' = CoinsSplit(AllCoins, {})
    BY <2>2 DEF CoinsSplit, Given, CoinsAt, AllCoins
  <2>7. Proceeds' = Proceeds /\ (Pending(0) => Pending(0)')
    <3>1. Refunds' = Refunds /\ Proceeds' = Proceeds
      BY <2>3 DEF Refunds, Proceeds, Filtered
    <3> QED
      BY <2>2, <2>3, <3>1 DEF Pending
  <2>8. OutInv'
    <3>1. state'.at \notin {"Idle", "TransferOut", "TransferInFinish"} /\ state'.left = 0
      BY <1>0, <2>1, <2>2 DEF OutInv
    <3>2. CASE state.at = "OpenIca"
      BY <1>0, <2>2, <2>3, <2>5, <2>6, <3>1, <3>2 DEF OutInv
    <3>3. CASE state.at = "SwapExactIn"
      BY <1>0, <1>1, <2>2, <2>3, <2>6, <3>1, <3>3 DEF OutInv
    <3>4. CASE state.at = "TransferInInit"
      BY <2>2, <3>1, <3>4 DEF OutInv
    <3> QED
      BY <2>1, <3>2, <3>3, <3>4
  <2>9. InInv'
    <3>1. CASE state.at = "OpenIca"
      BY <2>2, <3>1 DEF InInv
    <3>2. CASE state.at = "SwapExactIn"
      <4>1. swapped' = << >>
        BY <1>0, <1>4, <2>1, <3>2 DEF InInv, Done
      <4> QED
        BY <1>0, <1>4, <2>2, <2>3, <2>5, <3>2, <4>1 DEF InInv
    <3>3. CASE state.at = "TransferInInit"
      BY <1>0, <1>4, <2>1, <2>2, <2>3, <2>5, <2>7, <3>3 DEF InInv
    <3> QED
      BY <2>1, <3>1, <3>2, <3>3
  <2> QED
    BY <1>2, <2>4, <2>8, <2>9 DEF DexInv
<1> QED
  BY <1>3, <1>4

(***************************************************************************)
(* SudoMsg::Timeout.                                                       *)
(***************************************************************************)
LEMMA TimeoutKeeps ==
    ASSUME DexInv, NEW p, Timeout(p)
    PROVE  DexInv'
<1> DEFINE supported == ~Delivering /\ state.at \in Awaiting
<1>1. /\ p \in packets /\ p.status # "acked" /\ p.kind # "back"
      /\ UNCHANGED <<task, dex, swapped, given, early>>
  BY DEF Timeout, ICAOrTransfer
<1>2. ~early => supported
  BY <1>1, OwnAlone DEF Awaiting, Timeout, ICAOrTransfer
<1>3. CASE supported /\ Reenter(Refunded(p))
  BY <1>1, <1>3, ReenterKeeps
<1>4. CASE ~supported /\ Go(state, Refunded(p))
  BY <1>1, <1>2, <1>4, RefusedKeeps
<1> QED
  BY <1>3, <1>4 DEF Timeout

(***************************************************************************)
(* SudoMsg::Error.                                                         *)
(***************************************************************************)
LEMMA ErrorKeeps ==
    ASSUME DexInv, NEW p, Error(p)
    PROVE  DexInv'
<1> DEFINE supported == ~Delivering /\ state.at = "TransferOut"
<1>1. /\ p \in packets /\ p.status = "failed" /\ p.status # "acked"
      /\ UNCHANGED <<task, dex, swapped, given, early>>
  BY DEF Error
<1>2. p.kind # "back" \/ early
  BY <1>1, BackSent
<1>3. CASE supported /\ Reenter(Refunded(p))
  BY <1>1, <1>2, <1>3, ReenterKeeps
<1>4. CASE ~supported /\ Go(state, Refunded(p))
  <2>1. ~early => state.at # "TransferOut"
    BY <1>1, <1>2, <1>4, OwnAlone
  <2> QED
    BY <1>1, <1>2, <1>4, <2>1, RefusedKeeps
<1> QED
  BY <1>3, <1>4 DEF Error

(***************************************************************************)
(* ExecuteMsg::TimeAlarm: a stored response is delivered again, or the     *)
(* transfer is polled for.                                                 *)
(***************************************************************************)
LEMMA TimeAlarmKeeps ==
    ASSUME DexInv, TimeAlarm
    PROVE  DexInv'
<1> DEFINE rest == Rest(packets, local, FALSE)
<1>0. /\ TypeOK /\ PacketsInv /\ OutInv /\ (~early => InInv) /\ state \in StateType
      /\ local \in [Currencies -> Nat] /\ early \in BOOLEAN /\ state.amount \in Nat
      /\ state.left \in 0..IBC_TIMEOUT /\ state.resp \in Seq(Nat)
  BY DEF DexInv, TypeOK, StateType
<1>1. /\ UNCHANGED <<task, dex, swapped, given, early>> /\ early' \in BOOLEAN
  BY <1>0 DEF TimeAlarm
<1>2. RestOK(rest) /\ rest.packets = packets /\ rest.local = local
  BY <1>0, RestPassedOn
<1> HIDE DEF rest
<1>3. CASE Delivering /\ OnResponse(state.resp[1], rest)
  <2>1. state.resp[1] \in Nat /\ Done
    BY <1>0, <1>3 DEF Delivering, NoResponse, Done
  <2>2. ASSUME ~early
        PROVE  BackOf(rest.packets) = Back /\ OwnOf(rest.packets) = {}
    <3>1. \A p \in packets : p.kind = "back"
      BY <1>3, <2>2, OwnAlone
    <3> QED
      BY <1>2, <3>1 DEF BackOf, OwnOf, Back
  <2>3. ~early /\ state.at = "SwapExactIn" => swapped = <<state.resp[1]>>
    <3> SUFFICES ASSUME ~early, state.at = "SwapExactIn"
                 PROVE  swapped = <<state.resp[1]>>
      OBVIOUS
    <3>1. Own = {} /\ InInv
      BY <1>0, <1>3 DEF InInv, Awaits
    <3>2. swapped # << >>
      BY <1>0, <2>1 DEF OutInv
    <3>3. state.resp = swapped /\ Len(swapped) <= 1
      BY <3>1, <3>2 DEF InInv
    <3>4. swapped \in Seq(SwapOuts)
      BY <1>0 DEF TypeOK
    <3>5. Len(swapped) = 1
      <4> DEFINE n == Len(swapped)
      <4>1. n \in Nat /\ n <= 1
        BY <3>3, <3>4
      <4>2. n # 0
        <5>1. ASSUME n = 0 PROVE swapped = << >>
          BY <3>4, <5>1
        <5> QED
          BY <3>2, <5>1
      <4> HIDE DEF n
      <4>3. n = 1
        BY <4>1, <4>2
      <4> QED
        BY <4>3 DEF n
    <3> QED
      BY <3>3, <3>4, <3>5
  <2> QED
    BY <1>1, <1>2, <1>3, <2>1, <2>2, <2>3, OnResponseKeeps
<1>4. CASE state.at = "TransferInFinish" /\ TryComplete(state.amount, state.left, rest)
  <2>1. ASSUME ~early'
        PROVE  /\ state.amount = Proceeds /\ SwapsDone /\ task.route # "LocalRemote"
               /\ OnlyBack(rest.packets)
               /\ \/ ReceivedWith(rest.packets, rest.local)
                  \/ PendingWith(rest.packets, rest.local, state.left)
    <3>1. InInv /\ (Received \/ Pending(state.left)) /\ Own = {}
      BY <1>0, <1>1, <1>4, <2>1 DEF InInv
    <3>2. BackOf(rest.packets) = Back /\ OwnOf(rest.packets) = {}
      BY <1>2, <3>1 DEF BackOf, OwnOf, Back, Own
    <3> QED
      BY <1>0, <1>2, <1>4, <3>1, <3>2, InFacts
  <2> QED
    BY <1>0, <1>1, <1>2, <1>4, <2>1, TryCompleteKeeps
<1> QED
  BY <1>3, <1>4 DEF TimeAlarm, rest

(***************************************************************************)
(* ExecuteMsg::Heal: with no answer on its way, the operation of the state *)
(* was not executed, or the amount is polled for.                          *)
(***************************************************************************)
LEMMA HealKeeps ==
    ASSUME DexInv, Heal
    PROVE  DexInv'
<1> DEFINE rest == Rest(packets, local, alarm)
<1>0. /\ TypeOK /\ PacketsInv /\ OutInv /\ (~early => InInv) /\ state \in StateType
      /\ local \in [Currencies -> Nat] /\ alarm \in BOOLEAN /\ state.amount \in Nat
      /\ state.left \in 0..IBC_TIMEOUT /\ IBC_TIMEOUT \in Nat /\ task \in Tasks
      /\ packets \subseteq PacketType
  BY DexAssumption DEF DexInv, TypeOK, StateType
<1>1. /\ UNCHANGED <<task, dex, swapped, given>> /\ ~Delivering
      /\ early' = (early \/ Own # {})
  BY DEF Heal
<1>2. early' \in BOOLEAN /\ (~early' => ~early /\ Own = {} /\ ~Done /\ InInv)
  BY <1>0, <1>1 DEF Done
<1>3. RestOK(rest) /\ rest.packets = packets /\ rest.local = local
  BY <1>0, RestPassedOn
<1>4. ~early' => BackOf(rest.packets) = Back /\ OwnOf(rest.packets) = {}
  BY <1>2, <1>3 DEF BackOf, OwnOf, Back, Own
<1> HIDE DEF rest
<1>5. CASE state.at = "SwapExactIn" /\ Reenter(rest)
  <2>1. EnterSwapExactIn(rest) /\ task.route # "TransferIn"
    BY <1>0, <1>5 DEF Reenter, OutInv
  <2>2. ASSUME swapped = << >>
        PROVE  /\ \A q \in rest.packets : q.kind = "swap" /\ q.status # "acked"
               /\ \A c \in Currencies : /\ dex[c] = Held[c] + CoinsAt(AllCoins, c)
                                        /\ rest.local[c] = Given(c)
    <3>1. /\ ~Done /\ \A q \in packets : q.kind = "swap"
          /\ CoinsSplit(AllCoins, {})
      BY <1>0, <1>5, <2>2 DEF OutInv
    <3>2. \A q \in packets : q.status # "acked"
      BY <3>1 DEF Done, Own
    <3>3. \A c \in Currencies : Given(c) + CoinsAt({}, c) = Given(c)
      BY <1>0, GivenAlone
    <3> QED
      BY <1>3, <3>1, <3>2, <3>3 DEF CoinsSplit
  <2>3. ASSUME ~early' PROVE rest.packets = {} /\ swapped = << >>
    <3>1. InInv /\ Own = {} /\ ~Done
      BY <1>2, <2>3
    <3>2. swapped = << >> /\ Back = {}
      BY <1>5, <3>1 DEF InInv, Done
    <3> QED
      BY <1>4, <2>3, <3>2 DEF BackOf, OwnOf
  <2> QED
    BY <1>0, <1>1, <1>2, <1>3, <2>1, <2>2, <2>3, ArriveSwapExactIn
<1>6. CASE state.at = "TransferInInit" /\ TryComplete(state.amount, IBC_TIMEOUT, rest)
  <2>1. ASSUME ~early'
        PROVE  /\ state.amount = Proceeds /\ SwapsDone /\ task.route # "LocalRemote"
               /\ OnlyBack(rest.packets)
               /\ PendingWith(rest.packets, rest.local, IBC_TIMEOUT)
    <3>1. InInv /\ Pending(0)
      BY <1>2, <1>6, <2>1 DEF InInv
    <3>2. Pending(IBC_TIMEOUT)
      <4>1. \A p \in Back : p.left \in 0..IBC_TIMEOUT
        BY <1>0 DEF Back, PacketType
      <4>2. \A p \in Back : p.left <= IBC_TIMEOUT
        BY <1>0, <4>1
      <4> QED
        BY <3>1, <4>2 DEF Pending
    <3> QED
      BY <1>0, <1>3, <1>4, <1>6, <2>1, <3>1, <3>2, InFacts
  <2>2. IBC_TIMEOUT \in 0..IBC_TIMEOUT
    BY <1>0
  <2> QED
    BY <1>0, <1>1, <1>2, <1>3, <1>6, <2>1, <2>2, TryCompleteKeeps
<1>7. CASE state.at = "TransferInFinish" /\ TryComplete(state.amount, state.left, rest)
  <2>1. ASSUME ~early'
        PROVE  /\ state.amount = Proceeds /\ SwapsDone /\ task.route # "LocalRemote"
               /\ OnlyBack(rest.packets)
               /\ \/ ReceivedWith(rest.packets, rest.local)
                  \/ PendingWith(rest.packets, rest.local, state.left)
    <3>1. InInv /\ (Received \/ Pending(state.left))
      BY <1>2, <1>7, <2>1 DEF InInv
    <3> QED
      BY <1>0, <1>3, <1>4, <1>7, <2>1, <3>1, InFacts
  <2> QED
    BY <1>0, <1>1, <1>2, <1>3, <1>7, <2>1, TryCompleteKeeps
<1> QED
  BY <1>5, <1>6, <1>7 DEF Heal, rest

-----------------------------------------------------------------------------
(* The networks *)

(***************************************************************************)
(* An answered packet keeps its identifier, its kind and its coin, and the *)
(* others stay as they are.                                                *)
(***************************************************************************)
LEMMA AnsweredPackets ==
    ASSUME TypeOK, PacketsInv, NEW p \in packets, p.kind # "back",
           NEW status \in {"sent", "acked", "failed"}, NEW result \in Nat
    PROVE  /\ Answered(p, status, result) \in SUBSET PacketType
           /\ IsFiniteSet(Answered(p, status, result))
           /\ \A r, s \in Answered(p, status, result) : r.id = s.id => r = s
           /\ BackOf(Answered(p, status, result)) = Back
           /\ \A r \in Answered(p, status, result) : \E s \in packets : s.id = r.id
           /\ \E q : /\ Answered(p, status, result) = (packets \ {p}) \cup {q}
                     /\ q.kind = p.kind /\ q.coin = p.coin
                     /\ q.status = status /\ q.result = result
<1>0. /\ packets \subseteq PacketType /\ IsFiniteSet(packets) /\ p \in PacketType
      /\ \A r, s \in packets : r.id = s.id => r = s
  BY DEF TypeOK, PacketsInv
<1> DEFINE q == [p EXCEPT !.status = status, !.result = result, !.left = 0]
<1>1. q = [id |-> p.id, kind |-> p.kind, coin |-> p.coin, left |-> 0,
           status |-> status, result |-> result]
  <2> DEFINE q1 == [p EXCEPT !.status = status]
             q2 == [q1 EXCEPT !.result = result]
             q3 == [q2 EXCEPT !.left = 0]
  <2>1. q = q3
    BY Zenon
  <2>2. p = [id |-> p.id, kind |-> p.kind, coin |-> p.coin, left |-> p.left,
             status |-> p.status, result |-> p.result]
    BY <1>0 DEF PacketType
  <2> HIDE DEF q
  <2>3. q1 = [id |-> p.id, kind |-> p.kind, coin |-> p.coin, left |-> p.left,
              status |-> status, result |-> p.result]
    BY <2>2
  <2> HIDE DEF q1
  <2>4. q2 = [id |-> p.id, kind |-> p.kind, coin |-> p.coin, left |-> p.left,
              status |-> status, result |-> result]
    BY <2>3
  <2> HIDE DEF q2
  <2>5. q3 = [id |-> p.id, kind |-> p.kind, coin |-> p.coin, left |-> 0,
              status |-> status, result |-> result]
    BY <2>4
  <2> QED
    BY <2>1, <2>5
<1>2. Answered(p, status, result) = (packets \ {p}) \cup {q}
  BY Zenon DEF Answered
<1> HIDE DEF q
<1>3. /\ q \in PacketType /\ q.id = p.id /\ q.kind = p.kind /\ q.coin = p.coin
      /\ q.status = status /\ q.result = result
  <2>1. 0 \in 0..IBC_TIMEOUT
    BY DexAssumption
  <2> QED
    BY <1>0, <1>1, <2>1 DEF PacketType
<1>4. IsFiniteSet((packets \ {p}) \cup {q})
  BY <1>0, FS_RemoveElement, FS_AddElement
<1>5. \A r, s \in (packets \ {p}) \cup {q} : r.id = s.id => r = s
  BY <1>0, <1>3
<1>6. BackOf((packets \ {p}) \cup {q}) = Back
  BY <1>3 DEF BackOf, Back
<1>7. \A r \in (packets \ {p}) \cup {q} : \E s \in packets : s.id = r.id
  BY <1>3
<1> QED
  BY <1>0, <1>2, <1>3, <1>4, <1>5, <1>6, <1>7

(***************************************************************************)
(* What an answer on its way means to the contract, which does not know of *)
(* it yet.                                                                 *)
(***************************************************************************)
LEMMA AnswerOnItsWay ==
    ASSUME DexInv, NEW p \in packets, p.kind # "back",
           NEW status \in {"sent", "acked", "failed"}, NEW result \in Nat,
           packets' = Answered(p, status, result), UNCHANGED <<state, early>>
    PROVE  /\ PacketsInv' /\ packets' \subseteq PacketType /\ Back' = Back
           /\ \A r \in packets' : r \in packets \/ (r.kind = p.kind /\ r.status = status)
           /\ ~early => \E q : /\ q.kind = p.kind /\ q.coin = p.coin
                               /\ q.status = status /\ q.result = result
                               /\ Own' = {q} /\ ~Delivering'
                               /\ Done' <=> status = "acked"
<1>1. TypeOK /\ PacketsInv
  BY DEF DexInv
<1>2. /\ packets' \in SUBSET PacketType /\ IsFiniteSet(packets')
      /\ \A r, s \in packets' : r.id = s.id => r = s
      /\ BackOf(packets') = Back
  BY <1>1, AnsweredPackets
<1>3. PICK q : /\ packets' = (packets \ {p}) \cup {q}
               /\ q.kind = p.kind /\ q.coin = p.coin
               /\ q.status = status /\ q.result = result
  BY <1>1, AnsweredPackets
<1>4. PacketsInv' /\ Back' = Back
  BY <1>2 DEF PacketsInv, Back, BackOf
<1>5. ASSUME ~early
      PROVE  /\ Own' = {q} /\ ~Delivering' /\ (Done' <=> status = "acked")
  <2>1. OwnOf(packets \ {p}) = {} /\ ~Delivering
    BY <1>5, OwnAlone
  <2>2. Own' = {q} /\ ~Delivering'
    BY <1>3, <2>1 DEF Own, OwnOf, Delivering
  <2> QED
    BY <1>3, <2>2 DEF Done
<1> QED
  BY <1>2, <1>3, <1>4, <1>5

(***************************************************************************)
(* The interchain account is opened.                                       *)
(***************************************************************************)
LEMMA ExecuteOpenKeeps ==
    ASSUME DexInv, NEW p, ExecuteOpen(p)
    PROVE  DexInv'
<1>0. /\ TypeOK /\ OutInv /\ (~early => InInv)
  BY DEF DexInv
<1>1. /\ p \in packets /\ p.kind = "open" /\ 0 \in Nat
      /\ packets' = Answered(p, "acked", 0)
      /\ UNCHANGED <<state, task, local, dex, alarm, swapped, given, early>>
  BY DEF ExecuteOpen
<1>2. /\ PacketsInv' /\ packets' \subseteq PacketType /\ Back' = Back
      /\ ~early => \E q : q.kind = "open" /\ Own' = {q} /\ ~Delivering'
  BY <1>1, AnswerOnItsWay
<1>3. TypeOK'
  BY <1>0, <1>1, <1>2 DEF TypeOK
<1>4. CASE early
  <2>1. state.at = "SwapExactIn" => swapped # << >>
    BY <1>0, <1>1 DEF OutInv
  <2> QED
    BY <1>0, <1>1, <1>2, <1>3, <1>4, <2>1, EarlyKept DEF TypeOK, OutInv
<1>5. CASE ~early
  <2>1. state.at = "OpenIca"
    BY <1>1, <1>5, OwnAlone
  <2>2. Awaits("open")'
    BY <1>2, <1>5 DEF Awaits
  <2>3. CoinsSplit({}, AllCoins)' = CoinsSplit({}, AllCoins)
    BY <1>1 DEF CoinsSplit, Given, CoinsAt, AllCoins
  <2>4. OutInv'
    BY <1>0, <1>1, <1>2, <2>1, <2>2, <2>3 DEF OutInv
  <2>5. InInv'
    BY <1>1, <2>1 DEF InInv
  <2> QED
    BY <1>2, <1>3, <2>4, <2>5 DEF DexInv
<1> QED
  BY <1>4, <1>5

(***************************************************************************)
(* A coin arrives on the DEX.                                              *)
(***************************************************************************)
LEMMA ExecuteOutKeeps ==
    ASSUME DexInv, NEW p, ExecuteOut(p)
    PROVE  DexInv'
<1>0. /\ TypeOK /\ OutInv /\ (~early => InInv) /\ task \in Tasks
      /\ dex \in [Currencies -> Nat] /\ packets \subseteq PacketType
  BY DEF DexInv, TypeOK
<1>1. /\ p \in packets /\ p.kind = "out" /\ p.status = "sent" /\ 0 \in Nat
      /\ packets' = Answered(p, "acked", 0)
      /\ dex' = [dex EXCEPT ![p.coin.cur] = @ + p.coin.amount]
      /\ UNCHANGED <<state, task, local, alarm, swapped, given, early>>
  BY DEF ExecuteOut, InTime
<1>2. /\ PacketsInv' /\ packets' \subseteq PacketType /\ Back' = Back
      /\ ~early => \E q : /\ q.kind = "out" /\ q.coin = p.coin /\ Own' = {q}
                          /\ ~Delivering' /\ Done'
  BY <1>1, AnswerOnItsWay
<1>3. /\ dex' \in [Currencies -> Nat]
      /\ \A c \in Currencies : dex'[c] =
             dex[c] + IF p.coin.cur = c THEN p.coin.amount ELSE 0
  <2>1. p.coin.cur \in Currencies /\ p.coin.amount \in Nat
    BY <1>0, <1>1 DEF PacketType
  <2> QED
    BY <1>0, <1>1, <2>1
<1>4. TypeOK'
  BY <1>0, <1>1, <1>2, <1>3 DEF TypeOK
<1>5. CASE early
  <2>1. state.at = "SwapExactIn" => swapped # << >>
    BY <1>0, <1>1 DEF OutInv
  <2> QED
    BY <1>0, <1>1, <1>2, <1>4, <1>5, <2>1, EarlyKept DEF TypeOK, OutInv
<1>6. CASE ~early
  <2> DEFINE i == state.coin_index
             n == Len(task.coins)
  <2>1. state.at = "TransferOut" /\ p.coin = task.coins[i] /\ ~Done
    BY <1>1, <1>6, OwnAlone
  <2>2. i \in AllCoins /\ CoinsSplit(1..(i - 1), (i + 1)..n)
    BY <1>0, <2>1 DEF OutInv
  <2>3. CoinsSplit(1..i, (i + 1)..n)'
    <3>1. \A S, c : CoinsAt(S, c)' = CoinsAt(S, c) /\ Given(c)' = Given(c)
      BY <1>1 DEF CoinsAt, Given
    <3>2. ASSUME NEW c \in Currencies
          PROVE  dex'[c] = Held[c] + CoinsAt(1..i, c)
      <4> DEFINE a == IF task.coins[i].cur = c THEN task.coins[i].amount ELSE 0
      <4>1. /\ CoinsAt(1..i, c) = CoinsAt(1..(i - 1), c) + a
            /\ a \in Nat /\ CoinsAt(1..(i - 1), c) \in Nat
        BY <1>0, <2>2, CoinsAtNext
      <4>2. dex'[c] = dex[c] + a
        BY <1>3, <2>1
      <4>3. dex[c] = Held[c] + CoinsAt(1..(i - 1), c) /\ Held[c] \in Nat
        BY <2>2, DexAssumption DEF CoinsSplit, Given
      <4> HIDE DEF a
      <4> QED
        BY <4>1, <4>2, <4>3
    <3> HIDE DEF n
    <3>3. \A c \in Currencies : local[c] = Given(c) + CoinsAt((i + 1)..n, c)
      BY <2>2 DEF CoinsSplit, n
    <3> QED
      BY <1>1, <3>1, <3>2, <3>3 DEF CoinsSplit, n
  <2>4. Awaits("out")'
    BY <1>2, <1>6 DEF Awaits
  <2>5. Done' /\ Own' # {} /\ \A q \in Own' : q.coin = task.coins[i]
    BY <1>2, <1>6, <2>1
  <2>6. OutInv'
    BY <1>0, <1>1, <1>2, <2>1, <2>2, <2>3, <2>4, <2>5 DEF OutInv, AllCoins
  <2>7. InInv'
    BY <1>1, <2>1 DEF InInv
  <2> QED
    BY <1>2, <1>4, <2>6, <2>7 DEF DexInv
<1> QED
  BY <1>5, <1>6

(***************************************************************************)
(* A transfer back adds its amount to the refunds due.                     *)
(***************************************************************************)
LEMMA RefundsAdded ==
    ASSUME NEW pending \in SUBSET PacketType, IsFiniteSet(pending),
           NEW np \in PacketType, np.kind = "back", np \notin pending
    PROVE  /\ RefundsOf(pending \cup {np}) = RefundsOf(pending) + np.coin.amount
           /\ RefundsOf(pending) \in Nat
<1> DEFINE S == BackOf(pending)
           f == [p \in S |-> p.coin.amount]
           g == [p \in S \cup {np} |-> p.coin.amount]
<1>1. BackOf(pending \cup {np}) = S \cup {np} /\ np \notin S
  BY DEF BackOf
<1>2. IsFiniteSet(S)
  BY FS_Subset DEF BackOf
<1>3. \A p \in S \cup {np} : p.coin.amount \in Nat
  BY DEF BackOf, PacketType
<1> HIDE DEF S
<1>4. /\ \A p \in S \cup {np} : g[p] \in Int /\ g[p] \in Nat
      /\ \A p \in S : f[p] = g[p] /\ f[p] \in Nat
      /\ g[np] = np.coin.amount
  BY <1>3
<1>5. DOMAIN f = S /\ DOMAIN g = S \cup {np}
  OBVIOUS
<1> HIDE DEF f, g
<1>6. SumFunctionOnSet(g, S \cup {np}) = SumFunctionOnSet(g, S) + g[np]
  BY <1>1, <1>2, <1>4, SumInsert
<1>7. SumFunctionOnSet(f, S) = SumFunctionOnSet(g, S)
  BY <1>2, <1>4, SumSame
<1>8. SumFunctionOnSet(f, S) \in Nat
  BY <1>2, <1>4, SumNat
<1>9. SumFunction(f) = SumFunctionOnSet(f, S) /\ SumFunction(g) = SumFunctionOnSet(g, S \cup {np})
  BY <1>5 DEF SumFunction
<1>10. RefundsOf(pending) = SumFunction(f) /\ RefundsOf(pending \cup {np}) = SumFunction(g)
  BY <1>1 DEF RefundsOf, f, g, S
<1> QED
  BY <1>4, <1>6, <1>7, <1>8, <1>9, <1>10

(***************************************************************************)
(* What is to be refunded is a number.                                     *)
(***************************************************************************)
LEMMA RefundsNat ==
    ASSUME TypeOK, PacketsInv
    PROVE  Refunds \in Nat
<1> DEFINE f == [p \in Back |-> p.coin.amount]
<1>1. IsFiniteSet(Back)
  BY FS_Subset DEF PacketsInv, Back
<1>2. \A p \in Back : p.coin.amount \in Nat
  BY DEF TypeOK, Back, PacketType
<1>3. DOMAIN f = Back /\ \A p \in Back : f[p] \in Nat
  BY <1>2
<1> HIDE DEF f
<1>4. SumFunctionOnSet(f, Back) \in Nat
  BY <1>1, <1>3, SumNat
<1> QED
  BY <1>3, <1>4 DEF Refunds, SumFunction, f

(***************************************************************************)
(* The swap takes the coins of the task and yields.                        *)
(***************************************************************************)
LEMMA ExecuteSwapKeeps ==
    ASSUME DexInv, NEW p, NEW out \in SwapOuts, ExecuteSwap(p, out)
    PROVE  DexInv'
<1>0. /\ TypeOK /\ OutInv /\ (~early => InInv) /\ task \in Tasks
      /\ dex \in [Currencies -> Nat] /\ packets \subseteq PacketType
      /\ swapped \in Seq(SwapOuts) /\ out \in Nat /\ Out \in Currencies
      /\ Held[Out] \in Nat
  BY DexAssumption DEF DexInv, TypeOK
<1>1. /\ p \in packets /\ p.kind = "swap" /\ p.status = "sent"
      /\ \A c \in Currencies : dex[c] >= SwapInput(c)
      /\ packets' = Answered(p, "acked", out)
      /\ dex' = [c \in Currencies |->
                   dex[c] - SwapInput(c) + IF c = Out THEN out ELSE 0]
      /\ swapped' = Append(swapped, out)
      /\ UNCHANGED <<state, task, local, alarm, given, early>>
  BY DEF ExecuteSwap, InTime
<1>2. /\ PacketsInv' /\ packets' \subseteq PacketType /\ Back' = Back
      /\ ~early => \E q : /\ q.kind = "swap" /\ q.result = out /\ q.status = "acked"
                          /\ Own' = {q} /\ ~Delivering'
  BY <1>0, <1>1, AnswerOnItsWay
<1>3. \A c \in Currencies : SwapInput(c) \in Nat
  <2>1. \A c \in Currencies : AmountOf(task.coins, c) \in Nat
    BY <1>0, AmountsNat
  <2> QED
    BY <2>1 DEF SwapInput
<1>4. dex' \in [Currencies -> Nat] /\ dex'[Out] = dex[Out] + out
  <2>1. \A c \in Currencies :
            dex[c] - SwapInput(c) + (IF c = Out THEN out ELSE 0) \in Nat
    BY <1>0, <1>1, <1>3
  <2>2. SwapInput(Out) = 0
    BY DEF SwapInput
  <2> QED
    BY <1>0, <1>1, <2>1, <2>2
<1>5. swapped' \in Seq(SwapOuts) /\ swapped' # << >>
  <2>1. Append(swapped, out) \in Seq(SwapOuts) /\ Len(Append(swapped, out)) = Len(swapped) + 1
    BY <1>0
  <2>2. Len(swapped) \in Nat
    BY <1>0
  <2>3. Len(<< >>) = 0
    OBVIOUS
  <2> QED
    BY <1>1, <2>1, <2>2, <2>3
<1>6. TypeOK'
  BY <1>0, <1>1, <1>2, <1>4, <1>5 DEF TypeOK
<1>7. CASE early
  BY <1>0, <1>1, <1>2, <1>5, <1>6, <1>7, EarlyKept DEF TypeOK, OutInv
<1>8. CASE ~early
  <2>1. state.at = "SwapExactIn" /\ ~Done
    BY <1>1, <1>8, OwnAlone
  <2>2. InInv /\ Back = {}
    BY <1>0, <1>8, <2>1 DEF InInv
  <2>3. swapped = << >>
    BY <2>1, <2>2 DEF InInv, Done
  <2>4. swapped' = <<out>>
    BY <1>1, <2>3
  <2>5. CoinsSplit(AllCoins, {}) /\ task.route # "TransferIn"
    BY <1>0, <2>1, <2>3 DEF OutInv
  <2>6. /\ dex[Out] = Held[Out] + Filtered(task.coins) /\ local[Out] = given
        /\ Filtered(task.coins) \in Nat
    <3>1. /\ CoinsAt(AllCoins, Out) = AmountOf(task.coins, Out)
          /\ Given(Out) + CoinsAt({}, Out) = Given(Out)
          /\ AmountOf(task.coins, Out) \in Nat
      BY <1>0, AmountsNat, GivenAlone
    <3> QED
      BY <1>0, <2>5, <3>1 DEF CoinsSplit, Given, Filtered
  <2>7. Proceeds' = Filtered(task.coins) + out
    BY <1>1, <2>4, <2>5 DEF Proceeds, Filtered
  <2>8. local'[Out] = given' /\ dex'[Out] = Held[Out] + Proceeds'
    <3>1. local' = local /\ given' = given
      BY <1>1
    <3>2. dex'[Out] = Held[Out] + (Filtered(task.coins) + out)
      BY <1>0, <1>4, <2>6
    <3> QED
      BY <2>6, <2>7, <3>1, <3>2
  <2>9. OutInv'
    BY <1>0, <1>1, <1>5, <2>1 DEF OutInv
  <2>10. Awaits("swap")' /\ \E q \in Own' : q.status = "acked" /\ swapped' = <<q.result>>
    BY <1>2, <1>8, <2>4 DEF Awaits
  <2>11. Len(swapped') <= 1
    BY <2>4
  <2>12. state'.at = "SwapExactIn" /\ Back' = {}
    BY <1>1, <1>2, <2>1, <2>2
  <2>13. InInv'
    BY <2>8, <2>10, <2>11, <2>12 DEF InInv
  <2> QED
    BY <1>2, <1>6, <2>9, <2>13 DEF DexInv
<1> QED
  BY <1>7, <1>8

(***************************************************************************)
(* The ICA transfers back: unless healed early, no other transfer back can *)
(* be received any more.                                                   *)
(***************************************************************************)
LEMMA ExecuteInKeeps ==
    ASSUME DexInv, NEW p, ExecuteIn(p)
    PROVE  DexInv'
<1> DEFINE others == Answered(p, "acked", 0)
           np == NewPacket(packets, "back", p.coin, p.left)
<1>0. /\ TypeOK /\ PacketsInv /\ OutInv /\ (~early => InInv) /\ task \in Tasks
      /\ dex \in [Currencies -> Nat] /\ packets \subseteq PacketType
      /\ Out \in Currencies /\ Held[Out] \in Nat /\ IsFiniteSet(packets)
      /\ IBC_TIMEOUT \in Nat /\ Back \subseteq packets
  BY DexAssumption DEF DexInv, TypeOK, PacketsInv, Back
<1>1. /\ p \in packets /\ p.kind = "in" /\ p.status = "sent" /\ p.left > 0
      /\ dex[Out] >= p.coin.amount /\ HasRoom(packets)
      /\ packets' = others \cup {np}
      /\ dex' = [dex EXCEPT ![Out] = @ - p.coin.amount]
      /\ UNCHANGED <<state, task, local, alarm, swapped, given, early>>
  BY DEF ExecuteIn, InTime
<1>2. /\ p.coin \in [cur : Currencies, amount : Nat] /\ p.left \in 0..IBC_TIMEOUT
      /\ p.coin.amount \in Nat /\ "back" \in Kinds
  BY <1>0, <1>1 DEF PacketType, Kinds
<1>3. /\ others \in SUBSET PacketType /\ IsFiniteSet(others)
      /\ \A r, s \in others : r.id = s.id => r = s
      /\ BackOf(others) = Back
      /\ \A r \in others : \E s \in packets : s.id = r.id
  BY <1>0, <1>1, AnsweredPackets
<1>4. PICK q : /\ others = (packets \ {p}) \cup {q}
               /\ q.kind = "in" /\ q.coin = p.coin /\ q.status = "acked"
  BY <1>0, <1>1, AnsweredPackets
<1>5. Fresh(np, packets)
  BY <1>0, <1>1, <1>2, NewPacketFresh
<1>6. np.kind = "back" /\ np.coin = p.coin /\ np.left = p.left /\ np.status = "sent"
  BY DEF NewPacket
<1> HIDE DEF others, np
<1>7. np \in PacketType /\ Fresh(np, others) /\ np \notin others /\ np \notin Back
  BY <1>0, <1>3, <1>5 DEF Fresh
<1>8. PacketsInv' /\ packets' \subseteq PacketType
  BY <1>1, <1>3, <1>7, FreshAdded
<1>9. Back' = Back \cup {np}
  BY <1>1, <1>3, <1>6 DEF Back, BackOf
<1>10. Refunds' = Refunds + p.coin.amount /\ Refunds \in Nat
  <2>1. /\ RefundsOf(others \cup {np}) = RefundsOf(others) + np.coin.amount
        /\ RefundsOf(others) \in Nat
    BY <1>3, <1>6, <1>7, RefundsAdded
  <2>2. RefundsOf(others) = Refunds
    BY <1>3 DEF RefundsOf, Refunds
  <2>3. Refunds' = RefundsOf(others \cup {np})
    BY <1>1 DEF Refunds, RefundsOf, Back, BackOf
  <2> QED
    BY <1>6, <2>1, <2>2, <2>3
<1>11. dex' \in [Currencies -> Nat] /\ dex'[Out] = dex[Out] - p.coin.amount
  BY <1>0, <1>1, <1>2
<1>12. TypeOK'
  BY <1>0, <1>1, <1>8, <1>11 DEF TypeOK
<1>13. CASE early
  <2>1. state.at = "SwapExactIn" => swapped # << >>
    BY <1>0, <1>1 DEF OutInv
  <2> QED
    BY <1>0, <1>1, <1>8, <1>12, <1>13, <2>1, EarlyKept DEF TypeOK, OutInv
<1>14. CASE ~early
  <2>1. /\ state.at = "TransferInInit" /\ ~Done /\ ~Delivering
        /\ p.coin = [cur |-> Out, amount |-> Proceeds]
        /\ OwnOf(packets \ {p}) = {}
    BY <1>1, <1>14, OwnAlone
  <2>2. InInv /\ Pending(0)
    BY <1>0, <1>14, <2>1 DEF InInv
  <2>3. Own' = {q} /\ ~Delivering'
    BY <1>1, <1>4, <1>6, <2>1 DEF Own, OwnOf, Delivering
  <2>4. Done' /\ Awaits("in")'
    BY <1>4, <2>3 DEF Done, Awaits
  <2>5. Proceeds' = Proceeds
    BY <1>1 DEF Proceeds, Filtered
  <2>6. Pending(IBC_TIMEOUT)'
    <3>1. /\ \A r \in Back : r.left <= 0 /\ r.left \in Nat
          /\ local[Out] = given /\ dex[Out] + Refunds = Held[Out] + Proceeds
      BY <1>0, <2>2 DEF Pending, PacketType
    <3>2. \A r \in Back' : r = np \/ (r.left = 0)
      BY <1>9, <3>1
    <3>3. np.left <= IBC_TIMEOUT /\ 0 <= IBC_TIMEOUT
      BY <1>0, <1>2, <1>6
    <3>4. /\ \A r \in Back' : r.left <= IBC_TIMEOUT
          /\ \A r, s \in Back' : r.left > 0 /\ s.left > 0 => r = s
      BY <3>2, <3>3
    <3>5. dex'[Out] + Refunds' = dex[Out] + Refunds
      BY <1>0, <1>2, <1>10, <1>11
    <3> QED
      BY <1>1, <2>5, <3>1, <3>4, <3>5 DEF Pending
  <2>7. OutInv'
    BY <1>0, <1>1, <2>1 DEF OutInv
  <2>8. /\ \A r \in Own' : r.coin = [cur |-> Out, amount |-> Proceeds']
        /\ \A r \in Back' : /\ r.coin = [cur |-> Out, amount |-> Proceeds']
                            /\ r.status = "sent"
    BY <1>4, <1>6, <1>9, <2>1, <2>2, <2>3, <2>5 DEF InInv
  <2>9. InInv'
    BY <1>1, <2>1, <2>2, <2>3, <2>4, <2>5, <2>6, <2>8 DEF InInv
  <2> QED
    BY <1>8, <1>12, <2>7, <2>9 DEF DexInv
<1> QED
  BY <1>13, <1>14

(***************************************************************************)
(* A transfer back that ends is not refunded any more.                     *)
(***************************************************************************)
LEMMA BackEnded ==
    ASSUME TypeOK, PacketsInv, NEW p \in packets, p.kind = "back",
           packets' = packets \ {p}, UNCHANGED state
    PROVE  /\ PacketsInv' /\ packets' \subseteq PacketType
           /\ Own' = Own /\ Back' = Back \ {p}
           /\ Refunds = Refunds' + p.coin.amount /\ Refunds' \in Nat
           /\ Done' = Done /\ Delivering' = Delivering
<1>1. PacketsInv' /\ packets' \subseteq PacketType
  BY FewerPackets
<1>2. Own' = Own /\ Back' = Back \ {p}
  BY DEF Own, Back
<1>3. /\ p \in PacketType /\ IsFiniteSet(packets \ {p})
      /\ packets \ {p} \in SUBSET PacketType /\ (packets \ {p}) \cup {p} = packets
      /\ p \notin packets \ {p}
  BY FS_RemoveElement DEF TypeOK, PacketsInv
<1> DEFINE fewer == packets \ {p}
<1>4. fewer = packets \ {p}
  OBVIOUS
<1> HIDE DEF fewer
<1>5. /\ RefundsOf(fewer \cup {p}) = RefundsOf(fewer) + p.coin.amount
      /\ RefundsOf(fewer) \in Nat
  BY <1>3, <1>4, RefundsAdded
<1>6. RefundsOf(packets) = Refunds /\ RefundsOf(fewer) = Refunds'
  BY <1>4 DEF RefundsOf, Refunds, BackOf, Back
<1>7. Delivering' = Delivering
  BY DEF Delivering
<1>8. Done' = Done
  BY <1>2, <1>7 DEF Done
<1> QED
  BY <1>1, <1>2, <1>3, <1>4, <1>5, <1>6, <1>7, <1>8

(***************************************************************************)
(* The proceeds arrive at the contract.                                    *)
(***************************************************************************)
LEMMA ReceiveBackKeeps ==
    ASSUME DexInv, NEW p, ReceiveBack(p)
    PROVE  DexInv'
<1>0. /\ TypeOK /\ PacketsInv /\ OutInv /\ (~early => InInv)
      /\ local \in [Currencies -> Nat] /\ packets \subseteq PacketType
      /\ dex \in [Currencies -> Nat]
      /\ Out \in Currencies /\ Held[Out] \in Nat
  BY DexAssumption DEF DexInv, TypeOK
<1>1. /\ p \in packets /\ p.kind = "back" /\ p.left > 0
      /\ packets' = packets \ {p}
      /\ local' = [local EXCEPT ![Out] = @ + p.coin.amount]
      /\ UNCHANGED <<state, task, dex, alarm, swapped, given, early>>
  BY DEF ReceiveBack, InTime
<1>2. /\ PacketsInv' /\ packets' \subseteq PacketType
      /\ Own' = Own /\ Back' = Back \ {p}
      /\ Refunds = Refunds' + p.coin.amount /\ Refunds' \in Nat
      /\ Done' = Done /\ Delivering' = Delivering
  BY <1>0, <1>1, BackEnded
<1>3. p.coin.amount \in Nat /\ \A q \in Back : q.left \in Nat
  BY <1>0, <1>1 DEF PacketType, Back
<1>4. local' \in [Currencies -> Nat] /\ local'[Out] = local[Out] + p.coin.amount
  BY <1>0, <1>1, <1>3
<1>5. TypeOK'
  BY <1>0, <1>1, <1>2, <1>4 DEF TypeOK
<1>6. CASE early
  <2>1. state.at = "SwapExactIn" => swapped # << >>
    BY <1>0, <1>1 DEF OutInv
  <2> QED
    BY <1>0, <1>1, <1>2, <1>5, <1>6, <2>1, EarlyKept DEF TypeOK, OutInv
<1>7. CASE ~early
  <2>1. /\ p.coin = [cur |-> Out, amount |-> Proceeds] /\ p \in Back
        /\ state.at \in {"TransferInInit", "TransferInFinish", "Finished"}
    BY <1>1, <1>7, BackSent
  <2>2. InInv
    BY <1>0, <1>7
  <2>3. Proceeds' = Proceeds /\ Proceeds \in Nat
    BY <1>1, <1>3, <2>1 DEF Proceeds, Filtered
  <2>4. ~Received /\ ~Pending(0)
    BY <1>1, <1>3, <2>1 DEF Received, Pending
  <2>5. ASSUME NEW left, Pending(left) PROVE Received'
    <3>1. /\ \A q \in Back : q.left > 0 => q = p
          /\ local[Out] = given /\ dex[Out] + Refunds = Held[Out] + Proceeds
      BY <1>1, <2>1, <2>5 DEF Pending
    <3>2. \A q \in Back' : q.left = 0
      BY <1>2, <1>3, <3>1
    <3>3. local'[Out] = given' + Proceeds
      BY <1>1, <1>4, <2>1, <2>3, <3>1
    <3>4. p.coin.amount = Proceeds /\ dex'[Out] = dex[Out]
      BY <1>1, <2>1
    <3>5. dex'[Out] + Refunds' = Held[Out]
      BY <1>0, <1>2, <2>3, <3>1, <3>4
    <3> QED
      BY <2>3, <3>2, <3>3, <3>5 DEF Received
  <2>6. OutInv'
    BY <1>0, <1>1, <2>1 DEF OutInv
  <2>7. \A q \in Back' : /\ q.coin = [cur |-> Out, amount |-> Proceeds']
                         /\ q.status = "sent"
    BY <1>2, <2>1, <2>2, <2>3 DEF InInv
  <2>8. CASE state.at = "TransferInInit"
    <3>1. Done /\ Received'
      BY <2>2, <2>4, <2>5, <2>8 DEF InInv
    <3>2. Awaits("in")'
      BY <1>2, <2>2, <2>8 DEF InInv, Awaits
    <3>3. InInv'
      BY <1>1, <1>2, <2>2, <2>3, <2>7, <2>8, <3>1, <3>2 DEF InInv
    <3> QED
      BY <1>2, <1>5, <2>6, <3>3 DEF DexInv
  <2>9. CASE state.at = "TransferInFinish"
    <3>1. Received'
      BY <2>2, <2>4, <2>5, <2>9 DEF InInv
    <3>2. InInv'
      BY <1>1, <1>2, <2>2, <2>3, <2>7, <2>9, <3>1 DEF InInv
    <3> QED
      BY <1>2, <1>5, <2>6, <3>2 DEF DexInv
  <2>10. CASE state.at = "Finished"
    <3>1. task.route # "LocalRemote" /\ Received'
      BY <2>1, <2>2, <2>4, <2>5, <2>10 DEF InInv
    <3>2. InInv'
      BY <1>1, <1>2, <2>2, <2>3, <2>7, <2>10, <3>1 DEF InInv
    <3> QED
      BY <1>2, <1>5, <2>6, <3>2 DEF DexInv
  <2> QED
    BY <2>1, <2>8, <2>9, <2>10
<1> QED
  BY <1>6, <1>7

(***************************************************************************)
(* A transfer back that is not received returns to the ICA.                *)
(***************************************************************************)
LEMMA RefundBackKeeps ==
    ASSUME DexInv, NEW p, RefundBack(p)
    PROVE  DexInv'
<1>0. /\ TypeOK /\ PacketsInv /\ OutInv /\ (~early => InInv)
      /\ dex \in [Currencies -> Nat] /\ packets \subseteq PacketType
      /\ Out \in Currencies /\ Held[Out] \in Nat
  BY DexAssumption DEF DexInv, TypeOK
<1>1. /\ p \in packets /\ p.kind = "back"
      /\ packets' = packets \ {p}
      /\ dex' = [dex EXCEPT ![Out] = @ + p.coin.amount]
      /\ UNCHANGED <<state, task, local, alarm, swapped, given, early>>
  BY DEF RefundBack
<1>2. /\ PacketsInv' /\ packets' \subseteq PacketType
      /\ Own' = Own /\ Back' = Back \ {p}
      /\ Refunds = Refunds' + p.coin.amount /\ Refunds' \in Nat
      /\ Done' = Done /\ Delivering' = Delivering
  BY <1>0, <1>1, BackEnded
<1>3. p.coin.amount \in Nat
  BY <1>0, <1>1 DEF PacketType
<1>4. dex' \in [Currencies -> Nat] /\ dex'[Out] = dex[Out] + p.coin.amount
  BY <1>0, <1>1, <1>3
<1>5. TypeOK'
  BY <1>0, <1>1, <1>2, <1>4 DEF TypeOK
<1>6. CASE early
  <2>1. state.at = "SwapExactIn" => swapped # << >>
    BY <1>0, <1>1 DEF OutInv
  <2> QED
    BY <1>0, <1>1, <1>2, <1>5, <1>6, <2>1, EarlyKept DEF TypeOK, OutInv
<1>7. CASE ~early
  <2>1. p \in Back /\ state.at \in {"TransferInInit", "TransferInFinish", "Finished"}
    BY <1>1, <1>7, BackSent
  <2>2. InInv
    BY <1>0, <1>7
  <2>3. Proceeds' = Proceeds
    BY <1>1 DEF Proceeds, Filtered
  <2>4. dex'[Out] + Refunds' = dex[Out] + Refunds
    BY <1>0, <1>2, <1>3, <1>4
  <2>5. /\ Received => Received'
        /\ \A left : Pending(left) => Pending(left)'
    BY <1>1, <1>2, <2>3, <2>4 DEF Received, Pending
  <2>6. OutInv'
    BY <1>0, <1>1, <2>1 DEF OutInv
  <2>7. \A q \in Back' : /\ q.coin = [cur |-> Out, amount |-> Proceeds']
                         /\ q.status = "sent"
    BY <1>2, <2>1, <2>2, <2>3 DEF InInv
  <2>8. CASE state.at = "TransferInInit"
    <3>1. Awaits("in")'
      BY <1>2, <2>2, <2>8 DEF InInv, Awaits
    <3>2. IF Done' THEN Received' \/ Pending(IBC_TIMEOUT)' ELSE Pending(0)'
      BY <1>2, <2>2, <2>5, <2>8 DEF InInv
    <3>3. InInv'
      BY <1>1, <1>2, <2>2, <2>3, <2>7, <2>8, <3>1, <3>2 DEF InInv
    <3> QED
      BY <1>2, <1>5, <2>6, <3>3 DEF DexInv
  <2>9. CASE state.at = "TransferInFinish"
    <3>1. Received' \/ Pending(state.left)'
      <4>1. Received' \/ (\E left : left = state.left /\ Pending(left)')
        BY <2>2, <2>5, <2>9 DEF InInv
      <4> QED
        BY <1>1, <4>1 DEF Pending
    <3>2. InInv'
      BY <1>1, <1>2, <2>2, <2>3, <2>7, <2>9, <3>1 DEF InInv
    <3> QED
      BY <1>2, <1>5, <2>6, <3>2 DEF DexInv
  <2>10. CASE state.at = "Finished"
    <3>1. /\ task.route # "LocalRemote"
          /\ Received' \/ (Pending(IBC_TIMEOUT)' /\ given' >= Proceeds')
      BY <1>1, <2>1, <2>2, <2>3, <2>5, <2>10 DEF InInv
    <3>2. InInv'
      BY <1>1, <1>2, <2>2, <2>3, <2>7, <2>10, <3>1 DEF InInv
    <3> QED
      BY <1>2, <1>5, <2>6, <3>2 DEF DexInv
  <2> QED
    BY <2>1, <2>8, <2>9, <2>10
<1> QED
  BY <1>6, <1>7

(***************************************************************************)
(* A packet is refused.                                                    *)
(***************************************************************************)
LEMMA RejectKeeps ==
    ASSUME DexInv, NEW p, Reject(p)
    PROVE  DexInv'
<1>0. /\ TypeOK /\ PacketsInv /\ OutInv /\ (~early => InInv)
  BY DEF DexInv
<1>1. /\ p \in packets /\ p.kind \in ICAOrTransfer /\ p.kind # "back" /\ 0 \in Nat
      /\ p.status = "sent" /\ packets' = Answered(p, "failed", 0)
      /\ UNCHANGED <<state, task, local, dex, alarm, swapped, given, early>>
  BY DEF Reject, ICAOrTransfer, InTime
<1>2. /\ PacketsInv' /\ packets' \subseteq PacketType /\ Back' = Back
      /\ \A r \in packets' : r \in packets \/ (r.kind = p.kind /\ r.status = "failed")
      /\ ~early => \E q : /\ q.kind = p.kind /\ q.coin = p.coin /\ Own' = {q}
                          /\ ~Delivering' /\ ~Done'
  BY <1>1, AnswerOnItsWay
<1>3. TypeOK'
  BY <1>0, <1>1, <1>2 DEF TypeOK
<1>4. CoinsSplit(AllCoins, {})' = CoinsSplit(AllCoins, {})
  BY <1>1 DEF CoinsSplit, Given, CoinsAt, AllCoins
<1>5. CASE early
  <2>1. ASSUME state.at = "SwapExactIn", swapped' = << >>
        PROVE  /\ swapped = << >> /\ ~Delivering'
               /\ \A r \in packets' : r.kind = "swap" /\ r.status # "acked"
    <3>1. swapped = << >> /\ ~Done /\ \A r \in packets : r.kind = "swap"
      BY <1>0, <1>1, <2>1 DEF OutInv
    <3>2. ~Delivering' /\ \A r \in packets : r.status # "acked"
      BY <1>1, <3>1 DEF Done, Delivering, Own
    <3> QED
      BY <1>1, <1>2, <3>1, <3>2
  <2> QED
    BY <1>0, <1>1, <1>2, <1>3, <1>5, <2>1, EarlyKept DEF TypeOK, OutInv
<1>6. CASE ~early
  <2>1. ~Done /\ ~Delivering /\ InInv
    BY <1>0, <1>1, <1>6, OwnAlone
  <2>2. PICK q : q.kind = p.kind /\ q.coin = p.coin /\ Own' = {q} /\ ~Delivering' /\ ~Done'
    BY <1>2, <1>6
  <2>3. Awaits(p.kind)'
    BY <2>2 DEF Awaits
  <2>4. \/ /\ state.at = "TransferOut" /\ p.kind = "out"
           /\ p.coin = task.coins[state.coin_index]
        \/ state.at = "SwapExactIn" /\ p.kind = "swap"
        \/ /\ state.at = "TransferInInit" /\ p.kind = "in"
           /\ p.coin = [cur |-> Out, amount |-> Proceeds]
    BY <1>1, <1>6, OwnAlone DEF ICAOrTransfer
  <2>5. CASE state.at = "TransferOut" /\ p.kind = "out" /\ p.coin = task.coins[state.coin_index]
    <3> DEFINE i == state.coin_index
    <3>1. i \in AllCoins /\ CoinsSplit(1..(i - 1), (i + 1)..Len(task.coins))
      BY <1>0, <2>1, <2>5 DEF OutInv
    <3>2. CoinsSplit(1..(i - 1), (i + 1)..Len(task.coins))'
      BY <1>1, <3>1 DEF CoinsSplit, Given, CoinsAt
    <3>3. OutInv'
      BY <1>0, <1>1, <1>2, <2>2, <2>3, <2>5, <3>2 DEF OutInv, AllCoins
    <3>4. InInv'
      BY <1>1, <2>5 DEF InInv
    <3> QED
      BY <1>2, <1>3, <3>3, <3>4 DEF DexInv
  <2>6. CASE state.at = "SwapExactIn" /\ p.kind = "swap"
    <3>1. swapped = << >>
      BY <2>1, <2>6 DEF InInv, Done
    <3>2. \A r \in packets' : r.kind = "swap"
      BY <1>0, <1>2, <2>6, <3>1 DEF OutInv
    <3>3. OutInv'
      BY <1>0, <1>1, <1>4, <2>2, <2>6, <3>1, <3>2 DEF OutInv
    <3>4. InInv'
      BY <1>1, <1>2, <2>1, <2>3, <2>6, <3>1 DEF InInv
    <3> QED
      BY <1>2, <1>3, <3>3, <3>4 DEF DexInv
  <2>7. CASE state.at = "TransferInInit" /\ p.kind = "in" /\ p.coin = [cur |-> Out, amount |-> Proceeds]
    <3>1. Proceeds' = Proceeds /\ Refunds' = Refunds
      BY <1>1, <1>2 DEF Proceeds, Filtered, Refunds
    <3>2. Pending(0)
      BY <2>1, <2>7 DEF InInv
    <3>3. Pending(0)'
      BY <1>1, <1>2, <3>1, <3>2 DEF Pending
    <3>4. OutInv'
      BY <1>0, <1>1, <2>7 DEF OutInv
    <3>5. InInv'
      BY <1>1, <1>2, <2>1, <2>2, <2>3, <2>7, <3>1, <3>3 DEF InInv
    <3> QED
      BY <1>2, <1>3, <3>4, <3>5 DEF DexInv
  <2> QED
    BY <2>4, <2>5, <2>6, <2>7
<1> QED
  BY <1>5, <1>6

\* a packet after a unit of time
Ticked == [p \in packets |-> [p EXCEPT !.left = IF @ > 0 THEN @ - 1 ELSE 0]]

(***************************************************************************)
(* Time changes nothing of a packet but the time left.                     *)
(***************************************************************************)
LEMMA TickedPackets ==
    ASSUME TypeOK, PacketsInv,
           packets' = {[p EXCEPT !.left = IF @ > 0 THEN @ - 1 ELSE 0] : p \in packets}
    PROVE  /\ PacketsInv' /\ packets' \subseteq PacketType
           /\ packets' = {Ticked[p] : p \in packets}
           /\ \A p \in packets :
                 /\ Ticked[p].kind = p.kind /\ Ticked[p].coin = p.coin
                 /\ Ticked[p].status = p.status /\ Ticked[p].result = p.result
                 /\ Ticked[p].left = IF p.left > 0 THEN p.left - 1 ELSE 0
                 /\ p.left \in Nat
           /\ \A p, q \in packets : Ticked[p] = Ticked[q] => p = q
           /\ Refunds' = Refunds
<1>0. /\ packets \subseteq PacketType /\ IsFiniteSet(packets) /\ IBC_TIMEOUT \in Nat
      /\ \A p, q \in packets : p.id = q.id => p = q
  BY DexAssumption DEF TypeOK, PacketsInv
<1>1. packets' = {Ticked[p] : p \in packets}
  BY DEF Ticked
<1>2. ASSUME NEW p \in packets
      PROVE  /\ Ticked[p] \in PacketType /\ Ticked[p].id = p.id
             /\ Ticked[p].kind = p.kind /\ Ticked[p].coin = p.coin
             /\ Ticked[p].status = p.status /\ Ticked[p].result = p.result
             /\ Ticked[p].left = IF p.left > 0 THEN p.left - 1 ELSE 0
             /\ p.left \in Nat /\ p.coin.amount \in Nat
  <2> DEFINE l == IF p.left > 0 THEN p.left - 1 ELSE 0
  <2>1. p \in PacketType /\ p.left \in 0..IBC_TIMEOUT /\ p.coin.amount \in Nat
    BY <1>0 DEF PacketType
  <2>2. l \in 0..IBC_TIMEOUT
    BY <1>0, <2>1
  <2>3. Ticked[p] = [p EXCEPT !.left = l]
    BY DEF Ticked
  <2> HIDE DEF l
  <2>4. /\ Ticked[p] \in PacketType /\ Ticked[p].id = p.id
        /\ Ticked[p].kind = p.kind /\ Ticked[p].coin = p.coin
        /\ Ticked[p].status = p.status /\ Ticked[p].result = p.result
        /\ Ticked[p].left = l
    BY <2>1, <2>2, <2>3 DEF PacketType
  <2> QED
    BY <1>0, <2>1, <2>4 DEF l
<1>3. \A p, q \in packets : Ticked[p] = Ticked[q] => p = q
  BY <1>0, <1>2
<1> DEFINE image == {Ticked[p] : p \in packets}
<1>4. IsFiniteSet(image)
  BY <1>0, ImageFinite
<1>5. image \subseteq PacketType /\ \A r, s \in image : r.id = s.id => r = s
  BY <1>0, <1>2
<1>6. PacketsInv' /\ packets' \subseteq PacketType
  <2> HIDE DEF image
  <2>1. packets' = image
    BY <1>1 DEF image
  <2> QED
    BY <1>4, <1>5, <2>1 DEF PacketsInv
<1>7. Refunds' = Refunds
  <2> DEFINE backs == {Ticked[p] : p \in Back}
             f == [p \in Back |-> p.coin.amount]
             g == [p \in backs |-> p.coin.amount]
  <2>1. Back' = backs
    BY <1>1, <1>2 DEF Back
  <2>2. IsFiniteSet(Back) /\ Back \subseteq packets
    BY <1>0, FS_Subset DEF Back
  <2>3. \A p \in Back : f[p] \in Int /\ g[Ticked[p]] = f[p]
    BY <1>2, <2>2
  <2>4. DOMAIN f = Back /\ DOMAIN g = backs
    OBVIOUS
  <2>5. Refunds = SumFunction(f) /\ Refunds' = SumFunction(g)
    BY <2>1 DEF Refunds
  <2> HIDE DEF f, g
  <2>6. SumFunctionOnSet(g, {Ticked[p] : p \in Back}) = SumFunctionOnSet(f, Back)
    BY <1>3, <2>2, <2>3, SumRenamed
  <2> QED
    BY <2>4, <2>5, <2>6 DEF SumFunction
<1> QED
  BY <1>1, <1>2, <1>3, <1>6, <1>7

(***************************************************************************)
(* Time passes by: what cannot be received stays so.                       *)
(***************************************************************************)
LEMMA TickKeeps ==
    ASSUME DexInv, Tick
    PROVE  DexInv'
<1>0. /\ TypeOK /\ PacketsInv /\ OutInv /\ (~early => InInv) /\ state \in StateType
      /\ state.left \in 0..IBC_TIMEOUT /\ IBC_TIMEOUT \in Nat
      /\ Own \subseteq packets /\ Back \subseteq packets
  BY DexAssumption DEF DexInv, TypeOK, StateType, Own, Back
<1>1. /\ packets' = {[p EXCEPT !.left = IF @ > 0 THEN @ - 1 ELSE 0] : p \in packets}
      /\ state' = [state EXCEPT !.left = IF @ > 0 THEN @ - 1 ELSE 0]
      /\ UNCHANGED <<task, local, dex, alarm, swapped, given, early>>
  BY DEF Tick
<1>2. /\ PacketsInv' /\ packets' \subseteq PacketType
      /\ packets' = {Ticked[p] : p \in packets} /\ Refunds' = Refunds
      /\ \A p \in packets :
            /\ Ticked[p].kind = p.kind /\ Ticked[p].coin = p.coin
            /\ Ticked[p].status = p.status /\ Ticked[p].result = p.result
            /\ Ticked[p].left = IF p.left > 0 THEN p.left - 1 ELSE 0
            /\ p.left \in Nat
  BY <1>0, <1>1, TickedPackets
<1>3. /\ state'.at = state.at /\ state'.coin_index = state.coin_index
      /\ state'.amount = state.amount /\ state'.resp = state.resp
      /\ state'.left = (IF state.left > 0 THEN state.left - 1 ELSE 0)
      /\ state' \in StateType
  <2> DEFINE l == IF state.left > 0 THEN state.left - 1 ELSE 0
  <2>1. l \in 0..IBC_TIMEOUT
    BY <1>0
  <2>2. state' = [state EXCEPT !.left = l]
    BY <1>1
  <2> HIDE DEF l
  <2>3. /\ state'.at = state.at /\ state'.coin_index = state.coin_index
        /\ state'.amount = state.amount /\ state'.resp = state.resp
        /\ state'.left = l /\ state' \in StateType
    BY <1>0, <2>1, <2>2 DEF StateType
  <2> QED
    BY <2>3 DEF l
<1>4. TypeOK'
  BY <1>0, <1>1, <1>2, <1>3 DEF TypeOK
<1>5. Own' = {Ticked[p] : p \in Own} /\ Back' = {Ticked[p] : p \in Back}
  BY <1>2 DEF Own, Back
<1>6. Delivering' = Delivering
  BY <1>3 DEF Delivering
<1>7. Done' = Done
  BY <1>0, <1>2, <1>5, <1>6 DEF Done
<1>8. \A kind : Awaits(kind) => Awaits(kind)'
  <2> SUFFICES ASSUME NEW kind, Awaits(kind) PROVE Awaits(kind)'
    OBVIOUS
  <2>1. \A q \in Own' : q.kind = kind /\ Own' = {q}
    <3> SUFFICES ASSUME NEW q \in Own' PROVE q.kind = kind /\ Own' = {q}
      OBVIOUS
    <3>1. PICK p \in Own : q = Ticked[p]
      BY <1>5
    <3>2. Own = {p} /\ p.kind = kind
      BY <3>1 DEF Awaits
    <3> QED
      BY <1>0, <1>2, <1>5, <3>1, <3>2
  <2>2. Delivering' => Own' = {}
    BY <1>5, <1>6 DEF Awaits
  <2> QED
    BY <2>1, <2>2 DEF Awaits
<1>9. /\ \A S, T : CoinsSplit(S, T)' = CoinsSplit(S, T)
      /\ AllCoins' = AllCoins /\ Proceeds' = Proceeds
  BY <1>1 DEF CoinsSplit, Given, CoinsAt, AllCoins, Proceeds, Filtered
<1>10. state.at # "TransferInFinish" => state' = state
  <2> SUFFICES ASSUME state.at # "TransferInFinish" PROVE state' = state
    OBVIOUS
  <2>1. state.left = 0
    BY <1>0 DEF OutInv
  <2>2. state' = [state EXCEPT !.left = 0]
    BY <1>1, <2>1
  <2> QED
    BY <1>0, <2>1, <2>2 DEF StateType
<1>11. OutInv'
  <2>1. CASE state.at = "Idle"
    BY <1>0, <1>1, <1>2, <1>3, <1>5, <1>9, <1>10, <2>1 DEF OutInv
  <2>2. CASE state.at = "OpenIca"
    BY <1>0, <1>1, <1>3, <1>5, <1>8, <1>9, <1>10, <2>2 DEF OutInv
  <2>3. CASE state.at = "TransferOut"
    <3> DEFINE i == state.coin_index
               n == Len(task.coins)
    <3>1. /\ Awaits("out") /\ (\A p \in Own : p.coin = task.coins[i])
          /\ Own = {} => Delivering
          /\ CoinsSplit(IF Done THEN 1..i ELSE 1..(i - 1), (i + 1)..n)
          /\ task.route \in {"LocalLocal", "LocalRemote"} /\ i \in AllCoins
          /\ ~early /\ swapped = << >> /\ Back = {} /\ state.amount = 0 /\ state.left = 0
      BY <1>0, <2>3 DEF OutInv
    <3>2. \A p \in Own' : p.coin = task.coins[i]
      <4> SUFFICES ASSUME NEW p \in Own PROVE Ticked[p].coin = task.coins[i]
        BY <1>5
      <4>1. p.coin = task.coins[i] /\ Ticked[p].coin = p.coin
        BY <1>0, <1>2, <3>1
      <4> QED
        BY <4>1
    <3>3. Own' = {} => Delivering'
      BY <1>5, <1>6, <3>1
    <3>4. Awaits("out")' /\ Back' = {}
      BY <1>5, <1>8, <3>1
    <3>5. UNCHANGED <<state, task, local, dex, swapped, given, early>>
      BY <1>1, <1>10, <2>3
    <3> HIDE DEF n
    <3>6. /\ CoinsSplit(IF Done THEN 1..i ELSE 1..(i - 1), (i + 1)..n)' /\ n' = n
      BY <1>7, <3>1, <3>5 DEF CoinsSplit, Given, CoinsAt, n
    <3> QED
      BY <1>9, <2>3, <3>1, <3>2, <3>3, <3>4, <3>5, <3>6 DEF OutInv, n
  <2>4. CASE state.at = "SwapExactIn"
    <3>1. swapped' = << >> => \A p \in packets' : p.kind = "swap"
      BY <1>0, <1>1, <1>2, <2>4 DEF OutInv
    <3> QED
      BY <1>0, <1>1, <1>3, <1>7, <1>9, <1>10, <2>4, <3>1 DEF OutInv
  <2>5. CASE state.at = "TransferInFinish"
    BY <1>3, <2>5 DEF OutInv
  <2>6. CASE state.at \in {"TransferInInit", "Finished"}
    BY <1>0, <1>3, <1>10, <2>6 DEF OutInv
  <2> QED
    BY <1>0, <2>1, <2>2, <2>3, <2>4, <2>5, <2>6 DEF StateType, States, Awaiting
<1>12. Received => Received'
  <2> SUFFICES ASSUME Received PROVE Received'
    OBVIOUS
  <2>1. \A p \in Back' : p.left = 0
    BY <1>0, <1>2, <1>5 DEF Received
  <2> QED
    BY <1>1, <1>2, <1>9, <2>1 DEF Received
<1>13. ASSUME NEW left \in Nat, NEW next \in Nat,
              next = left \/ (next = IF left > 0 THEN left - 1 ELSE 0), Pending(left)
       PROVE  /\ \A p \in Back' : p.left <= next
              /\ \A p, q \in Back' : p.left > 0 /\ q.left > 0 => p = q
              /\ local'[Out] = given' /\ dex'[Out] + Refunds' = Held[Out] + Proceeds'
  <2>1. /\ \A p \in Back : p.left <= left
        /\ \A p, q \in Back : p.left > 0 /\ q.left > 0 => p = q
        /\ local[Out] = given /\ dex[Out] + Refunds = Held[Out] + Proceeds
    BY <1>13 DEF Pending
  <2>2. \A p \in Back' : p.left <= next
    <3> SUFFICES ASSUME NEW p \in Back PROVE Ticked[p].left <= next
      BY <1>5
    <3>1. p.left \in Nat /\ Ticked[p].left = (IF p.left > 0 THEN p.left - 1 ELSE 0)
      BY <1>0, <1>2
    <3>2. p.left <= left
      BY <2>1
    <3> QED
      BY <1>13, <3>1, <3>2
  <2>3. \A p, q \in Back' : p.left > 0 /\ q.left > 0 => p = q
    <3> SUFFICES ASSUME NEW p \in Back, NEW q \in Back,
                        Ticked[p].left > 0, Ticked[q].left > 0
                 PROVE  p = q
      BY <1>5
    <3>1. p.left > 0 /\ q.left > 0
      BY <1>0, <1>2
    <3> QED
      BY <2>1, <3>1
  <2> QED
    BY <1>1, <1>2, <1>9, <2>1, <2>2, <2>3
<1>14. ASSUME ~early' PROVE InInv'
  <2>0. InInv
    BY <1>0, <1>1, <1>14
  <2>1. ASSUME state.at \in {"TransferInInit", "TransferInFinish", "Finished"}
        PROVE  /\ state'.amount = Proceeds' /\ state'.coin_index = 0
               /\ task'.route = "LocalRemote" => state'.at = "Finished"
               /\ Len(swapped') = IF task'.route = "TransferIn" THEN 0 ELSE 1
               /\ \A p \in Back' : /\ p.coin = [cur |-> Out, amount |-> Proceeds']
                                   /\ p.status = "sent"
    BY <1>0, <1>1, <1>2, <1>3, <1>5, <1>9, <2>0, <2>1 DEF InInv
  <2>2. CASE state.at = "SwapExactIn"
    <3>1. /\ Awaits("swap")' /\ Back' = {} /\ Len(swapped') <= 1
      BY <1>1, <1>5, <1>8, <2>0, <2>2 DEF InInv
    <3>2. swapped' # << >> =>
            /\ \/ Delivering' /\ state'.resp = swapped'
               \/ \E p \in Own' : p.status = "acked" /\ swapped' = <<p.result>>
            /\ local'[Out] = given' /\ dex'[Out] = Held[Out] + Proceeds'
      BY <1>0, <1>1, <1>2, <1>3, <1>5, <1>6, <1>9, <2>0, <2>2 DEF InInv
    <3> QED
      BY <1>3, <2>2, <3>1, <3>2 DEF InInv
  <2>3. CASE state.at = "TransferInInit"
    <3>1. Awaits("in")' /\ \A p \in Own' : p.coin = [cur |-> Out, amount |-> Proceeds']
      BY <1>0, <1>2, <1>5, <1>8, <1>9, <2>0, <2>3 DEF InInv
    <3>2. CASE Done
      <4>1. Received \/ Pending(IBC_TIMEOUT)
        BY <2>0, <2>3, <3>2 DEF InInv
      <4>2. Pending(IBC_TIMEOUT) => Pending(IBC_TIMEOUT)'
        BY <1>0, <1>13 DEF Pending
      <4> QED
        BY <1>3, <1>7, <1>12, <2>1, <2>3, <3>1, <3>2, <4>1, <4>2 DEF InInv
    <3>3. CASE ~Done
      <4>1. Pending(0)
        BY <2>0, <2>3, <3>3 DEF InInv
      <4>2. Pending(0)'
        BY <1>0, <1>13, <4>1 DEF Pending
      <4> QED
        BY <1>3, <1>7, <2>1, <2>3, <3>1, <3>3, <4>2 DEF InInv
    <3> QED
      BY <3>2, <3>3
  <2>4. CASE state.at = "TransferInFinish"
    <3>1. Own' = {} /\ ~Delivering'
      BY <1>5, <1>6, <2>0, <2>4 DEF InInv
    <3>2. Received \/ Pending(state.left)
      BY <2>0, <2>4 DEF InInv
    <3>3. state.left \in Nat /\ state'.left \in Nat
      BY <1>0, <1>3
    <3>4. Pending(state.left) => Pending(state.left)'
      BY <1>3, <1>13, <3>3 DEF Pending
    <3> QED
      BY <1>3, <1>12, <2>1, <2>4, <3>1, <3>2, <3>4 DEF InInv
  <2>5. CASE state.at = "Finished"
    <3>1. Own' = {} /\ ~Delivering'
      BY <1>5, <1>6, <2>0, <2>5 DEF InInv
    <3>2. CASE task.route = "LocalRemote"
      <4>1. Back = {} /\ Pending(0)
        BY <2>0, <2>5, <3>2 DEF InInv
      <4>2. Back' = {} /\ Pending(0)'
        BY <1>0, <1>5, <1>13, <4>1 DEF Pending
      <4> QED
        BY <1>1, <1>3, <2>1, <2>5, <3>1, <3>2, <4>2 DEF InInv
    <3>3. CASE task.route # "LocalRemote"
      <4>1. Pending(IBC_TIMEOUT) => Pending(IBC_TIMEOUT)'
        BY <1>0, <1>13 DEF Pending
      <4>2. Received' \/ (Pending(IBC_TIMEOUT)' /\ given' >= Proceeds')
        BY <1>1, <1>9, <1>12, <2>0, <2>5, <3>3, <4>1 DEF InInv
      <4> QED
        BY <1>1, <1>3, <2>1, <2>5, <3>1, <3>3, <4>2 DEF InInv
    <3> QED
      BY <3>2, <3>3
  <2>6. CASE state.at \in {"Idle", "OpenIca", "TransferOut"}
    BY <1>3, <2>6 DEF InInv
  <2> QED
    BY <1>0, <2>2, <2>3, <2>4, <2>5, <2>6 DEF StateType, States, Awaiting
<1> QED
  BY <1>2, <1>4, <1>11, <1>14 DEF DexInv

(***************************************************************************)
(* Coins of others come to the account: all that is compared with its      *)
(* balance grows by as much.                                               *)
(***************************************************************************)
LEMMA GiveKeeps ==
    ASSUME DexInv, NEW amount \in Gifts, Give(amount)
    PROVE  DexInv'
<1>0. /\ TypeOK /\ PacketsInv /\ OutInv /\ (~early => InInv) /\ task \in Tasks
      /\ local \in [Currencies -> Nat] /\ given \in Nat /\ amount \in Nat
      /\ Out \in Currencies /\ local[Out] \in Nat /\ state.at \in States
  BY DexAssumption DEF DexInv, TypeOK, StateType
<1>1. /\ given' = given + amount
      /\ local' = [local EXCEPT ![Out] = @ + amount]
      /\ UNCHANGED <<state, task, dex, packets, alarm, swapped, early>>
  BY DEF Give
<1>2. /\ local' \in [Currencies -> Nat] /\ given' \in Nat
      /\ local'[Out] = local[Out] + amount
      /\ \A c \in Currencies : c # Out => local'[c] = local[c]
  BY <1>0, <1>1
<1>3. TypeOK' /\ PacketsInv'
  BY <1>0, <1>1, <1>2 DEF TypeOK, PacketsInv
<1>4. /\ Own' = Own /\ Back' = Back /\ Delivering' = Delivering
      /\ AllCoins' = AllCoins /\ Proceeds' = Proceeds
  BY <1>1 DEF Own, Back, Delivering, AllCoins, Proceeds, Filtered
<1>5. Refunds' = Refunds /\ Done' = Done
  BY <1>4 DEF Refunds, Done
<1>6. \A kind : Awaits(kind)' = Awaits(kind)
  BY <1>4 DEF Awaits
<1>7. ASSUME NEW S, NEW T, \A c \in Currencies : CoinsAt(T, c) \in Nat,
             CoinsSplit(S, T)
      PROVE  CoinsSplit(S, T)'
  <2>1. \A U, c : CoinsAt(U, c)' = CoinsAt(U, c)
    BY <1>1 DEF CoinsAt
  <2>2. ASSUME NEW c \in Currencies
        PROVE  local'[c] = Given(c)' + CoinsAt(T, c)
    <3>1. local[c] = Given(c) + CoinsAt(T, c) /\ CoinsAt(T, c) \in Nat
      BY <1>7 DEF CoinsSplit
    <3>2. CASE c = Out
      BY <1>0, <1>1, <1>2, <3>1, <3>2 DEF Given
    <3>3. CASE c # Out
      BY <1>2, <3>1, <3>3 DEF Given
    <3> QED
      BY <3>2, <3>3
  <2>3. \A c \in Currencies : dex'[c] = Held[c] + CoinsAt(S, c)
    BY <1>1, <1>7 DEF CoinsSplit
  <2> QED
    BY <2>1, <2>2, <2>3 DEF CoinsSplit
<1>8. /\ \A c \in Currencies : CoinsAt({}, c) \in Nat /\ CoinsAt(AllCoins, c) \in Nat
      /\ \A i \in AllCoins : \A c \in Currencies :
            CoinsAt((i + 1)..Len(task.coins), c) \in Nat
  <2>1. \A c \in Currencies : CoinsAt({}, c) \in Nat /\ CoinsAt(AllCoins, c) \in Nat
    BY <1>0, AmountsNat
  <2>2. \A i \in AllCoins : \A c \in Currencies :
            CoinsAt((i + 1)..Len(task.coins), c) \in Nat
    BY <1>0, CoinsAtNext
  <2> QED
    BY <2>1, <2>2
<1>9. /\ \A S, T : T \in {{}, AllCoins} /\ CoinsSplit(S, T) => CoinsSplit(S, T)'
      /\ \A S, T, i : /\ i \in AllCoins /\ T = (i + 1)..Len(task.coins)
                      /\ CoinsSplit(S, T)
                      => CoinsSplit(S, T)'
  BY <1>7, <1>8
<1>10. OutInv'
  <2>1. CASE state.at \in {"Idle", "OpenIca", "SwapExactIn"}
    BY <1>0, <1>1, <1>4, <1>5, <1>6, <1>9, <2>1 DEF OutInv
  <2>2. CASE state.at = "TransferOut"
    BY <1>0, <1>1, <1>4, <1>5, <1>6, <1>9, <2>2 DEF OutInv
  <2>3. CASE state.at \in {"TransferInInit", "TransferInFinish", "Finished"}
    BY <1>0, <1>1, <2>3 DEF OutInv
  <2> QED
    BY <1>0, <2>1, <2>2, <2>3 DEF States, Awaiting
<1>11. ASSUME ~early' PROVE InInv'
  <2>1. InInv
    BY <1>0, <1>1, <1>11
  <2>2. local[Out] = given => local'[Out] = given'
    BY <1>1, <1>2
  <2>3. \A left : Pending(left) => Pending(left)'
    BY <1>1, <1>4, <1>5, <2>2 DEF Pending
  <2>4. CASE state.at = "SwapExactIn"
    BY <1>1, <1>4, <1>6, <2>1, <2>2, <2>4 DEF InInv
  <2>5. CASE state.at \in {"TransferInInit", "TransferInFinish", "Finished"}
    <3>1. Proceeds \in Nat
      BY <1>0, <2>1, <2>5, ProceedsPositive DEF InInv, SwapsDone, TypeOK
    <3>2. Received => Received'
      <4>1. ASSUME Received PROVE local'[Out] = given' + Proceeds
        <5>1. local[Out] = given + Proceeds
          BY <4>1 DEF Received
        <5> QED
          BY <1>0, <1>1, <1>2, <3>1, <5>1
      <4> QED
        BY <1>1, <1>4, <1>5, <4>1 DEF Received
    <3>3. given >= Proceeds => given' >= Proceeds'
      BY <1>0, <1>1, <1>4, <3>1
    <3>4. \A left : left = state.left /\ Pending(left) => Pending(state.left)'
      BY <1>1, <2>3 DEF Pending
    <3>5. CASE state.at = "TransferInInit"
      BY <1>1, <1>4, <1>5, <1>6, <2>1, <2>3, <3>2, <3>5 DEF InInv
    <3>6. CASE state.at = "TransferInFinish"
      BY <1>1, <1>4, <2>1, <3>2, <3>4, <3>6 DEF InInv
    <3>7. CASE state.at = "Finished"
      BY <1>1, <1>4, <2>1, <2>3, <3>2, <3>3, <3>7 DEF InInv
    <3> QED
      BY <2>5, <3>5, <3>6, <3>7
  <2>6. CASE state.at \in {"Idle", "OpenIca", "TransferOut"}
    BY <1>1, <2>6 DEF InInv
  <2> QED
    BY <1>0, <2>4, <2>5, <2>6 DEF States, Awaiting
<1> QED
  BY <1>3, <1>10, <1>11 DEF DexInv

-----------------------------------------------------------------------------
(* The theorems *)

(***************************************************************************)
(* Every step keeps the invariant.                                         *)
(***************************************************************************)
LEMMA DexStep == DexInv /\ [Next]_vars => DexInv'
<1> SUFFICES ASSUME DexInv, [Next]_vars PROVE DexInv'
  OBVIOUS
<1>1. CASE Start
  BY <1>1, StartKeeps
<1>2. CASE TimeAlarm
  BY <1>2, TimeAlarmKeeps
<1>3. CASE Heal
  BY <1>3, HealKeeps
<1>4. CASE Tick
  BY <1>4, TickKeeps
<1>5. CASE \E p \in packets : Answer(p)
  <2>1. PICK p \in packets : Answer(p)
    BY <1>5
  <2>2. CASE Response(p)
    BY <2>2, ResponseKeeps
  <2>3. CASE Timeout(p)
    BY <2>3, TimeoutKeeps
  <2>4. CASE Error(p)
    BY <2>4, ErrorKeeps
  <2> QED
    BY <2>1, <2>2, <2>3, <2>4 DEF Answer
<1>6. CASE \E p \in packets : Execute(p)
  <2>1. PICK p \in packets : Execute(p)
    BY <1>6
  <2>2. CASE ExecuteOpen(p)
    BY <2>2, ExecuteOpenKeeps
  <2>3. CASE ExecuteOut(p)
    BY <2>3, ExecuteOutKeeps
  <2>4. CASE ExecuteIn(p)
    BY <2>4, ExecuteInKeeps
  <2>5. CASE ReceiveBack(p)
    BY <2>5, ReceiveBackKeeps
  <2>6. CASE \E out \in SwapOuts : ExecuteSwap(p, out)
    BY <2>6, ExecuteSwapKeeps
  <2> QED
    BY <2>1, <2>2, <2>3, <2>4, <2>5, <2>6 DEF Execute
<1>7. CASE \E p \in packets : Reject(p)
  BY <1>7, RejectKeeps
<1>8. CASE \E p \in packets : RefundBack(p)
  BY <1>8, RefundBackKeeps
<1>9. CASE \E amount \in Gifts : Give(amount)
  BY <1>9, GiveKeeps
<1>10. CASE UNCHANGED vars
  <2>1. UNCHANGED <<state, task, local, dex, packets, alarm, swapped, given, early>>
    BY <1>10 DEF vars
  <2>2. /\ Own' = Own /\ Back' = Back /\ Delivering' = Delivering
        /\ AllCoins' = AllCoins /\ Proceeds' = Proceeds
    BY <2>1 DEF Own, Back, Delivering, AllCoins, Proceeds, Filtered
  <2>3. Refunds' = Refunds /\ Done' = Done
    BY <2>2 DEF Refunds, Done
  <2>4. /\ \A S, T : CoinsSplit(S, T)' = CoinsSplit(S, T)
        /\ \A kind : Awaits(kind)' = Awaits(kind)
    BY <2>1, <2>2 DEF CoinsSplit, Given, CoinsAt, Awaits
  <2>5. Received' = Received /\ \A left : Pending(left)' = Pending(left)
    BY <2>1, <2>2, <2>3 DEF Received, Pending
  <2>6. TypeOK' /\ PacketsInv'
    BY <2>1 DEF DexInv, TypeOK, PacketsInv
  <2>7. OutInv'
    BY <2>1, <2>2, <2>3, <2>4 DEF DexInv, OutInv
  <2>8. ~early' => InInv'
    BY <2>1, <2>2, <2>3, <2>4, <2>5 DEF DexInv, InInv
  <2> QED
    BY <2>6, <2>7, <2>8 DEF DexInv
<1> QED
  BY <1>1, <1>2, <1>3, <1>4, <1>5, <1>6, <1>7, <1>8, <1>9, <1>10 DEF Next

(***************************************************************************)
(* The inductive invariant holds of every behaviour.                       *)
(***************************************************************************)
THEOREM Invariance == Spec => []DexInv
<1>1. Init => DexInv
  BY InitHolds
<1>2. DexInv /\ [Next]_vars => DexInv'
  BY DexStep
<1> QED
  BY <1>1, <1>2, PTL DEF Spec

(***************************************************************************)
(* No transfer and no swap takes more than the account holds, whenever     *)
(* Heal comes.                                                             *)
(***************************************************************************)
THEOREM TypeCorrect == Spec => []TypeOK
<1>1. DexInv => TypeOK
  BY DEF DexInv
<1> QED
  BY <1>1, Invariance, PTL

(***************************************************************************)
(* Unless Heal comes early, the answer to a packet meets the state that    *)
(* sent it.                                                                *)
(***************************************************************************)
THEOREM AnswersAlwaysMeetTheirSender == Spec => []AnswersMeetTheirSender
<1>1. ASSUME DexInv PROVE AnswersMeetTheirSender
  <2> SUFFICES ASSUME ~early, NEW p \in Own
               PROVE  /\ Own = {p} /\ state = Sender(p)
                      /\ p.kind = "out" => p.coin = task.coins[state.coin_index]
    BY DEF AnswersMeetTheirSender
  <2>0. /\ TypeOK /\ OutInv /\ InInv /\ p \in packets /\ p.kind # "back"
        /\ state \in StateType
    BY <1>1 DEF DexInv, TypeOK, Own
  <2>1. /\ Own = {p} /\ ~Delivering
        /\ \/ state.at = "OpenIca" /\ p.kind = "open"
           \/ /\ state.at = "TransferOut" /\ p.kind = "out"
              /\ p.coin = task.coins[state.coin_index]
           \/ state.at = "SwapExactIn" /\ p.kind = "swap"
           \/ /\ state.at = "TransferInInit" /\ p.kind = "in"
              /\ p.coin = [cur |-> Out, amount |-> Proceeds]
    BY <1>1, <2>0, OwnAlone
  <2>2. state = [at |-> state.at, coin_index |-> state.coin_index,
                 amount |-> state.amount, left |-> state.left, resp |-> state.resp]
    BY <2>0 DEF StateType
  <2>3. state.left = 0 /\ state.resp = << >>
    BY <2>0, <2>1 DEF OutInv, Delivering, NoResponse
  <2>4. state = Sender(p)
    <3>1. CASE state.at = "OpenIca" /\ p.kind = "open"
      <4>1. state.coin_index = 0 /\ state.amount = 0
        BY <2>0, <3>1 DEF OutInv
      <4> QED
        BY <2>2, <2>3, <3>1, <4>1 DEF Sender, At, NoResponse
    <3>2. CASE state.at = "TransferOut" /\ p.kind = "out"
      <4>1. state.amount = 0
        BY <2>0, <3>2 DEF OutInv
      <4>2. Sender(p) = [At("TransferOut") EXCEPT !.coin_index = state.coin_index]
        BY <3>2 DEF Sender
      <4> QED
        BY <2>2, <2>3, <3>2, <4>1, <4>2 DEF At, NoResponse
    <3>3. CASE state.at = "SwapExactIn" /\ p.kind = "swap"
      <4>1. state.coin_index = 0 /\ state.amount = 0
        BY <2>0, <3>3 DEF OutInv
      <4> QED
        BY <2>2, <2>3, <3>3, <4>1 DEF Sender, At, NoResponse
    <3>4. CASE /\ state.at = "TransferInInit" /\ p.kind = "in"
               /\ p.coin = [cur |-> Out, amount |-> Proceeds]
      <4>1. state.coin_index = 0 /\ state.amount = p.coin.amount
        BY <2>0, <3>4 DEF InInv
      <4>2. Sender(p) = [At("TransferInInit") EXCEPT !.amount = p.coin.amount]
        BY <3>4 DEF Sender
      <4> QED
        BY <2>2, <2>3, <3>4, <4>1, <4>2 DEF At, NoResponse
    <3> QED
      BY <2>1, <3>1, <3>2, <3>3, <3>4
  <2> QED
    BY <2>1, <2>4
<1> QED
  BY <1>1, Invariance, PTL

(***************************************************************************)
(* However often it is retried, redelivered or healed past a failure, a    *)
(* swap is executed once.                                                  *)
(***************************************************************************)
THEOREM NeverSwappedTwice == Spec => []SwappedOnce
<1>1. ASSUME DexInv PROVE SwappedOnce
  <2> SUFFICES ASSUME ~early PROVE Len(swapped) <= 1
    BY DEF SwappedOnce
  <2>1. OutInv /\ InInv /\ state.at \in States
    BY <1>1 DEF DexInv, TypeOK, StateType
  <2>2. CASE state.at \in {"Idle", "OpenIca", "TransferOut"}
    BY <2>1, <2>2 DEF OutInv
  <2>3. CASE state.at \in {"SwapExactIn", "TransferInInit", "TransferInFinish", "Finished"}
    BY <2>1, <2>3 DEF InInv
  <2> QED
    BY <2>1, <2>2, <2>3 DEF States, Awaiting
<1> QED
  BY <1>1, Invariance, PTL

(***************************************************************************)
(* A swap finds all the coins of the task on the DEX, whenever Heal comes. *)
(***************************************************************************)
THEOREM CoinsAlwaysReachTheDex == Spec => []CoinsReachTheDex
<1>1. ASSUME DexInv PROVE CoinsReachTheDex
  <2> SUFFICES ASSUME state.at = "SwapExactIn", swapped = << >>, NEW c \in Currencies
               PROVE  local[c] = Given(c) /\ dex[c] = Held[c] + AmountOf(task.coins, c)
    BY DEF CoinsReachTheDex
  <2>1. CoinsSplit(AllCoins, {}) /\ task \in Tasks /\ TypeOK
    BY <1>1 DEF DexInv, OutInv, TypeOK
  <2>2. /\ CoinsAt(AllCoins, c) = AmountOf(task.coins, c)
        /\ Given(c) + CoinsAt({}, c) = Given(c)
    BY <2>1, AmountsNat, GivenAlone
  <2> QED
    BY <2>1, <2>2 DEF CoinsSplit
<1> QED
  BY <1>1, Invariance, PTL

(***************************************************************************)
(* Unless Heal comes early, the task finishes with exactly what the swap   *)
(* yielded, and at least that is on the account.  Nothing is lost, and     *)
(* unless others' coins suffice for it, the proceeds themselves are here   *)
(* and nothing of them is on its way a second time.                        *)
(***************************************************************************)
THEOREM AlwaysFinishedWithProceeds == Spec => []FinishedWithProceeds
<1>1. ASSUME DexInv PROVE FinishedWithProceeds
  <2> DEFINE remote == task.route = "LocalRemote"
  <2> SUFFICES ASSUME state.at = "Finished", ~early
               PROVE  /\ state.amount = Proceeds
                      /\ IF remote THEN local[Out] = given ELSE local[Out] >= Proceeds
                      /\ local[Out] + dex[Out] + Refunds = given + Held[Out] + Proceeds
                      /\ remote \/ given < Proceeds => \A p \in packets : ~InTime(p)
                      /\ ~remote /\ given < Proceeds => local[Out] = given + Proceeds
    BY DEF FinishedWithProceeds
  <2>1. InInv /\ Own = {} /\ state.amount = Proceeds
    BY <1>1 DEF DexInv, InInv
  <2>2. \A p \in packets : p \in Back
    BY <2>1 DEF Own, Back
  <2>3. IF remote THEN Back = {} /\ Pending(0)
        ELSE Received \/ (Pending(IBC_TIMEOUT) /\ given >= Proceeds)
    BY <2>1 DEF InInv
  <2>4. /\ Held[Out] \in Nat /\ given \in Nat /\ Proceeds \in Nat /\ dex[Out] \in Nat
    <3>1. /\ TypeOK /\ dex \in [Currencies -> Nat] /\ given \in Nat /\ SwapsDone
          /\ task \in Tasks /\ swapped \in Seq(SwapOuts)
      BY <1>1, <2>1 DEF DexInv, TypeOK, InInv, SwapsDone
    <3> QED
      BY <3>1, ProceedsPositive, DexAssumption
  <2>5. Refunds \in Nat
    <3>1. TypeOK /\ PacketsInv
      BY <1>1 DEF DexInv
    <3> QED
      BY <3>1, RefundsNat
  <2>6. CASE remote
    BY <2>1, <2>2, <2>3, <2>4, <2>5, <2>6 DEF Pending
  <2>7. CASE ~remote /\ Received
    <3>1. \A p \in packets : ~InTime(p)
      BY <2>2, <2>7 DEF Received, InTime
    <3>2. local[Out] = given + Proceeds /\ dex[Out] + Refunds = Held[Out]
      BY <2>7 DEF Received
    <3> QED
      BY <2>1, <2>4, <2>5, <2>7, <3>1, <3>2
  <2>8. CASE ~remote /\ Pending(IBC_TIMEOUT) /\ given >= Proceeds
    <3>1. local[Out] = given /\ dex[Out] + Refunds = Held[Out] + Proceeds
      BY <2>8 DEF Pending
    <3> QED
      BY <2>1, <2>4, <2>5, <2>8, <3>1
  <2> QED
    BY <2>3, <2>6, <2>7, <2>8
<1> QED
  BY <1>1, Invariance, PTL
=============================================================================
