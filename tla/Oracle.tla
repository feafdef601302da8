------------------------------- MODULE Oracle -------------------------------
(***************************************************************************)
(* The oracle of a protocol, as a source of prices: feeders come and go    *)
(* and send observations, the governance changes the configuration and the *)
(* swap tree, a new code brings other pools.  Out of the observations the  *)
(* oracle answers the price of each currency of the tree in the base one.  *)
(* (The alarms, which the same contract delivers, are in PriceAlarms.)     *)
(***************************************************************************)
EXTENDS PriceFeeds, SupportedPairs

CONSTANTS
    Currencies,     \* currencies::PaymentGroup
    SwapTrees,      \* human readable, the governance chooses among
    Pools,          \* per code: the pairs <<currency, quote>> with a pool
    MaxTime,        \* bound on the time
    MaxFeeds,       \* bound on the number of price messages
    MaxChanges      \* bound on the number of governance's changes

VARIABLES
    tree,           \* storage "supported_pairs"
    code,           \* the one that the contract runs
    swapTree,       \* history: the human readable tree accepted last
    feeds, changes  \* the bounds' counters

vars == <<feedsVars, tree, code, swapTree, feeds, changes>>

ASSUME OracleAssumption ==
    /\ BaseC \in Currencies /\ StableC \in Currencies
    /\ Pairs \subseteq Currencies \X Currencies
    /\ \A hrt \in SwapTrees : ToSet(SwapPairs(IntoTree(hrt))) \subseteq Pairs
    /\ \A p \in DOMAIN Pools : Pools[p] \subseteq Currencies \X Currencies
    /\ \A msgs \in PriceMessages : \A i \in DOMAIN msgs :
          msgs[i].pair \in Currencies \X Currencies

----------------------------------------------------------------------------
(* Queries.  All of them are at the block time and for the number of       *)
(* feeders registered then.                                                *)

\* The price that is found last on the stack for a currency, 0 if none
OnStack(stack, currency) ==
    LET found == {i \in DOMAIN stack : stack[i].currency = currency}
    IN  IF found = {} THEN 0 ELSE Max(found)

(***************************************************************************)
(* LegCmd::on: a leg extends the price of its quote currency, if that is   *)
(* still on the stack of the prices of the current branch.                 *)
(***************************************************************************)
VisitLeg(acc, leg) ==
    LET i == OnStack(acc.stack, leg[2])
        p == PairPrice(leg)
    IN  IF i = 0 \/ p = NoPrice THEN acc
        ELSE LET priced == [currency |-> leg[1],
                            price    |-> PriceMul(p, acc.stack[i].price)]
             IN  [stack  |-> Append(SubSeq(acc.stack, 1, i), priced),
                  prices |-> Append(acc.prices, priced)]

\* Feeds::all_prices_iter, from LegCmd::new on
AllPrices(nodes) ==
    FoldLeft(VisitLeg,
             [stack  |-> <<[currency |-> BaseC, price |-> Identity]>>,
              prices |-> <<>>],
             SwapPairs(nodes)).prices

\* visit_any_on_currencies: each leg has to have a pool
Resolvable(nodes, pooled) == ToSet(SwapPairs(nodes)) \subseteq pooled

(***************************************************************************)
(* validate_swap_tree: calculates all prices.  It is an error if a leg has *)
(* no pool, but none if a leg has no price.                                *)
(***************************************************************************)
ValidateSwapTree(nodes, pooled) ==
    /\ Resolvable(nodes, pooled)
    /\ \A priced \in ToSet(AllPrices(nodes)) : priced.price # Panic

\* Oracle::try_query_base_price over Feeds::calc_base_price
BasePrice(currency) ==
    PriceAlong(LoadPath(tree, currency), observations, Pools[code],
               config, block_time, TotalRegistered)

\* Oracle::try_query_stable_price
StablePrice(currency) ==
    LET stable == BasePrice(StableC)
        base   == BasePrice(currency)
    IN  CASE stable \in {NoPrice, Panic} -> stable
          [] base \in {NoPrice, Panic} -> base
          [] OTHER -> PriceMul(base, Inv(stable))

----------------------------------------------------------------------------
\* 'instantiate': the feeds and the validated tree
Init ==
    /\ FeedsInit
    /\ code = 1
    /\ \E hrt \in SwapTrees : tree = IntoTree(hrt) /\ swapTree = hrt
    /\ CheckTree(tree) /\ Resolvable(tree, Pools[code])
    /\ feeds = 0 /\ changes = 0

\* SudoMsg, one of a bounded number
Sudo == changes < MaxChanges /\ changes' = changes + 1 /\ UNCHANGED feeds

\* SudoMsg::RegisterFeeder, RemoveFeeder and UpdateConfig
SudoFeeds ==
    /\ Sudo
    /\ \/ \E a \in Accounts : RegisterFeeder(a)
       \/ \E a \in Accounts : RemoveFeeder(a)
       \/ \E c \in PriceConfigs : UpdateConfig(c)
    /\ UNCHANGED <<tree, swapTree, code>>

\* SudoMsg::SwapTree
SwapTree(hrt) ==
    /\ Sudo
    /\ hrt # swapTree
    /\ CheckTree(IntoTree(hrt))
    /\ ValidateSwapTree(IntoTree(hrt), Pools[code])
    /\ tree' = IntoTree(hrt)
    /\ swapTree' = hrt
    /\ UNCHANGED <<feedsVars, code>>

(***************************************************************************)
(* The entry point 'migrate', of a code with pools of its own.  Whether    *)
(* the code may succeed the current one is in Versioning.                  *)
(***************************************************************************)
Migrate(new) ==
    /\ Sudo
    /\ new # code
    /\ ValidateSwapTree(tree, Pools[new])
    /\ code' = new
    /\ UNCHANGED <<feedsVars, tree, swapTree>>

\* ExecuteMsg::FeedPrices, of the pairs of the tree
FeedTree(sender, msgs) ==
    /\ feeds < MaxFeeds /\ feeds' = feeds + 1
    /\ FeedPrices(sender, msgs, ToSet(SwapPairs(tree)))
    /\ UNCHANGED <<tree, swapTree, code, changes>>

\* A new block
Tick ==
    /\ block_time < MaxTime
    /\ NextBlock
    /\ UNCHANGED <<tree, swapTree, code, feeds, changes>>

Next ==
    \/ SudoFeeds
    \/ \E hrt \in SwapTrees : SwapTree(hrt)
    \/ \E new \in DOMAIN Pools : Migrate(new)
    \/ \E a \in Accounts, msgs \in PriceMessages : FeedTree(a, msgs)
    \/ Tick

Spec == Init /\ [][Next]_vars
----------------------------------------------------------------------------
(* Properties, besides those of the prices of pairs in PriceFeeds *)

(***************************************************************************)
(* The two ways to calculate prices agree: the depth-first pass over the   *)
(* swap tree, used for alarms and by query Prices, yields a currency once  *)
(* and with the price that query BasePrice gives, and it yields all        *)
(* currencies that have one even if others on its way have none.  Query    *)
(* StablePrice gives the stable currency the price of one of itself.       *)
(* The two multiply the legs from the other end each, so the last bits of  *)
(* a trimmed product may differ from the third leg on; the trees of the    *)
(* runs have two.                                                          *)
(* (LegCmd, PriceCollect, HrtNode::flatten, try_query_stable_price)        *)
(***************************************************************************)
PricesAgree ==
    LET all == AllPrices(tree)
    IN  /\ \A i, j \in DOMAIN all : all[i].currency = all[j].currency => i = j
        /\ \A c \in Targets(tree) \ {BaseC} :
              LET p == BasePrice(c)
              IN  IF p \in {NoPrice, Panic}
                  THEN \A i \in DOMAIN all : all[i].currency = c => all[i].price = p
                  ELSE [currency |-> c, price |-> p] \in ToSet(all)
        /\ StablePrice(StableC) \in {NoPrice, Panic, Identity}

\* The currency a node is swapped with, over the pool of the node
Hop(x, y, pool) ==
    \E i \in DOMAIN tree \ {ROOT_INDEX} :
        /\ tree[i].value.pool_id = pool
        /\ {x, y} = {TargetAt(tree, i), TargetAt(tree, ParentAt(tree, i))}

(***************************************************************************)
(* The swap path between any two currencies starts from the one, ends at   *)
(* the other, meets no currency twice and goes through the pool of each    *)
(* leg; query SwapTree answers the human readable tree that was set, after *)
(* it has been flattened, stored and built again.                          *)
(* (load_swap_path, used by the swaps of leases and profit; HrtNode)       *)
(***************************************************************************)
SwapPathSound ==
    /\ FromTree(tree) = swapTree
    /\ \A from, to \in Targets(tree) :
        LET path == LoadSwapPath(tree, from, to)
            met  == <<from>> \o [k \in DOMAIN path |-> path[k].target]
        IN  /\ Last(met) = to
            /\ IsInjective(met)
            /\ \A k \in DOMAIN path : Hop(met[k], met[k + 1], path[k].pool_id)

(***************************************************************************)
(* Every configuration that the checks let in, a discount factor of 100%   *)
(* included, allows prices to be computed.                                 *)
(***************************************************************************)
PricesComputable ==
    \A pair \in ToSet(SwapPairs(tree)) : PairPrice(pair) # Panic
=============================================================================
