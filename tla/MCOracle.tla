------------------------------ MODULE MCOracle ------------------------------
(***************************************************************************)
(* An oracle of four currencies, two accounts and times up to a few sample *)
(* periods.  The trees have branches, so that the pass over them returns   *)
(* to an ancestor; two of them are invalid.                                *)
(***************************************************************************)
EXTENDS Oracle

CONSTANTS u, a, b, c

MCCurrencies == {u, a, b, c}

Leaf(pool, currency) == Hrt(SwapTarget(pool, currency), <<>>)
Branch(pool, currency, children) == Hrt(SwapTarget(pool, currency), children)

MCSwapTrees ==
    {\* c beside the branch of a and b
     Branch(0, u, <<Branch(1, a, <<Leaf(2, b)>>), Leaf(3, c)>>),
     \* the branch of b comes first
     Branch(0, u, <<Branch(3, c, <<Leaf(4, b)>>), Leaf(1, a)>>),
     \* a leg without a pool at any code
     Branch(0, u, <<Branch(1, a, <<Leaf(3, c)>>)>>),
     \* a currency twice
     Branch(0, u, <<Branch(1, a, <<Leaf(2, b)>>), Leaf(3, c), Leaf(1, a)>>)}

MCPairs == UNION {ToSet(SwapPairs(IntoTree(hrt))) : hrt \in MCSwapTrees}

\* The second code has lost a pool
MCPools == <<{<<a, u>>, <<b, a>>, <<c, u>>, <<b, c>>},
             {<<a, u>>, <<b, a>>, <<c, u>>}>>

Msg(from, to, amt, quote) == [pair |-> <<from, to>>, price |-> Price(amt, quote)]

\* Amounts whose sums and products do not fit, and a price too low to discount
MCPriceMessages ==
    {<<Msg(a, u, 101, 97)>>, <<Msg(a, u, 89, 250)>>,
     <<Msg(b, c, 16000, 1)>>, <<Msg(b, a, 113, 200), Msg(c, u, 1, 2)>>}

\* All feeders over two periods, or a half of them over three
MCPriceConfigs == {PriceConfig(1000, 1, 2, 500), PriceConfig(500, 1, 3, 750)}

\* The full discount is with more than a sample
MCFullDiscount == {PriceConfig(500, 1, 2, 1000)}

\* The accounts are alike
Symmetry == Permutations(Accounts)
=============================================================================
