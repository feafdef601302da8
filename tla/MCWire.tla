------------------------------- MODULE MCWire -------------------------------
(***************************************************************************)
(* Four networks and six currencies.  The DEX is a neighbour of the host   *)
(* network or behind another one; a currency is native to the DEX or comes *)
(* from one or two networks away, the one on the way to the host included. *)
(* The channels of a network are numbered by its neighbours, so that       *)
(* networks have channels of the same number.                              *)
(***************************************************************************)
EXTENDS Wire

\* Networks
Host == 0
Mid == 1
Dex == 2
Far == 3

\* Tickers, which serve as symbols of the native currencies too
Nls == 1
Lpn == 2
L1 == 3
L2 == 4
Pay == 5
Other == 6  \* of the DEX, not of the protocol
MCNotCurrency == 0

Neighbours(edges, n) == {m \in 0..3 : {n, m} \in edges}

ChannelsOf(edges) ==
    [n \in {x \in 0..3 : Neighbours(edges, x) # {}} |->
        [m \in Neighbours(edges, n) |->
            Cardinality({x \in Neighbours(edges, n) : x < m})]]

Graphs == {{{Host, Dex}, {Dex, Far}},
           {{Host, Dex}, {Host, Mid}, {Dex, Mid}, {Dex, Far}},
           {{Host, Dex}, {Dex, Far}, {Far, Mid}},
           {{Host, Mid}, {Mid, Dex}, {Dex, Far}},
           {{Host, Mid}, {Mid, Dex}, {Dex, Far}, {Far, Mid}}}

IsDirect(edges) == {Host, Dex} \in edges

\* Where the first lease currency comes from
Origins(edges) ==
    {"dex"} \cup (IF {Dex, Mid} \in edges THEN {"mid"} ELSE {})
            \cup (IF {Far, Mid} \in edges THEN {"mid through far"} ELSE {})

NetworkDefs(edges, lpnAtFar, origin) ==
    [n \in {Mid, Dex, Far} |->
        CASE n = Mid ->
                [x \in {Nls, L1} |-> IF x = Nls THEN Ibc(Host, Nls)
                                     ELSE Native(L1)]
          [] n = Far ->
                \* a name in use at the DEX too
                [x \in {Lpn, L1, L2} |->
                    CASE x = Lpn -> Native(Lpn)
                      [] x = L1 -> Ibc(Mid, L1)
                      [] x = L2 -> Native(L1)]
          [] n = Dex ->
                [x \in {Nls, Lpn, L1, L2, Pay, Other} |->
                    CASE x = Nls -> IF IsDirect(edges) THEN Ibc(Host, Nls)
                                    ELSE Ibc(Mid, Nls)
                      [] x = Lpn -> IF lpnAtFar THEN Ibc(Far, Lpn)
                                    ELSE Native(Lpn)
                      [] x = L1 -> CASE origin = "dex" -> Native(L1)
                                     [] origin = "mid" -> Ibc(Mid, L1)
                                     [] OTHER -> Ibc(Far, L1)
                      [] x = L2 -> Ibc(Far, L2)
                      [] x \in {Pay, Other} -> Native(x)]]

Topologies ==
    UNION {{[host |-> Host, currency |-> Nls, symbol |-> Nls,
             networks |-> NetworkDefs(edges, lpnAtFar, origin),
             channels |-> ChannelsOf(edges)] :
               lpnAtFar \in BOOLEAN, origin \in Origins(edges)} :
           edges \in Graphs}

Node(pool, currency, children) == Hrt(SwapTarget(pool, currency), children)

Trees ==
    {IntoTree(Node(0, Lpn, <<Node(1, Nls, << >>),
                             Node(2, L1, <<Node(3, L2, << >>)>>),
                             Node(4, Pay, << >>)>>)),
     IntoTree(Node(0, Lpn, <<Node(1, L1, <<Node(2, Nls, << >>),
                                           Node(3, Pay, << >>)>>),
                             Node(4, L2, << >>)>>))}

\* A pool for every edge of the tree, and one with the other currency
PairsOf(tree) ==
    LET edges == {<<TargetAt(tree, ParentAt(tree, i)), TargetAt(tree, i)>> :
                     i \in DOMAIN tree \ {ROOT_INDEX}}
                 \cup {<<Lpn, Other>>, <<Other, L1>>}
    IN  [x \in {e[1] : e \in edges} |-> {e[2] : e \in {d \in edges : d[1] = x}}]

MCBuilds ==
    {[topology |-> t, dex |-> Dex, tree |-> tree, client |-> client,
      protocol |-> [lpn |-> Lpn, stable |-> Lpn, lease |-> {L1, L2},
                    payment_only |-> {Pay}, swap_pairs |-> PairsOf(tree)]] :
        t \in Topologies, tree \in Trees,
        client \in {"astroport", "osmosis"}}

MCPayments == {<< <<Lpn, 3>> >>, << <<L1, 2>> >>,
               << <<MCNotCurrency, 1>>, <<Nls, 2>> >>,
               << <<Pay, 1>>, <<Lpn, 2>>, <<L2, 1>> >>}
=============================================================================
