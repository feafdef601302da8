------------------------------ MODULE Topology ------------------------------
(***************************************************************************)
(* tools/topology: which symbol a currency of a DEX has on the host        *)
(* network, the one the contracts run at, and which one on the DEX network.*)
(* A symbol follows from the channels the currency has come through.       *)
(*                                                                         *)
(* A topology t is [host, currency, symbol, networks, channels]: the host  *)
(* network with its native currency, the currencies defined at each other  *)
(* network, and for each network the channel that leads to each of its     *)
(* neighbours.  Networks are numbers, ordered as the keys of a BTreeMap.   *)
(***************************************************************************)
EXTENDS Naturals, Sequences, SequencesExt

\* currency::Native and currency::Ibc
Native(symbol) == [kind |-> "native", symbol |-> symbol]

Ibc(network, currency) ==
    [kind |-> "ibc", network |-> network, currency |-> currency]

\* A result is a set with the value, or empty if the build stops
Failed == {}

\* Channels::get and ConnectedNetworks::get
Connected(t, from, to) ==
    from \in DOMAIN t.channels /\ to \in DOMAIN t.channels[from]

\* symbol::Builder::add_symbol: an IBC symbol is the digest of its path,
\* which is taken to be a symbol of its own for every path
Symbol(channels, symbol) ==
    [prefix |-> IF channels = << >> THEN "" ELSE "ibc/",
     channels |-> channels, symbol |-> symbol]

----------------------------------------------------------------------------
(* host_to_dex: the path from the host network to the DEX network *)

\* Channel::new, an end of it and the counterpart
Channel(t, from, to) ==
    [id |-> t.channels[from][to], counterpart |-> t.channels[to][from]]

\* direct_host_to_dex_path
DirectPath(t, dex) ==
    IF Connected(t, t.host, dex) THEN {<<Channel(t, t.host, dex)>>} ELSE {}

\* initial_host_to_dex_paths
InitialPaths(t) ==
    IF t.host \notin DOMAIN t.channels THEN << >>
    ELSE LET next == SetToSortSeq(DOMAIN t.channels[t.host], <)
         IN  [i \in DOMAIN next |->
                 [network |-> next[i],
                  walked  |-> <<Channel(t, t.host, next[i])>>]]

\* explore_path_breadth_first over the networks not traversed yet
Discovered(t, path, traversed) ==
    LET next == SetToSortSeq(DOMAIN t.channels[path.network] \ traversed, <)
    IN  [i \in DOMAIN next |->
            [network |-> next[i],
             walked  |-> Append(path.walked,
                                Channel(t, path.network, next[i]))]]

\* the loop of indirect_host_to_dex_path
RECURSIVE IndirectPath(_, _, _, _)
IndirectPath(t, dex, paths, traversed) ==
    IF paths = << >> THEN Failed
    ELSE LET found == Discovered(t, Head(paths), traversed)
             atDex == {i \in DOMAIN found : found[i].network = dex}
         IN  IF atDex # {} THEN {found[i].walked : i \in atDex}
             ELSE IndirectPath(t, dex, Tail(paths) \o found,
                     traversed \cup DOMAIN t.channels[Head(paths).network])

FindPath(t, dex) ==
    LET direct == DirectPath(t, dex)
    IN  IF direct # {} THEN direct
        ELSE IndirectPath(t, dex, InitialPaths(t), {t.host})

----------------------------------------------------------------------------
(* currency_resolution *)

\* mutant: the channel of the host's end
ResolveHostCurrencyOwnEnd(t, path, traversed, channels) ==
    [traversed |-> Append(traversed, t.host),
     channels |-> Append(channels, path[1].id),
     symbol |-> t.symbol, host_local |-> TRUE]

\* Topology::resolve_host_currency
ResolveHostCurrency(t, path, traversed, channels) ==
    [traversed |-> Append(traversed, t.host),
     channels |-> Append(channels, path[1].counterpart),
     symbol |-> t.symbol, host_local |-> TRUE]

\* Topology::resolve_non_host_ibc_currency: a step to the network a currency
\* comes from, never back
NonHost(t, traversed, channels, cur) ==
    IF \/ Contains(traversed, cur.network)
       \/ cur.network \notin DOMAIN t.networks
       \/ cur.currency \notin DOMAIN t.networks[cur.network]
    THEN Failed
    ELSE {[traversed |-> Append(traversed, cur.network),
           channels  |-> IF Connected(t, Last(traversed), cur.network)
                         THEN Append(channels,
                                t.channels[Last(traversed)][cur.network])
                         ELSE channels,
           currency  |-> t.networks[cur.network][cur.currency]]}

\* Topology::resolve_dex_side, from the definition at the DEX network to the
\* native currency
RECURSIVE ResolveDexSide(_, _, _, _, _)
ResolveDexSide(t, path, traversed, channels, cur) ==
    CASE cur.kind = "native" ->
             {[traversed |-> traversed, channels |-> channels,
               symbol |-> cur.symbol, host_local |-> FALSE]}
      [] cur.kind = "ibc" /\ cur.network = t.host ->
             IF cur.currency # t.currency THEN Failed
             ELSE {ResolveHostCurrency(t, path, traversed, channels)}
      [] cur.kind = "ibc" /\ cur.network # t.host ->
             UNION {ResolveDexSide(t, path, from.traversed, from.channels,
                                   from.currency) :
                       from \in NonHost(t, traversed, channels, cur)}

\* DexResolvedCurrency::initial_bank_symbol_and_path
InitialBankSymbol(t, path, traversed) ==
    IF Contains(traversed, t.host) THEN << >>
    ELSE [i \in DOMAIN path |-> path[i].id]

\* a currency of the host itself ends the traversal there
BankWindows(t, traversed) ==
    IF Contains(traversed, t.host) THEN << >>
    ELSE [i \in 1 .. Len(traversed) - 1 |-> <<traversed[i], traversed[i+1]>>]

\* DexResolvedCurrency::resolve_bank_side
ResolveBankSide(t, path, ticker, resolved) ==
    LET windows == BankWindows(t, resolved.traversed)
    IN  IF \E i \in DOMAIN windows : ~Connected(t, windows[i][1], windows[i][2])
        THEN Failed
        ELSE {[ticker |-> ticker,
               bank |-> Symbol(
                   InitialBankSymbol(t, path, resolved.traversed) \o
                   [i \in DOMAIN windows |->
                       t.channels[windows[i][1]][windows[i][2]]],
                   resolved.symbol),
               dex |-> Symbol(resolved.channels, resolved.symbol),
               host_local |-> resolved.host_local]}

\* Topology::resolve_currency
ResolveCurrency(t, dex, path, ticker) ==
    UNION {ResolveBankSide(t, path, ticker, resolved) :
              resolved \in ResolveDexSide(t, path, <<dex>>, << >>,
                                          t.networks[dex][ticker])}

\* Topology::currency_definitions: all of the currencies of the DEX, with
\* exactly one of the host's
CurrencyDefinitions(t, dex) ==
    IF dex \notin DOMAIN t.networks THEN Failed
    ELSE LET tickers == DOMAIN t.networks[dex]
             of(path) == [ticker \in tickers |->
                             ResolveCurrency(t, dex, path, ticker)]
             local(defs) == {d \in UNION {defs[x] : x \in tickers} :
                                d.host_local}
         IN  UNION {LET defs == of(path)
                    IN  IF \/ \E x \in tickers : defs[x] = Failed
                           \/ \A d \in local(defs) : local(defs) # {d}
                        THEN Failed
                        ELSE {[host |-> CHOOSE d \in local(defs) : TRUE,
                               dex  |-> UNION {defs[x] : x \in tickers}
                                            \ local(defs)]} :
                    path \in FindPath(t, dex)}
=============================================================================
