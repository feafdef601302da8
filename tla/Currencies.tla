----------------------------- MODULE Currencies -----------------------------
(***************************************************************************)
(* protocol/packages/currencies: the currency types of a protocol, which   *)
(* its build generates from the protocol's description and the topology,   *)
(* and platform/packages/currency: how they are found by a symbol.         *)
(*                                                                         *)
(* A description p is [lpn, stable, lease, payment_only, swap_pairs]:      *)
(* tickers, sets of tickers, and for a ticker the currencies it has a pool *)
(* with.  Tickers are numbers, ordered as in a BTreeSet.  A type is known  *)
(* by the module that defines it and its ticker.                           *)
(***************************************************************************)
EXTENDS Topology, FiniteSets

\* protocol::Protocol::is_protocol_currency
IsProtocolCurrency(p, host, ticker) ==
    \/ ticker \in {host.ticker, p.lpn}
    \/ ticker \in p.lease \cup p.payment_only

\* protocol::Protocol::dex_currencies
DexCurrencies(p, defs) ==
    {d \in defs.dex : IsProtocolCurrency(p, defs.host, d.ticker)}

\* swap_pairs::SwapPairs and PairTargets, as deserialized
SwapPairsValid(pairs) == \A from \in DOMAIN pairs : from \notin pairs[from]
PairTargetsValid(pairs) == \A from \in DOMAIN pairs : pairs[from] # {}

\* currencies_tree::CurrenciesTree::process_targets and children
Children(p, host, ticker) ==
    IF ticker \in DOMAIN p.swap_pairs /\ IsProtocolCurrency(p, host, ticker)
    THEN {x \in p.swap_pairs[ticker] : IsProtocolCurrency(p, host, x)}
    ELSE {}

\* mutant: the two ends of a pool taken one for the other
ParentsOfTarget(p, host, ticker) == Children(p, host, ticker)

\* currencies_tree::CurrenciesTree::parents
Parents(p, host, ticker) ==
    {x \in DOMAIN p.swap_pairs : ticker \in Children(p, host, x)}

----------------------------------------------------------------------------
(* sources: the generated modules *)

Type(module, ticker) == [module |-> module, ticker |-> ticker]

\* resolved_currency::CurrentModule, of a currency of the DEX
ModuleOf(p, ticker) ==
    CASE ticker = p.lpn -> "lpn"
      [] ticker # p.lpn /\ ticker \in p.lease -> "lease"
      [] OTHER -> "payment_only"

\* resolved_currency::ResolvedCurrency::resolve
Resolve(p, defs, ticker) ==
    LET atDex == {d \in DexCurrencies(p, defs) : d.ticker = ticker}
    IN  IF atDex # {}
        THEN IF ticker \in {p.lpn} \cup p.lease \cup p.payment_only
             THEN {[type |-> Type(ModuleOf(p, ticker), ticker), def |-> d] :
                      d \in atDex}
             ELSE Failed
        ELSE IF ticker = defs.host.ticker
             THEN {[type |-> Type("native", ticker), def |-> defs.host]}
             ELSE Failed

\* generator::Builder, whether a module defines who its currencies' buddies
\* are; the one of Lpn is not generated and has none
WithPairs(module) == module # "lpn"

\* pairs_group::VisitEntryTemplate::apply: the type a ticker stands for
VisitEntry(p, defs, ticker) == {r.type : r \in Resolve(p, defs, ticker)}

\* pairs_group::pairs_group, PairsGroupTemplate::apply
Buddies(p, defs, ticker) ==
    UNION {VisitEntry(p, defs, x) : x \in Parents(p, defs.host, ticker)}

\* generator::PairsGroup, generated or not
PairsGroup(module, p, defs, ticker) ==
    IF WithPairs(module) THEN Buddies(p, defs, ticker) ELSE {}

\* generator::InPoolWith::in_pool_with
InPoolWith(p, defs, ticker) ==
    UNION {VisitEntry(p, defs, x) : x \in Children(p, defs.host, ticker)}

\* currency_definition::currency_definition: the names of a currency
Definition(ticker, currency) ==
    [ticker |-> ticker, bank |-> currency.bank, dex |-> currency.dex]

\* currency_definition::generate_entry_unchecked
GenerateEntryUnchecked(module, p, defs, ticker) ==
    {[type    |-> Type(module, ticker), def |-> Definition(ticker, r.def),
      buddies |-> PairsGroup(module, p, defs, ticker),
      pools   |-> InPoolWith(p, defs, ticker)] :
         r \in Resolve(p, defs, ticker)}

\* currency_definition::generate_entry: a module's definition of a currency
GenerateEntry(module, p, defs, ticker) ==
    LET paired == Children(p, defs.host, ticker)
                    \cup Parents(p, defs.host, ticker)
    IN  IF \/ ticker \in paired
           \/ \E x \in paired : Resolve(p, defs, x) = Failed
        THEN Failed
        ELSE GenerateEntryUnchecked(module, p, defs, ticker)

\* generate::per_currency_sources, in the order of the tickers
PerCurrencySources(module, p, defs, tickers) ==
    LET in == SetToSortSeq(tickers, <)
    IN  [i \in DOMAIN in |-> GenerateEntry(module, p, defs, in[i])]

\* NonFinalizedSources::try_fold: all of the entries, or none
TryFold(entries) ==
    IF Failed \in Range(entries) THEN Failed
    ELSE {[i \in DOMAIN entries |-> CHOOSE e \in entries[i] : TRUE]}

\* generate::generate_sources and writer::Writer::generate_and_commit
GenerateSources(module, p, defs, tickers) ==
    TryFold(PerCurrencySources(module, p, defs, tickers))

\* sources::write_lease, write_lpn, write_native, write_payment_only and
\* write_stable
WriteLease(p, defs) == GenerateSources("lease", p, defs, p.lease)
WriteLpn(p, defs) == GenerateSources("lpn", p, defs, {p.lpn})
WriteNative(p, defs) ==
    GenerateSources("native", p, defs, {defs.host.ticker})
WritePaymentOnly(p, defs) ==
    GenerateSources("payment_only", p, defs, p.payment_only)
WriteStable(p, defs) == VisitEntry(p, defs, p.stable)

\* sources::write
Write(p, defs) ==
    {[lease |-> l, lpn |-> n, native |-> h, payment_only |-> o,
      stable |-> s] :
        l \in WriteLease(p, defs), n \in WriteLpn(p, defs),
        h \in WriteNative(p, defs), o \in WritePaymentOnly(p, defs),
        s \in WriteStable(p, defs)}

\* generate_currencies
GenerateCurrencies(t, dex, p) ==
    UNION {IF \/ defs.host.ticker \in {p.lpn, p.stable}
              \/ ~SwapPairsValid(p.swap_pairs)
              \/ ~PairTargetsValid(p.swap_pairs)
           THEN Failed
           ELSE Write(p, defs) : defs \in CurrencyDefinitions(t, dex)}

----------------------------------------------------------------------------
(* Package currency: groups visited with a matcher *)

\* payment::Group::maybe_visit
PaymentGroup(cs) == cs.lease \o cs.lpn \o cs.native \o cs.payment_only

\* lease::Group, lpn::Group, native::Group
LeaseGroup(cs) == cs.lease
LpnGroup(cs) == cs.lpn

\* symbol::Tickers, BankSymbols and DexSymbols
Tickers == "ticker"
BankSymbols == "bank"
DexSymbols == "dex"

\* GroupVisit::maybe_visit_any: the first member whose symbol matches
MaybeVisitAny(group, S, symbol) ==
    LET i == SelectInSeq(group, LAMBDA e : e.def[S] = symbol)
    IN  IF i = 0 THEN {} ELSE {group[i]}

\* CurrencyVisit::visit, of the one currency that is expected
VisitCurrency(entry, S, symbol) ==
    IF entry.def[S] = symbol THEN {entry} ELSE {}

\* CurrencyDTO::from_symbol
FromSymbol(group, ticker) == MaybeVisitAny(group, Tickers, ticker)

\* CurrencyDTO::into_symbol
IntoSymbol(group, S, ticker) == {e.def[S] : e \in FromSymbol(group, ticker)}

(***************************************************************************)
(* What the bounds of maybe_visit_buddy ask of the generated types: the    *)
(* type of every buddy exists and is declared in a pool with the pivot.    *)
(* The build is finished only if they are met.                             *)
(***************************************************************************)
Compiles(cs) ==
    LET all == Range(PaymentGroup(cs))
    IN  \A e \in all : \A b \in e.buddies :
           \E f \in all : f.type = b /\ e.type \in f.pools
=============================================================================
