-------------------------------- MODULE Wire --------------------------------
(***************************************************************************)
(* The coins of a lease under the names each network gives to them.  A     *)
(* contract knows a coin by its ticker; the bank of the host network and   *)
(* the interchain account at the DEX know it by the symbols the build has  *)
(* taken from the topology.  The module follows the coins from the account *)
(* of a customer through the bank, over the transfer channel, the swap and *)
(* back: platform::bank, coin_legacy, bank_ibc, ica, trx, and the clients  *)
(* of the DEXes in package swap.  The messages' delivery is module Dex's.  *)
(*                                                                         *)
(* An account is a bag of symbols.                                         *)
(***************************************************************************)
EXTENDS Currencies, SupportedPairs, BagsExt

CONSTANTS
    Builds,       \* the topologies and descriptions that are built, each
                  \* [topology, dex, protocol, tree, client]
    Payments,     \* sequences of coins <<ticker or NotCurrency, amount>>
    Principal,    \* what the pool lends
    Rates,        \* how much a request to the DEX may yield
    NotCurrency   \* a coin at the host network of no currency

VARIABLES
    build,    \* the build the contracts are of
    cs,       \* its currencies
    task,     \* the swap of the lease: [at, coins, next, asset, amount]
    lpp,      \* the account of the pool
    bank,     \* the account of the lease at the host network
    ica,      \* the interchain account of the lease
    customer  \* what the lease has sent to its customer

vars == <<build, cs, task, lpp, bank, ica, customer>>

----------------------------------------------------------------------------
(* coin_legacy: a coin with a ticker to a coin with a symbol, and back *)

Coin(ticker, amount) == [ticker |-> ticker, amount |-> amount]

CwCoin(symbol, amount) == [denom |-> symbol, amount |-> amount]

\* An amount of a symbol as a bag
Funds(cw) == cw.denom :> cw.amount

\* coin_legacy::to_cosmwasm_on_network
ToCosmwasm(S, coin) ==
    {CwCoin(symbol, coin.amount) :
        symbol \in IntoSymbol(PaymentGroup(cs), S, coin.ticker)}

\* coin_legacy::from_cosmwasm_internal
FromInternal(entry, cw) == Coin(entry.def.ticker, cw.amount)

\* coin_legacy::from_cosmwasm_seek_any and maybe_from_cosmwasm_any
FromCosmwasmAny(group, cw) ==
    {FromInternal(e, cw) :
        e \in MaybeVisitAny(group, BankSymbols, cw.denom)}

\* coin_legacy::from_cosmwasm
FromCosmwasm(entry, cw) ==
    {FromInternal(e, cw) :
        e \in VisitCurrency(entry, BankSymbols, cw.denom)}

----------------------------------------------------------------------------
(* bank *)

\* bank::received_one: exactly one coin, of the expected currency
ReceivedOne(entry, cws) ==
    IF Len(cws) # 1 THEN {} ELSE FromCosmwasm(entry, cws[1])

\* bank::may_received: the first coin of the group, the others are ignored
MayReceived(group, cws) ==
    LET i == SelectInSeq(cws, LAMBDA cw : FromCosmwasmAny(group, cw) # {})
    IN  IF i = 0 THEN {} ELSE FromCosmwasmAny(group, cws[i])

\* BankView::balance
Balance(account, ticker) ==
    LET symbol == CHOOSE s \in IntoSymbol(PaymentGroup(cs), BankSymbols,
                                          ticker) : TRUE
    IN  CopiesIn(symbol, account)

\* BankView::balances: the coins of the currencies of the group
Balances(group, account) ==
    {CwCoin(s, CopiesIn(s, account)) :
        s \in {x \in BagToSet(account) :
                  FromCosmwasmAny(group, CwCoin(x, 1)) # {}}}

Holds(account, cw) == CopiesIn(cw.denom, account) >= cw.amount

\* bank::bank_send, an amount that leaves an account for another
BankSend(coin) == ToCosmwasm(BankSymbols, coin)

\* mutant: only the first of the coins found
BankSendFirst(account) ==
    LET all == Balances(PaymentGroup(cs), account)
    IN  IF all = {} THEN {} ELSE {CHOOSE cw \in all : TRUE}

\* bank::bank_send_all
BankSendAll(account) == Balances(PaymentGroup(cs), account)

Total(cws) == BagUnion({Funds(cw) : cw \in cws})

Sum(cws) == FoldSeq(LAMBDA cw, bag : bag (+) Funds(cw), EmptyBag, cws)

----------------------------------------------------------------------------
(* The transfer channel *)

\* ConnectionParams::transfer_channel, a single channel to the DEX
DexPath == CHOOSE p \in FindPath(build.topology, build.dex) : TRUE

Direct == Len(DexPath) = 1

(***************************************************************************)
(* The transfer module of the networks (external): a coin that has come    *)
(* through the channel it is sent over loses it, any other one gets the    *)
(* channel at the other end.                                               *)
(***************************************************************************)
Over(channel, counterpart, symbol) ==
    IF symbol.channels # << >> /\ Head(symbol.channels) = channel
    THEN Symbol(Tail(symbol.channels), symbol.symbol)
    ELSE Symbol(<<counterpart>> \o symbol.channels, symbol.symbol)

ToDex(symbol) ==
    FoldLeft(LAMBDA s, ch : Over(ch.id, ch.counterpart, s), symbol, DexPath)

ToHost(symbol) ==
    FoldLeft(LAMBDA s, ch : Over(ch.counterpart, ch.id, s), symbol,
             Reverse(DexPath))

\* bank_ibc::local::Sender::send
LocalSend(coin) == ToCosmwasm(BankSymbols, coin)

\* mutant: the coin with its symbol at the host network
RemoteSendBank(coin) == ToCosmwasm(BankSymbols, coin)

\* bank_ibc::remote::Sender::send
RemoteSend(coin) == ToCosmwasm(DexSymbols, coin)

----------------------------------------------------------------------------
(* Package swap *)

\* trx::SwapTrx::swap_exact_in asks the oracle for the path
SwapPath(from, to) == LoadSwapPath(build.tree, from, to)

DexDenom(ticker) ==
    CHOOSE s \in IntoSymbol(PaymentGroup(cs), DexSymbols, ticker) : TRUE

\* astroport::to_operations: the pairs of symbols one after another
ToOperations(denom, path) ==
    [k \in DOMAIN path |->
        [offer |-> IF k = 1 THEN denom ELSE DexDenom(path[k - 1].target),
         ask   |-> DexDenom(path[k].target)]]

\* osmosis::to_route: the pools with the symbols taken out of them
ToRoute(path) ==
    [k \in DOMAIN path |-> [pool_id |-> path[k].pool_id,
                            out |-> DexDenom(path[k].target)]]

\* astroport::Impl::build_request
AstroportRequest(cw, path) ==
    [client |-> "astroport", funds |-> cw,
     operations |-> ToOperations(cw.denom, path)]

\* osmosis::Impl::build_request
OsmosisRequest(cw, path) ==
    [client |-> "osmosis", funds |-> cw, routes |-> ToRoute(path)]

BuildRequest(coin) ==
    {IF build.client = "astroport"
     THEN AstroportRequest(cw, SwapPath(coin.ticker, task.asset))
     ELSE OsmosisRequest(cw, SwapPath(coin.ticker, task.asset)) :
        cw \in ToCosmwasm(DexSymbols, coin)}

\* filter::CurrencyFilter: a coin already in the asset is not swapped
Passed(coins) == SelectSeq(coins, LAMBDA coin : coin.ticker # task.asset)

FilteredAmount(coins) ==
    FoldSeq(LAMBDA coin, sum : sum + coin.amount, 0,
            SelectSeq(coins, LAMBDA coin : coin.ticker = task.asset))

\* SwapExactIn::enter_state: the requests of a transaction, in order
Requests(coins) ==
    LET passed == Passed(coins)
    IN  [i \in DOMAIN passed |->
            CHOOSE r \in BuildRequest(passed[i]) : TRUE]

(***************************************************************************)
(* The DEX (external).  The pools are those of the tree; a request is      *)
(* served if they lead from its funds to what it asks, and the sender has  *)
(* the funds.                                                              *)
(***************************************************************************)
Pool(id, s1, s2) ==
    \E i \in DOMAIN build.tree \ {ROOT_INDEX} :
       /\ ValueAt(build.tree, i).pool_id = id
       /\ {s1, s2} = {DexDenom(TargetAt(build.tree, i)),
                      DexDenom(TargetAt(build.tree,
                                        ParentAt(build.tree, i)))}

AstroportServes(request) ==
    LET ops == request.operations
    IN  /\ request.funds.denom = ops[1].offer
        /\ \A k \in DOMAIN ops : \E i \in DOMAIN build.tree :
              Pool(ValueAt(build.tree, i).pool_id, ops[k].offer, ops[k].ask)
        /\ \A k \in 2 .. Len(ops) : ops[k].offer = ops[k - 1].ask

OsmosisServes(request) ==
    LET routes == request.routes
    IN  \A k \in DOMAIN routes :
           Pool(routes[k].pool_id,
                IF k = 1 THEN request.funds.denom ELSE routes[k - 1].out,
                routes[k].out)

Serves(request) ==
    IF request.client = "astroport" THEN AstroportServes(request)
    ELSE OsmosisServes(request)

Asked(request) ==
    IF request.client = "astroport" THEN Last(request.operations).ask
    ELSE Last(request.routes).out

----------------------------------------------------------------------------
(* The steps *)

Init ==
    /\ build \in Builds
    /\ cs \in GenerateCurrencies(build.topology, build.dex, build.protocol)
    /\ task = [at |-> "new", coins |-> << >>, next |-> 1,
               asset |-> BaseC, amount |-> 0]
    /\ lpp = EmptyBag
    /\ bank = EmptyBag
    /\ ica = EmptyBag
    /\ customer = EmptyBag

\* What a user attaches to a message
Attached(payment) ==
    [i \in DOMAIN payment |->
        IF payment[i][1] = NotCurrency
        THEN CwCoin(Symbol(<< >>, NotCurrency), payment[i][2])
        ELSE CHOOSE cw \in ToCosmwasm(BankSymbols,
                              Coin(payment[i][1], payment[i][2])) : TRUE]

\* lpp contract::lender::try_deposit, of a single coin in Lpn; one deposit
\* is enough here
Deposit(payment) ==
    /\ lpp = EmptyBag
    /\ ReceivedOne(LpnGroup(cs)[1], Attached(payment)) # {}
    /\ lpp' = lpp (+) Sum(Attached(payment))
    /\ UNCHANGED <<build, cs, task, bank, ica, customer>>

\* lease cmd::OpenLoanReq: the downpayment, and the principal of the pool
Open(payment, asset) ==
    /\ task.at = "new"
    /\ Balance(lpp, BaseC) >= Principal
    /\ \E downpayment \in MayReceived(PaymentGroup(cs), Attached(payment)),
          lent \in BankSend(Coin(BaseC, Principal)) :
          /\ task' = [at |-> "transfer_out", next |-> 1, asset |-> asset,
                      coins |-> <<downpayment, Coin(BaseC, Principal)>>,
                      amount |-> 0]
          /\ bank' = bank (+) Sum(Attached(payment)) (+) Funds(lent)
          /\ lpp' = lpp (-) Funds(lent)
    /\ UNCHANGED <<build, cs, ica, customer>>

\* dex TransferOut::enter_state with coin_index::visit_at_index, one coin at
\* a time; the packet is refused if the account has not got the coin.  The
\* contracts have one channel, ConnectionParams: where the path to the DEX
\* has more, only the symbols are looked at
TransferOut ==
    /\ task.at = "transfer_out"
    /\ Direct
    /\ \E cw \in LocalSend(task.coins[task.next]) :
          /\ Holds(bank, cw)
          /\ bank' = bank (-) Funds(cw)
          /\ ica' = ica (+) Funds(CwCoin(ToDex(cw.denom), cw.amount))
    /\ task' = IF task.next = Len(task.coins)
               THEN [task EXCEPT !.at = "swap"]
               ELSE [task EXCEPT !.next = @ + 1]
    /\ UNCHANGED <<build, cs, lpp, customer>>

\* astroport::Impl::parse_response and osmosis::Impl::parse_response
AstroportResponse(response) ==
    IF response.type = "MsgExecuteContractResponse"
    THEN {response.return_amount} ELSE {}
OsmosisResponse(response) ==
    IF response.type = "MsgSwapExactAmountInResponse"
    THEN {response.token_out_amount} ELSE {}

ParseResponse(response) ==
    IF build.client = "astroport" THEN AstroportResponse(response)
    ELSE OsmosisResponse(response)

\* What the DEX answers (external)
Response(request, yield) ==
    IF request.client = "astroport"
    THEN [type |-> "MsgExecuteContractResponse", return_amount |-> yield]
    ELSE [type |-> "MsgSwapExactAmountInResponse", token_out_amount |-> yield]

\* trx::decode_msg_responses: the amounts, in the order of the requests
Amounts(responses) ==
    [i \in DOMAIN responses |->
        CHOOSE amount \in ParseResponse(responses[i]) : TRUE]

\* SwapExactIn::decode_response: a response for every coin that has passed
\* the filter, and the amount it has held back
DecodeResponse(coins, responses) ==
    FilteredAmount(coins) + FoldSeq(LAMBDA a, b : a + b, 0, Amounts(responses))

\* What the requests of a transaction spend
Spent(requests) == Sum([i \in DOMAIN requests |-> requests[i].funds])

\* The DEX takes the transaction as a whole or not at all
Accepted(requests) ==
    /\ \A i \in DOMAIN requests : Serves(requests[i])
    /\ Spent(requests) \sqsubseteq ica

\* SwapExactIn::enter_state, the transaction at the DEX, and on_response
Swap ==
    /\ task.at = "swap"
    /\ \E requests \in {Requests(task.coins)} :
          /\ Accepted(requests)
          /\ \E yields \in [DOMAIN requests -> Rates] :
                /\ ica' = (ica (-) Spent(requests)) (+)
                          Sum([i \in DOMAIN requests |->
                                 CwCoin(Asked(requests[i]), yields[i])])
                /\ task' = [task EXCEPT !.at = "opened",
                              !.amount = DecodeResponse(task.coins,
                                 [i \in DOMAIN requests |->
                                    Response(requests[i], yields[i])])]
    /\ UNCHANGED <<build, cs, lpp, bank, customer>>

\* dex TransferInInit::enter_state, once the lease is paid
TransferIn ==
    /\ task.at = "opened"
    /\ \E cw \in RemoteSend(Coin(task.asset, task.amount)) :
          /\ Holds(ica, cw)
          /\ ica' = ica (-) Funds(cw)
          /\ bank' = bank (+) Funds(CwCoin(ToHost(cw.denom), cw.amount))
    /\ task' = [task EXCEPT !.at = "transfer_in"]
    /\ UNCHANGED <<build, cs, lpp, customer>>

\* dex transfer_in::check_received, and the asset sent to the customer
CheckReceived ==
    /\ task.at = "transfer_in"
    /\ Balance(bank, task.asset) >= task.amount
    /\ \E cw \in BankSend(Coin(task.asset, task.amount)) :
          /\ bank' = bank (-) Funds(cw)
          /\ customer' = customer (+) Funds(cw)
    /\ task' = [task EXCEPT !.at = "closed"]
    /\ UNCHANGED <<build, cs, lpp, ica>>

\* lease state::drain::DrainAll, refused if there is nothing to send
Drain ==
    /\ task.at \in {"closed", "drained"}
    /\ BankSendAll(bank) # {}
    /\ bank' = bank (-) Total(BankSendAll(bank))
    /\ customer' = customer (+) Total(BankSendAll(bank))
    /\ task' = [task EXCEPT !.at = "drained"]
    /\ UNCHANGED <<build, cs, lpp, ica>>

Next ==
    \/ \E payment \in Payments : Deposit(payment)
    \/ \E payment \in Payments, i \in DOMAIN LeaseGroup(cs) :
          Open(payment, LeaseGroup(cs)[i].def.ticker)
    \/ TransferOut
    \/ Swap
    \/ TransferIn
    \/ CheckReceived
    \/ Drain

Spec == Init /\ [][Next]_vars

----------------------------------------------------------------------------
(* Properties *)

(***************************************************************************)
(* A currency that has come to the DEX from the last network on the path   *)
(* there.  Its coins, sent home, lose a channel at that network; its bank  *)
(* symbol has it all the way to the DEX and back (initial_bank_symbol_and_ *)
(* path of currency_resolution.rs).                                        *)
(***************************************************************************)
ComesFromThePath(def) ==
    /\ def.bank.channels # << >>  \* not the host's own
    /\ def.dex.channels # << >>
    /\ Head(def.dex.channels) = Last(DexPath).counterpart

(***************************************************************************)
(* The two symbols of a currency name the same coin.  A coin sent from the *)
(* bank over the channels of the path is at the DEX what the dex symbol    *)
(* says, however many networks are on the path and wherever the currency   *)
(* comes from.  The other way round, it is at home what the bank symbol    *)
(* says unless the currency comes from a network between the host and the  *)
(* DEX.  No two currencies share a symbol.  (currency_resolution.rs takes  *)
(* the symbols from two different walks over the topology.)                *)
(***************************************************************************)
SymbolsAgree ==
    LET all == PaymentGroup(cs)
    IN  /\ \A i \in DOMAIN all :
              /\ ToDex(all[i].def.bank) = all[i].def.dex
              /\ ~ComesFromThePath(all[i].def) =>
                     ToHost(all[i].def.dex) = all[i].def.bank
        /\ \A i, j \in DOMAIN all : i # j =>
              /\ all[i].def.bank # all[j].def.bank
              /\ all[i].def.dex # all[j].def.dex

(***************************************************************************)
(* The generated sources compile: whoever is visited as a buddy of a       *)
(* currency is declared in a pool with it.  The two come from the two ends *)
(* of a swap pair, and into different files (currencies_tree.rs,           *)
(* generator/mod.rs).                                                      *)
(***************************************************************************)
BuddiesArePoolPartners == Compiles(cs)

(***************************************************************************)
(* The coin of the next message is in the account it is to leave.  A wrong *)
(* symbol, a coin not counted or counted twice would leave the lease with  *)
(* a message the network refuses for ever.                                 *)
(***************************************************************************)
HeldWhereExpected ==
    /\ task.at = "transfer_out" =>
          \E cw \in LocalSend(task.coins[task.next]) : Holds(bank, cw)
    /\ task.at = "swap" => Accepted(Requests(task.coins))
    /\ task.at = "opened" =>
          \E cw \in RemoteSend(Coin(task.asset, task.amount)) : Holds(ica, cw)
    /\ task.at = "transfer_in" => Balance(bank, task.asset) >= task.amount

(***************************************************************************)
(* Once drained a lease has nothing its currencies can name: a coin sent   *)
(* along with a downpayment is returned, one of no currency stays.         *)
(***************************************************************************)
NothingLeftBehind ==
    task.at = "drained" =>
        /\ BagToSet(bank) \subseteq {Symbol(<< >>, NotCurrency)}
        /\ ica = EmptyBag
=============================================================================
