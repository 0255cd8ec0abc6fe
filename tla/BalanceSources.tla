---------------------------- MODULE BalanceSources ----------------------------
(***************************************************************************)
(* How a balance is read from an exchange or a chain: the REST gateways of *)
(* app/services/exchange_rest.py, the ccxt transport and BitMart's wallet  *)
(* of ccxt_manager.py, and the wallet clients debank_sdk_client.py,        *)
(* okx_wallet.py, tron_ton_service.py and sui_service.py.                  *)
(*                                                                         *)
(* A source is a sequence of requests.  Each has the account that it reads *)
(* (or the prices), the failures after which the source goes on without    *)
(* the account, those after which it goes on and marks the account with an *)
(* error, and those after which the request is made again.  After any      *)
(* other failure there is no balance.  Signing, parsing and the amounts    *)
(* are left out: an account holds nothing, a stable coin, a coin that has  *)
(* a price or one that has none.                                           *)
(***************************************************************************)
EXTENDS Integers, Sequences, FiniteSets

CONSTANTS
  Transports,  \* "rest" and "ccxt" for exchanges, "chain" for wallets
  MaxFunded    \* bound: accounts that hold something

VARIABLES
  source,   \* transport and name of the service that is read
  truth,    \* what its accounts hold, and whether futures look like spot
  step,     \* the request that is made
  tries,    \* how often it has been made
  answer,   \* what the requests have brought
  result    \* the ServiceBalanceSchema

sourceVars == <<source, truth, step, tries, answer, result>>

-----------------------------------------------------------------------------
(* Answers.                                                                  *)

\* HTTP 200 with the data; with an error in its body; 400; 401, 403, 404; 429, 502;
\* 503; another status; no connection or a timeout; a body of another shape.
Failures == {"refused", "badRequest", "denied", "limited", "unavailable", "failed",
             "unreachable", "garbled"}

\* A request for account a, the failures after which the source goes on without the
\* account, or with it and an error, or asks again, and how often it asks.
RowOf(a, left, marked, again, times, explicit) ==
  [reads |-> a, left |-> left, marked |-> marked, again |-> again, times |-> times,
   explicit |-> explicit]

\* A failure of the request is a failure of the balance.
Must(a) == RowOf(a, {}, {}, {}, 1, FALSE)

\* The source goes on without the account.
LeftOut(row, fails) ==
  RowOf(row.reads, row.left \union fails, row.marked, row.again, row.times, row.explicit)

\* The account is part of the balance, with an error.
WithError(row, fails) ==
  RowOf(row.reads, row.left, fails, row.again, row.times, row.explicit)

AskedAgain(row, fails, times) ==
  RowOf(row.reads, row.left, row.marked, fails, times, row.explicit)

\* The answer says what the holdings are worth.
Valued(row) == RowOf(row.reads, row.left, row.marked, row.again, row.times, TRUE)

\* An error in the body reads as an empty account.
BodyUnread(a) == LeftOut(Must(a), {"refused"})

\* _json_request: a proxy that cannot be reached is left out.
DirectIfNoProxy(rows) == [i \in DOMAIN rows |-> AskedAgain(rows[i], {"unreachable"}, 2)]

Prices == "prices"

-----------------------------------------------------------------------------
(* The REST gateways.                                                        *)

\* _optional_request.
Optional(row) == LeftOut(row, {"badRequest", "denied"})

Binance == <<Must(Prices), BodyUnread("spot"), Optional(BodyUnread("margin")),
             Optional(Must("funding")), Optional(BodyUnread("usdt_futures")),
             Optional(Must("coin_futures"))>>

Okx == <<BodyUnread(Prices), Valued(Must("trading")), Must("funding")>>

Bybit == <<Valued(Must("unified"))>>

Bitget == <<BodyUnread(Prices), Must("spot"), Must("margin"), Must("linear_futures"),
            Must("inverse_futures")>>

GateIo == <<Must(Prices), Must("spot"), Must("margin"), BodyUnread("usdt_futures")>>

KuCoin == <<BodyUnread(Prices), Must("trade"), Must("main")>>

Mexc == <<Must(Prices), BodyUnread("spot"), BodyUnread("usdt_futures")>>

\* The list of accounts, the tickers, the balances of the accounts.
Htx == <<Must("list"), BodyUnread(Prices), Must("spot")>>

Poloniex == <<Must(Prices), Must("spot"),
              WithError(BodyUnread("usdt_futures"), {"denied", "unavailable", "unreachable"})>>

Lbank == <<BodyUnread("spot")>>

CoinEx == <<Must("spot"), Must("margin"), Must("usdt_futures")>>

BingX == <<BodyUnread("spot"), BodyUnread("usdt_futures")>>

Xt == <<Valued(BodyUnread("spot")),
        WithError(BodyUnread("usdt_futures"), Failures \ {"refused"})>>

\* _fetch_bitmart_balance_direct: no prices are no failure.
BitMart == <<Must("spot"), LeftOut(Must(Prices), Failures)>>

RestGateways ==
  [binance |-> Binance, okx |-> Okx, bybit |-> Bybit, bitget |-> Bitget, gateio |-> GateIo,
   kucoin |-> KuCoin, mexc |-> Mexc, htx |-> Htx, poloniex |-> Poloniex, lbank |-> Lbank,
   coinex |-> CoinEx, bingx |-> BingX, xt |-> Xt, bitmart |-> BitMart]

-----------------------------------------------------------------------------
(* The ccxt transport.                                                       *)

\* EXCHANGE_ACCOUNT_TYPES.
AccountTypes ==
  [binance |-> <<"spot", "margin", "funding", "usdt_futures", "coin_futures">>,
   okx |-> <<"trading", "funding">>, bybit |-> <<"unified">>,
   bitget |-> <<"spot", "margin", "linear_futures", "inverse_futures">>,
   gateio |-> <<"spot", "margin", "usdt_futures">>, kucoin |-> <<"trade", "main">>,
   mexc |-> <<"spot", "usdt_futures">>, htx |-> <<"spot">>,
   poloniex |-> <<"spot", "usdt_futures">>, lbank |-> <<"spot">>,
   coinex |-> <<"spot", "margin", "usdt_futures">>, bingx |-> <<"spot", "usdt_futures">>,
   xt |-> <<"spot", "usdt_futures">>]

\* With the raw path on, the usual call follows a raw one that is missing or whose
\* answer has another shape.
RawThenUsual(row) == AskedAgain(row, {"garbled"}, 2)

\* _fetch_account_balance: whatever goes wrong is the account's error.
CcxtAccount(a) == RawThenUsual(WithError(Must(a), Failures))

\* _get_tickers: without tickers the last ones are used, or none.
CcxtPrices == LeftOut(Must(Prices), Failures)

CcxtRequests(x) ==
  IF x = "bitmart" THEN BitMart
  ELSE <<CcxtPrices>> \o [i \in DOMAIN AccountTypes[x] |-> CcxtAccount(AccountTypes[x][i])]

-----------------------------------------------------------------------------
(* The wallets.                                                              *)

\* _request_json asks three times.
Debank == <<AskedAgain(Valued(Must("spot")),
                       {"limited", "unavailable", "unreachable", "garbled"}, 3)>>

\* A chain that fails is passed over, but no assets are no balance.
Solana == <<Valued(Must("spot"))>>

PriceProviders == <<"DexScreener", "GeckoTerminal", "DEXTools">>

\* enrich_prices: one provider after the other, and no price at all is no failure.
TokenPrices ==
  AskedAgain(LeftOut(Must(Prices), Failures), Failures, Len(PriceProviders))

Tron == <<BodyUnread("spot"), TokenPrices>>

Ton == <<BodyUnread("spot"), LeftOut(Valued(Must("jettons")), Failures), TokenPrices>>

Sui == <<Must("spot"), TokenPrices>>

Wallets == [debank |-> Debank, solana |-> Solana, tron |-> Tron, ton |-> Ton, sui |-> Sui]

-----------------------------------------------------------------------------
(* A fetch.                                                                  *)

\* ExchangeBalanceGatewayRegistry.resolve, and _wallet_service of the balance service.
Sources == (({"rest", "ccxt"} \intersect Transports) \X DOMAIN RestGateways)
             \union (({"chain"} \intersect Transports) \X DOMAIN Wallets)

RequestsOf ==
  [s \in Sources |->
     CASE s[1] = "rest"  -> DirectIfNoProxy(RestGateways[s[2]])
       [] s[1] = "ccxt"  -> CcxtRequests(s[2])
       [] s[1] = "chain" -> Wallets[s[2]]]

AccountsOf == [s \in Sources |-> {RequestsOf[s][i].reads : i \in DOMAIN RequestsOf[s]}
                                   \ {Prices, "list"}]

Requests == RequestsOf[source]
Accounts == AccountsOf[source]
Row == Requests[step]

Holdings == {"none", "stable", "coin", "unlisted"}
Empty(kind) == [kind |-> kind, counted |-> {}, worth |-> {}, warned |-> {}]
NoResult == Empty("none")
Error == Empty("error")

\* alike: what futures and spot of Gate.io show agrees within 5%.
Truths(s) ==
  {t \in [holds : [AccountsOf[s] -> Holdings], alike : BOOLEAN] :
     /\ Cardinality({a \in AccountsOf[s] : t.holds[a] # "none"}) <= MaxFunded
     /\ s[2] # "gateio" => ~t.alike}

Init ==
  /\ source \in Sources /\ truth \in Truths(source)
  /\ step = 1 /\ tries = 1
  /\ answer = [a \in Accounts \union {Prices, "list"} |-> "none"]
  /\ result = NoResult

TypeOK ==
  /\ source \in Sources
  /\ truth \in [holds : [Accounts -> Holdings], alike : BOOLEAN]
  /\ step \in 1 .. Len(Requests) + 1 /\ tries \in 1 .. 3
  /\ answer \in [Accounts \union {Prices, "list"}
                   -> {"none", "content", "marked", "refused", "left"}]
  /\ result \in [kind : {"none", "error", "marked", "actual"}, counted : SUBSET Accounts,
                 worth : SUBSET Accounts, warned : SUBSET Accounts]

\* The request is made again: without the proxy, after a pause, elsewhere.
Repeat ==
  /\ step <= Len(Requests) /\ Row.again # {} /\ tries < Row.times
  /\ tries' = tries + 1
  /\ UNCHANGED <<source, truth, step, answer, result>>

\* What the source keeps of an answer.
Kept(a) ==
  CASE a \in {"content", "refused"} /\ a \notin Row.marked -> a
    [] a \in Row.marked -> "marked"
    [] OTHER -> "left"

Tolerated == Row.left \union Row.marked
IsFinal(a) == a \notin Row.again \/ tries = Row.times

\* The request brings what the source goes on with.
Answer ==
  /\ step <= Len(Requests)
  /\ \E kept \in {Kept(a) : a \in {b \in Tolerated \union {"content"} : IsFinal(b)}} :
       answer' = [answer EXCEPT ![Row.reads] = kept]
  /\ step' = step + 1 /\ tries' = 1
  /\ UNCHANGED <<source, truth, result>>

\* The request brings an exception that nobody catches.
Raise ==
  /\ step <= Len(Requests)
  /\ {a \in Failures \ Tolerated : IsFinal(a)} # {}
  /\ result' = Error
  /\ answer' = [b \in DOMAIN answer |-> "none"] /\ step' = Len(Requests) + 1 /\ tries' = 1
  /\ UNCHANGED <<source, truth>>

Read(a) == answer[a] = "content" /\ truth.holds[a] # "none"

\* _detect_unified_account: USDT of spot and futures agree.
Mirrors ==
  Read("usdt_futures") /\ Read("spot") /\ truth.holds["spot"] = "stable" /\ truth.alike

Mirrored == IF source[2] = "gateio" /\ Mirrors THEN {"usdt_futures"} ELSE {}

IsExplicit(a) == \E i \in DOMAIN Requests : Requests[i].reads = a /\ Requests[i].explicit

\* calculate_usd_value_sync: stable coins are worth their amount.
IsWorth(a) ==
  \/ IsExplicit(a) \/ truth.holds[a] = "stable"
  \/ truth.holds[a] = "coin" /\ answer[Prices] = "content"

\* Only exchanges say which assets have no value.
Warns == source[1] # "chain" /\ source[2] # "bitmart"

\* BitMart without tickers is not up to date if a coin has no value.
Degraded ==
  /\ source[2] = "bitmart" /\ answer[Prices] # "content"
  /\ \E a \in Accounts : Read(a) /\ ~IsWorth(a)

IsActual == ~Degraded /\ \A a \in DOMAIN answer : answer[a] # "marked"

\* _merge_accounts and the end of _fetch_balance_via_ccxt.
Merge ==
  LET counted == {a \in Accounts : Read(a)} \ Mirrored
  IN  /\ step > Len(Requests) /\ result = NoResult
      /\ result' =
           IF source[2] = "solana" /\ counted = {} THEN Error
           ELSE [kind |-> IF IsActual THEN "actual" ELSE "marked", counted |-> counted,
                 worth |-> {a \in counted : IsWorth(a)},
                 warned |-> IF Warns THEN {a \in counted : ~IsWorth(a)} ELSE {}]
      /\ UNCHANGED <<source, truth, step, tries, answer>>

Next == Repeat \/ Answer \/ Raise \/ Merge

Spec == Init /\ [][Next]_sourceVars

-----------------------------------------------------------------------------
(* Properties.                                                               *)

UpToDate == result.kind = "actual"
Funded == {a \in Accounts : truth.holds[a] # "none"}

\* Who takes a body with an error for an empty account.
BodiesUnread ==
  {"binance", "gateio", "mexc", "lbank", "bingx", "xt", "poloniex", "tron", "ton"}

\* What is missing from balances that are said to be up to date: Binance's accounts
\* that are denied, TON's jettons, and bodies with an error that nobody looks at.
Condoned(a) ==
  \/ source = <<"rest", "binance">> /\ a # "spot" /\ answer[a] = "left"
  \/ source = <<"chain", "ton">> /\ a = "jettons"
  \/ answer[a] = "refused" /\ source[2] \in BodiesUnread

\* Holdings that count for nothing and are not warned about: of wallets, and of a coin
\* that BitMart does not list.
Unpriced(a) ==
  source[1] = "chain" \/ (source[2] = "bitmart" /\ truth.holds[a] = "unlisted")

\* A balance that is up to date has every account that holds something, whatever
\* failed on the way, but for these; and what counts for nothing is warned about.
CompleteOrMarked ==
  UpToDate =>
    /\ \A a \in Funded \ Mirrored : a \in result.counted \/ Condoned(a)
    /\ \A a \in result.counted : a \in result.worth \union result.warned \/ Unpriced(a)

=============================================================================
