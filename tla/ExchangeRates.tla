---------------------------- MODULE ExchangeRates ----------------------------
(***************************************************************************)
(* ExchangeRateService: providers tried in order, a cache, one upstream    *)
(* request shared by everybody who waits for it, and an age limit; and the *)
(* pricing of an invoice from the rate that comes out of it.               *)
(*                                                                         *)
(* One asset, priced in one currency that is not itself.  A provider is    *)
(* asked over HTTP: it answers with a price, with something that is not a  *)
(* usable price, or not at all.                                            *)
(***************************************************************************)
EXTENDS MoneyMath, Sequences

CONSTANTS
  FxCalls,         \* invoice creations waiting for a rate
  exchangeRateProviders, \* EXCHANGE_RATE_PROVIDERS, in the order they are tried
  rateMaxAge,      \* EXCHANGE_RATE_MAX_AGE_SECONDS
  rateCacheTtl,    \* EXCHANGE_RATE_CACHE_TTL_SECONDS
  Prices,          \* prices a provider may answer, as decimals
  Amounts,         \* amounts invoices ask for, as decimals
  currencyDecimals, assetDecimals,
  MaxFxClock       \* bound on the clock

ASSUME FxConstants ==
  /\ exchangeRateProviders \in Seq({"coingecko", "binance"}) /\ exchangeRateProviders # <<>>
  /\ rateMaxAge \in Nat /\ rateCacheTtl \in Nat /\ MaxFxClock \in Nat
  /\ currencyDecimals \in Nat /\ assetDecimals \in Nat
  /\ Prices \subseteq Decimals /\ Amounts \subseteq Decimals

VARIABLES
  fxCurrency, \* the currency, the same throughout
  fxNow,
  fxCache,   \* the CacheEntry of the pair, or NoRate
  fxFetch,   \* the request in flight: the provider being asked, 0 without one
  fxCall     \* each invoice creation

fxVars == <<fxCurrency, fxNow, fxCache, fxFetch, fxCall>>

NoRate == [numerator |-> 0, observedAt |-> 0, cachedAt |-> 0]
IdleFxCall == [pc |-> "idle"]

FxInit ==
  /\ fxCurrency \in {"USD", "EUR"}
  /\ fxNow = 0
  /\ fxCache = NoRate
  /\ fxFetch = 0
  /\ fxCall = [c \in FxCalls |-> IdleFxCall]

-----------------------------------------------------------------------------

\* (Mutant: a rate is never too old.)
anyAge(rate) == TRUE
assertFresh(rate) == fxNow - rate.observedAt <= rateMaxAge

Cached == fxCache # NoRate /\ fxNow - fxCache.cachedAt < rateCacheTtl

\* createInvoice: the amount must parse and be positive; then the rate it was
\* given is frozen into the invoice.
AmountAccepted(amount) == Parses(amount, currencyDecimals) /\ parseUnits(amount, currencyDecimals) > 0

PriceInvoice(amount, rate) ==
  [pc |-> "priced", amount |-> amount, rate |-> rate.numerator, age |-> fxNow - rate.observedAt,
   shown |-> formatUnits(convertQuoteToBase(parseUnits(amount, currencyDecimals), currencyDecimals,
                                            rate.numerator, assetDecimals, "ceil"),
                         assetDecimals)]

RefusedCall(error) == [pc |-> "refused", error |-> error]

Waiting == {c \in FxCalls : fxCall[c].pc = "waiting"}

\* getRate: from the cache (a stale entry is refused), by joining the request
\* in flight, or by starting one.
GetRate(c, amount) ==
  /\ fxCall[c].pc = "idle" /\ AmountAccepted(amount)
  /\ \/ /\ Cached
        /\ fxCall' = [fxCall EXCEPT ![c] = IF assertFresh(fxCache) THEN PriceInvoice(amount, fxCache)
                                           ELSE RefusedCall("RATE_STALE")]
        /\ UNCHANGED fxFetch
     \/ /\ ~Cached
        /\ fxCall' = [fxCall EXCEPT ![c] = [pc |-> "waiting", amount |-> amount]]
        /\ fxFetch' = IF fxFetch = 0 THEN 1 ELSE fxFetch
  /\ UNCHANGED <<fxCurrency, fxNow, fxCache>>

\* What each provider quotes the asset against.
FIAT_VS_CURRENCIES == {"USD", "EUR"}
USD_LIKE == {"USD", "USDT"}

CoinGeckoQuotes == fxCurrency \in FIAT_VS_CURRENCIES
BinanceQuotes == fxCurrency \in USD_LIKE

SupportsPair(provider) == IF provider = "coingecko" THEN CoinGeckoQuotes ELSE BinanceQuotes

Asked == exchangeRateProviders[fxFetch]

extractPrice(price) == price.whole > 0 \/ price.fraction > 0

\* ExchangeRate.fromDecimal: no more decimals than a rate has.
UsablePrice(price) == extractPrice(price) /\ Parses(price, RATE_SCALE)

\* The provider answers with a usable price: it is cached, and everybody who
\* waits gets it.
ProviderAnswers(price) ==
  LET rate == [numerator |-> parseUnits(price, RATE_SCALE), observedAt |-> fxNow, cachedAt |-> fxNow] IN
  /\ fxFetch > 0 /\ SupportsPair(Asked) /\ UsablePrice(price) /\ assertFresh(rate)
  /\ fxCache' = rate
  /\ fxCall' = [c \in FxCalls |-> IF c \in Waiting THEN PriceInvoice(fxCall[c].amount, rate)
                                  ELSE fxCall[c]]
  /\ fxFetch' = 0
  /\ UNCHANGED <<fxCurrency, fxNow>>

\* A provider's error, retryable or not: the next one is asked; after the
\* last everybody who waits is refused.
NextProvider ==
  /\ fxFetch > 0
  /\ \/ /\ fxFetch < Len(exchangeRateProviders) /\ fxFetch' = fxFetch + 1
        /\ UNCHANGED fxCall
     \/ /\ fxFetch = Len(exchangeRateProviders) /\ fxFetch' = 0
        /\ fxCall' = [c \in FxCalls |-> IF c \in Waiting THEN RefusedCall("RATE_UNAVAILABLE")
                                        ELSE fxCall[c]]
  /\ UNCHANGED <<fxCurrency, fxNow, fxCache>>

\* No mapping for the pair; no answer in time, or an HTTP error; no usable
\* price in the answer.
PairUnknown == fxFetch > 0 /\ ~SupportsPair(Asked) /\ NextProvider
UpstreamFails == fxFetch > 0 /\ SupportsPair(Asked) /\ NextProvider
PriceUnusable(price) == fxFetch > 0 /\ SupportsPair(Asked) /\ ~UsablePrice(price) /\ NextProvider

\* The invoice is stored, or the error answered; another request may come.
FxAnswered(c) ==
  /\ fxCall[c].pc \in {"priced", "refused"}
  /\ fxCall' = [fxCall EXCEPT ![c] = IdleFxCall]
  /\ UNCHANGED <<fxCurrency, fxNow, fxCache, fxFetch>>

FxTick ==
  /\ fxNow < MaxFxClock /\ fxNow' = fxNow + 1
  /\ UNCHANGED <<fxCurrency, fxCache, fxFetch, fxCall>>

FxNext ==
  \/ \E c \in FxCalls : FxAnswered(c) \/ \E amount \in Amounts : GetRate(c, amount)
  \/ \E price \in Prices : ProviderAnswers(price) \/ PriceUnusable(price)
  \/ PairUnknown \/ UpstreamFails \/ FxTick

FxSpec == FxInit /\ [][FxNext]_fxVars

-----------------------------------------------------------------------------

FxTypeOK ==
  /\ fxNow \in 0..MaxFxClock
  /\ fxFetch \in 0..Len(exchangeRateProviders)
  /\ fxCache.cachedAt \in 0..fxNow /\ fxCache.numerator \in Nat
  /\ \A c \in FxCalls : fxCall[c].pc \in {"idle", "waiting", "priced", "refused"}

\* Whatever mixture of cached rates, shared requests and fallbacks an invoice
\* is priced from, the rate is not older than the limit at that moment ("a
\* cached-but-stale price is never used to price an invoice", service.ts 10).
PriceIsFresh ==
  \A c \in FxCalls : fxCall[c].pc = "priced" => fxCall[c].age <= rateMaxAge

\* Paying exactly what the payment page shows covers what was asked for, at
\* the frozen rate, and one smallest unit less would not: decimals parsed,
\* scaled, divided rounding up and formatted again lose nothing ("rounding
\* down would let the customer settle a 100.00 USD invoice for 99.999999").
PricedInFull ==
  \A c \in FxCalls : fxCall[c].pc = "priced" =>
    LET paid  == parseUnits(fxCall[c].shown, assetDecimals)
        worth(units) == units * fxCall[c].rate * pow10(currencyDecimals)
        asked == parseUnits(fxCall[c].amount, currencyDecimals) * pow10(assetDecimals) * pow10(RATE_SCALE)
    IN worth(paid) >= asked /\ worth(paid - 1) < asked
=============================================================================
