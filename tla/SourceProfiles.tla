---------------------------- MODULE SourceProfiles ----------------------------
(***************************************************************************)
(* What tells the polling price sources (pkg/server/sources) apart.  Every *)
(* source fetches when it starts and then on every tick of its loop; the   *)
(* sources differ in how they retry, in what they take for an error, in    *)
(* who may end a request that is not answered, and in what their Stop      *)
(* closes.  PriceSource gives these fields their meaning.                  *)
(*                                                                         *)
(*   wrapper        who repeats a failed fetch: RetryWithBackoff ("base"), *)
(*                  FetchWithRetriesBase ("fiat") or nobody ("none")       *)
(*   start          the fetch before the loop: one that may fail ("once"), *)
(*                  one without which Start fails ("must"), or none        *)
(*   pairwise       a fetch asks for one pair after the other and skips    *)
(*                  those that fail; otherwise one request asks for all    *)
(*   replaces       a fetch replaces all prices; otherwise it adds to them *)
(*   emptyFails     a fetch without any usable price is an error           *)
(*   limitDemotes   an answer 429 makes the source unhealthy at once       *)
(*   failureDemotes a poll that failed makes the source unhealthy          *)
(*   timeout        whose requests time out: all, those of the loop, none  *)
(*   heedsContext   the loop ends when the program's context does          *)
(*   stopCloses     Stop closes the channel that ends the loop             *)
(*   hasInput       there is something to fetch from                       *)
(***************************************************************************)

\* An exchange that reports how many prices it read, but not that there were none.
Okx == [
    wrapper |-> "base", start |-> "once", pairwise |-> FALSE, replaces |-> FALSE,
    emptyFails |-> FALSE, limitDemotes |-> TRUE, failureDemotes |-> TRUE,
    timeout |-> "none", heedsContext |-> TRUE, stopCloses |-> FALSE, hasInput |-> TRUE]

Bybit == Okx

Bitfinex == Okx

Gateio == Okx

CoinMarketCap == Okx

\* An exchange for which a reply without a configured symbol is an error.
Kraken == [Okx EXCEPT !.emptyFails = TRUE, !.limitDemotes = FALSE, !.stopCloses = TRUE]

Huobi == Kraken

Kucoin == Kraken

\* REST mode; the websocket mode is not part of this module.
Mexc == Kraken

\* Its client has a timeout; Stop leaves the channel open.
CoinGecko == [Kraken EXCEPT !.timeout = "all", !.stopCloses = FALSE]

\* REST mode: no retries, and no look at the number of prices.
Binance == [Okx EXCEPT !.wrapper = "none", !.limitDemotes = FALSE, !.timeout = "all",
                       !.stopCloses = TRUE]

\* A fiat source: the retry helper sets the health.
Fixer == [
    wrapper |-> "fiat", start |-> "once", pairwise |-> FALSE, replaces |-> FALSE,
    emptyFails |-> FALSE, limitDemotes |-> TRUE, failureDemotes |-> TRUE,
    timeout |-> "all", heedsContext |-> TRUE, stopCloses |-> TRUE, hasInput |-> TRUE]

Frankfurter == Fixer

\* Its first fetch is part of Initialize.
ExchangeRate == Fixer

ExchangeRateFree == [Fixer EXCEPT !.emptyFails = TRUE]

IMF == [Fixer EXCEPT !.emptyFails = TRUE, !.limitDemotes = FALSE]

\* The basket calculator: it has no fetch before its loop, a calculation that
\* fails does not touch the health, and nothing gives it fiat sources.
SDR == [Fixer EXCEPT !.wrapper = "none", !.start = "none", !.emptyFails = TRUE,
                     !.limitDemotes = FALSE, !.failureDemotes = FALSE, !.hasInput = FALSE]

\* A contract query per pair over the shared gRPC client, without a deadline.
Terraswap == [
    wrapper |-> "none", start |-> "once", pairwise |-> TRUE, replaces |-> FALSE,
    emptyFails |-> TRUE, limitDemotes |-> FALSE, failureDemotes |-> TRUE,
    timeout |-> "none", heedsContext |-> TRUE, stopCloses |-> TRUE, hasInput |-> TRUE]

Terraport == Terraswap

Garuda == Terraswap

\* A contract call per pair; only the polls of the loop have a deadline, and
\* the loop ends by Stop alone.
PancakeSwap == [Terraswap EXCEPT !.start = "must", !.replaces = TRUE,
                                 !.timeout = "loop", !.heedsContext = FALSE]

Band == [Binance EXCEPT !.emptyFails = FALSE]

Exchanges == {Okx, Bybit, Bitfinex, Gateio, CoinMarketCap, Kraken, Huobi, Kucoin, Mexc,
              CoinGecko, Binance}
FiatSources == {Fixer, Frankfurter, ExchangeRate, ExchangeRateFree, IMF}
ContractSources == {Terraswap, Terraport, Garuda, PancakeSwap}

\* The sources the registries create.
AllSources == Exchanges \cup FiatSources \cup {SDR} \cup ContractSources \cup {Band}

Profile == [
    wrapper: {"base", "fiat", "none"}, start: {"once", "must", "none"},
    pairwise: BOOLEAN, replaces: BOOLEAN, emptyFails: BOOLEAN,
    limitDemotes: BOOLEAN, failureDemotes: BOOLEAN,
    timeout: {"all", "loop", "none"}, heedsContext: BOOLEAN, stopCloses: BOOLEAN,
    hasInput: BOOLEAN]
=============================================================================
