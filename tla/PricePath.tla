------------------------------ MODULE PricePath ------------------------------
(***************************************************************************)
(* The way of a price from the sources to the vote: the sources' prices    *)
(* (BaseSource.SetPrice), one request to the price server that aggregates  *)
(* them (pkg/server/aggregator, sources/normalize.go), and the feeder that *)
(* fetches the result and turns it into exchange rates against LUNC, one   *)
(* per whitelisted denom (convertToOraclePrices in voter.go and            *)
(* feeder/oracle).  When the price server answers from its cache instead   *)
(* is PriceServer's subject, and what becomes of the vote is Voter's.      *)
(*                                                                         *)
(* A symbol is a record [base, quote].  Prices are fixed-point numbers     *)
(* with One for 1.                                                         *)
(***************************************************************************)
EXTENDS Aggregation

CONSTANTS Sources,
          Offers,            \* [source, symbol, price] that sources may come up with
          WeightChoices,     \* functions from sources to configured weights
          StandardWeight,    \* the weight 1.0
          Whitelist,         \* the denoms the chain votes on
          One                \* the fixed-point number 1

ASSUME PathAssumption ==
    /\ \A o \in Offers : o.source \in Sources /\ o.price \in Nat
    /\ \A w \in WeightChoices : w \in [Sources -> Nat]
    /\ StandardWeight \in Nat \ {0} /\ One \in Nat \ {0}
    /\ Whitelist \ {"UST"} # {}   \* the voter skips an empty one; UST is not listed alone

VARIABLES mode,         \* server.aggregate_mode
          configured,   \* the weights of the configuration
          offers,       \* prices the sources hold: [source, symbol, price]
          pc,           \* where the period is
          published,    \* the server's reply: a price for some symbols
          vote          \* entries of the vote: [symbol, denom, rate]

vars == <<mode, configured, offers, pc, published, vote>>

Usd == "USD"
Abstain == 0

\* The symbol of the entries that convertToOraclePrices adds by itself.
NoSymbol == [base |-> "", quote |-> ""]

Stablecoins == {"USDT", "USDC", "BUSD", "DAI", "TUSD", "USDD", "USDP"}

\* Only the two large stablecoins are taken for dollars.
NormalizeSymbolLarge(s) ==
    [s EXCEPT !.quote = IF @ \in {"USDT", "USDC"} THEN Usd ELSE @]

NormalizeSymbol(s) ==
    [base |-> CASE s.base = "WBTC" -> "BTC"
                [] s.base \in {"WETH", "STETH"} -> "ETH"
                [] OTHER -> s.base,
     quote |-> IF s.quote \in Stablecoins THEN Usd ELSE s.quote]

\* A pair with the dollar, USDT or USDC in front is turned around.
Inverted(s) == s.base \in {"USD", "USDT", "USDC"}

TypeOK ==
    /\ mode \in Modes /\ configured \in WeightChoices
    /\ pc \in {"quoting", "aggregating", "served", "failed", "panicked", "voted", "aborted"}
    /\ \A o \in offers : o.source \in Sources /\ o.price \in Nat
    /\ \A s \in DOMAIN published : published[s] \in Nat
    /\ \A v \in vote : v.denom \in Whitelist /\ v.rate \in Nat

Init ==
    /\ mode \in Modes /\ configured \in WeightChoices
    /\ offers = {}
    /\ pc = "quoting" /\ published = <<>> /\ vote = {}

-----------------------------------------------------------------------------
(* The price server *)

\* SetPrice with normalizeSymbolPair: a source keeps the last price of a symbol.
SetPrice(o) ==
    /\ pc = "quoting"
    /\ LET symbol == IF Inverted(o.symbol)
                     THEN [base |-> o.symbol.quote, quote |-> o.symbol.base] ELSE o.symbol
           price == IF Inverted(o.symbol) /\ o.price # 0
                    THEN (One * One) \div o.price ELSE o.price
       IN  offers' = {p \in offers : p.source # o.source \/ p.symbol # symbol}
                       \cup {[source |-> o.source, symbol |-> symbol, price |-> price]}
    /\ UNCHANGED <<mode, configured, pc, published, vote>>

\* A weight of zero is taken as it is.
SourceWeightZero(source) == configured[source]

\* A weight that is zero or missing in the configuration is 1.
SourceWeight(source) ==
    IF configured[source] = 0 THEN StandardWeight ELSE configured[source]

\* The entries of a normalized symbol, two of one source if it has two aliases.
Entries(symbol) ==
    {[source |-> o.source, symbol |-> o.symbol, price |-> o.price,
      weight |-> SourceWeight(o.source)] :
        o \in {p \in offers : NormalizeSymbol(p.symbol) = symbol}}

Offered == {NormalizeSymbol(o.symbol) : o \in offers}

\* A request begins; with no price at all it fails.
Request ==
    /\ pc = "quoting"
    /\ pc' = IF offers = {} THEN "failed" ELSE "aggregating"
    /\ UNCHANGED <<mode, configured, offers, published, vote>>

Remaining == Offered \ DOMAIN published

Publish(symbol, price) ==
    /\ published' = [s \in DOMAIN published \cup {symbol} |->
                        IF s = symbol THEN price ELSE published[s]]
    /\ pc' = IF Remaining = {symbol} THEN "served" ELSE "aggregating"

\* A panic of one symbol's aggregation passes for a price.
AggregatePastPanic ==
    /\ pc = "aggregating"
    /\ LET symbol == CHOOSE s \in Remaining : TRUE
       IN  \E order \in Orders(Entries(symbol)), ties \in Ties :
              Publish(symbol, Aggregated(mode, order, ties))
    /\ UNCHANGED <<mode, configured, offers, vote>>

\* The next symbol, in any order of its entries and with any rounding of half of
\* their weight.  The order of the symbols makes no difference; a panic ends the
\* request.
Aggregate ==
    /\ pc = "aggregating"
    /\ LET symbol == CHOOSE s \in Remaining : TRUE
       IN  \E order \in Orders(Entries(symbol)), ties \in Ties :
              LET price == Aggregated(mode, order, ties)
              IN  \/ price # Panic /\ Publish(symbol, price)
                  \/ price = Panic /\ pc' = "panicked" /\ UNCHANGED published
    /\ UNCHANGED <<mode, configured, offers, vote>>

-----------------------------------------------------------------------------
(* The feeder *)

Lunc(quote) == [base |-> "LUNC", quote |-> quote]
LuncSymbols == {Lunc("USD"), Lunc("USDT"), Lunc("USDC")}

LuncUSD ==
    CASE Lunc("USD") \in DOMAIN published -> published[Lunc("USD")]
      [] Lunc("USD") \notin DOMAIN published /\ Lunc("USDT") \in DOMAIN published ->
            published[Lunc("USDT")]
      [] OTHER -> published[Lunc("USDC")]

\* symbolToDenom; a pair against anything but the dollar has no such denom.
Denom(symbol) ==
    CASE symbol.quote \notin {"USD", "USDT", "USDC"} -> "none"
      [] symbol.base \in {"SDR", "XDR"} -> "usdr"
      [] symbol.base \in {"USTC", "UST"} -> "UST"
      [] symbol.base = "USD" -> "uusd"
      [] symbol.base = "KRW" -> "ukrw"
      [] OTHER -> symbol.base

\* Units of a currency for one LUNC; 1 / price is rounded, the rest is exact.
Rate(price) == (((One * One + (price \div 2)) \div price) * LuncUSD) \div One

Entry(symbol, denom, rate) == [symbol |-> symbol, denom |-> denom, rate |-> rate]

Listed(symbol) == symbol \notin LuncSymbols /\ Denom(symbol) \in Whitelist

\* A denom counts as found before its price is looked at.
ConvertFoundEarly ==
    LET found == {Denom(s) : s \in {t \in DOMAIN published : Listed(t)}}
    IN  {Entry(s, Denom(s), Rate(published[s])) :
            s \in {t \in DOMAIN published : Listed(t) /\ published[t] # 0}}
        \cup {Entry(NoSymbol, "uusd", LuncUSD) : d \in {"uusd"} \cap (Whitelist \ found)}
        \cup {Entry(NoSymbol, d, Abstain) : d \in Whitelist \ (found \cup {"uusd", "UST"})}

\* convertToOraclePrices: the rates of the listed symbols with a price, the
\* dollar, and abstentions for what is missing, UST excepted.
Convert ==
    LET symbols == {s \in DOMAIN published : Listed(s) /\ published[s] # 0}
        found == {Denom(s) : s \in symbols}
    IN  {Entry(s, Denom(s), Rate(published[s])) : s \in symbols}
        \cup {Entry(NoSymbol, "uusd", LuncUSD) : d \in {"uusd"} \cap (Whitelist \ found)}
        \cup {Entry(NoSymbol, d, Abstain) : d \in Whitelist \ (found \cup {"uusd", "UST"})}

\* Without LUNC there is nothing to convert with.
Convertible == DOMAIN published \cap LuncSymbols # {} /\ Convert # {}

\* The prices are fetched and NewPrevote commits to the vote.
Vote ==
    /\ pc = "served"
    /\ Convertible
    /\ vote' = Convert
    /\ pc' = "voted"
    /\ UNCHANGED <<mode, configured, offers, published>>

\* The cycle fails.
Abort ==
    /\ \/ pc \in {"failed", "panicked"}
       \/ pc = "served" /\ ~Convertible
    /\ pc' = "aborted"
    /\ UNCHANGED <<mode, configured, offers, published, vote>>

\* The next period; the sources keep their prices.
NextPeriod ==
    /\ pc \in {"voted", "aborted"}
    /\ pc' = "quoting" /\ published' = <<>> /\ vote' = {}
    /\ UNCHANGED <<mode, configured, offers>>

Next ==
    \/ \E o \in Offers : SetPrice(o)
    \/ Request \/ Aggregate \/ Vote \/ Abort \/ NextPeriod

Spec == Init /\ [][Next]_vars

-----------------------------------------------------------------------------
(* Properties *)

\* The rates of a vote are what the chain can parse and count: every whitelisted
\* denom once, UST at most once, whether prices are missing, zero or superfluous.
\* Only two symbols of one currency, as SDR and XDR, give two entries.
DenomsOnce ==
    pc = "voted" =>
        \A d \in Whitelist :
            LET entries == {e \in vote : e.denom = d}
                symbols == {s \in DOMAIN published : Denom(s) = d /\ published[s] # 0}
            IN  /\ Cardinality(symbols) <= 1 => Cardinality(entries) <= 1
                /\ entries = {} => d = "UST"

\* In median mode entries with more than half of a symbol's weight that are
\* within 10% of each other decide its price, whatever the others say, zero
\* included: the server's price is never outside of theirs.
MajorityDecides ==
    mode = "median" /\ pc = "served" =>
        \A s \in DOMAIN published : \A good \in (SUBSET Entries(s)) \ {{}} :
            LET low == Min({e.price : e \in good})
                high == Max({e.price : e \in good})
            IN  2 * Weight(good) > Weight(Entries(s)) /\ 10 * (high - low) <= low
                    => published[s] \in low..high

\* A cycle is given up only if no source has LUNC against the dollar or any
\* stablecoin, or the server panicked: the alias tables of the server and the
\* names the feeder looks for fit together.
LuncAnywhereSuffices ==
    [][Abort /\ pc # "panicked" =>
          \A o \in offers :
              o.symbol.base # "LUNC" \/ o.symbol.quote \notin Stablecoins \cup {Usd}]_vars

\* The order of Go's maps and of equal prices of different weight (sort.Slice) shows
\* in a price only by the rounding of a sum of weights that is exactly half of the
\* total; if no median is taken of entries whose weights balance in this way, not at
\* all.  If one is, the price may be another one, the next or halfway to it.  That
\* no weight is zero (main.go:263) is essential.
OrderIndependent ==
    pc = "quoting" =>
        \A s \in Offered :
            LET orders == Orders(Entries(s))
                outcomes == {{Aggregated(mode, order, ties) : order \in orders} : ties \in Ties}
            IN  /\ \A prices \in outcomes : Cardinality(prices) = 1
                /\ (\A order \in orders : ~Balanced(mode, order)) => Cardinality(outcomes) = 1

\* The division by a zero median ends a request only in median mode and only if
\* entries with half of some symbol's weight are zero: a single broken source
\* among several equal ones cannot take the server down for a period.
ZeroMedianNeedsHalf ==
    pc = "panicked" =>
        mode = "median" /\ \E s \in Offered :
            2 * Weight({e \in Entries(s) : e.price = 0}) >= Weight(Entries(s))

\* With the default sensitivity of 1.5, or any below the square root of three, if
\* all entries but one agree and there are three or more, the adaptive aggregator
\* publishes the common price.
LoneOutlierRejected ==
    /\ mode \in {"adaptive average", "adaptive median"} /\ pc = "served"
    /\ Square(SensitivityNum) < 3 * Square(SensitivityDen)
    => \A s \in DOMAIN published : \A e \in Entries(s) :
          LET prices == {f.price : f \in Entries(s) \ {e}}
          IN  Cardinality(Entries(s)) >= 3 /\ Cardinality(prices) = 1
                  => published[s] \in prices
=============================================================================
