----------------------------- MODULE MCPricePath -----------------------------
(* PricePath for TLC: three sources that quote LUNC, one of them twice, and *)
(* one source of fiat rates with prices that are zero, double or inverted.  *)
EXTENDS PricePath

Pair(b, q) == [base |-> b, quote |-> q]
Offer(source, symbol, price) == [source |-> source, symbol |-> symbol, price |-> price]

LuncOffers ==
    {Offer(source, Pair("LUNC", "USDT"), price) : source \in Sources, price \in {20, 22, 40}}
        \cup {Offer(source, Pair("LUNC", "USDT"), 0) : source \in {1, 2}}
        \cup {Offer(2, Pair("LUNC", "DAI"), price) : price \in {20, 24}}

FiatOffers ==
    {Offer(1, Pair("KRW", "USD"), 0)}
        \cup {Offer(1, Pair("XDR", "USD"), 120)}
        \cup {Offer(1, Pair("USD", "SDR"), 80)}
        \cup {Offer(1, Pair("USDT", "USD"), 98)}

AllOffers == LuncOffers \cup FiatOffers

\* Zero stands for the standard weight, 2.
Weights == {<<0, 1, 0>>, <<1, 2, 6>>}
=============================================================================
