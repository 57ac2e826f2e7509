--------------------------- MODULE PricePathProofs ---------------------------
(***************************************************************************)
(* What the way from prices to votes guarantees for any sources, offers,   *)
(* weights, whitelist and number of periods.  What the aggregators compute *)
(* from the entries of one symbol is in AggregationProofs; here the        *)
(* entries are those the sources' offers make, and the prices go on to the *)
(* rates of a vote.                                                        *)
(***************************************************************************)
EXTENDS PricePath, AggregationProofs

\* The data are what they are meant to be, and there are finitely many offers.
Typed ==
    /\ mode \in Modes /\ configured \in WeightChoices
    /\ IsFiniteSet(offers) /\ \A o \in offers : o.source \in Sources /\ o.price \in Nat
    /\ pc \in {"quoting", "aggregating", "served", "failed", "panicked", "voted", "aborted"}

\* The server's reply covers symbols that were offered, and all of them when it
\* is complete.
Covers ==
    /\ IsFiniteSet(DOMAIN published)
    /\ DOMAIN published \subseteq Offered
    /\ pc = "quoting" => DOMAIN published = {}
    /\ pc = "failed" => offers = {}
    /\ pc = "aggregating" => Remaining # {}
    /\ pc = "served" => DOMAIN published = Offered

\* Each price of the reply is what some order of the present entries gives with
\* some rounding, and none is a panic; a panic is what some order gives for one of
\* the symbols.
Computed ==
    /\ \A s \in DOMAIN published :
          /\ published[s] # Panic
          /\ \E order \in Orders(Entries(s)), ties \in Ties :
                published[s] = Aggregated(mode, order, ties)
    /\ pc = "panicked" =>
          \E s \in Offered : \E order \in Orders(Entries(s)), ties \in Ties :
             Aggregated(mode, order, ties) = Panic

\* The vote is what the reply converts to, and the reply has a price of LUNC.
Voted ==
    IF pc = "voted" THEN vote = Convert /\ DOMAIN published \cap LuncSymbols # {}
    ELSE vote = {}

IInv == Typed /\ Covers /\ Computed /\ Voted

-----------------------------------------------------------------------------
(* The invariant *)

LEMMA InvInit == Init => IInv
<1> SUFFICES ASSUME Init PROVE IInv
  OBVIOUS
<1>1. pc = "quoting" /\ published = <<>> /\ offers = {} /\ vote = {}
  BY DEF Init
<1>2. DOMAIN published = {}
  BY <1>1
<1>3. Typed
  BY <1>1, FS_EmptySet DEF Typed, Init
<1>4. Covers /\ Computed
  BY <1>1, <1>2, FS_EmptySet DEF Covers, Computed
<1> QED
  BY <1>1, <1>3, <1>4 DEF IInv, Voted

\* A source's price is a natural number, turned around or not.
LEMMA SetPriceStep ==
    ASSUME IInv, NEW o \in Offers, SetPrice(o) PROVE IInv'
<1> DEFINE symbol == IF Inverted(o.symbol)
                     THEN [base |-> o.symbol.quote, quote |-> o.symbol.base] ELSE o.symbol
           price == IF Inverted(o.symbol) /\ o.price # 0
                    THEN (One * One) \div o.price ELSE o.price
           kept == {p \in offers : p.source # o.source \/ p.symbol # symbol}
           new == [source |-> o.source, symbol |-> symbol, price |-> price]
<1>1. /\ pc = "quoting" /\ offers' = kept \cup {new}
      /\ UNCHANGED <<mode, configured, pc, published, vote>>
  BY DEF SetPrice
<1>2. DOMAIN published' = {} /\ pc' = "quoting"
  BY <1>1 DEF IInv, Covers
<1>3. o.source \in Sources /\ o.price \in Nat /\ One \in Nat
  BY PathAssumption
<1>4. price \in Nat
  BY <1>3
<1>5. new.source = o.source /\ new.price = price
  OBVIOUS
<1>6. kept \in SUBSET offers
  OBVIOUS
<1> HIDE DEF kept, new, price
<1>7. IsFiniteSet(kept \cup {new})
  BY <1>6, FS_Subset, FS_AddElement DEF IInv, Typed
<1>8. Typed'
  BY <1>1, <1>3, <1>4, <1>5, <1>6, <1>7 DEF IInv, Typed
<1>9. Covers' /\ Computed'
  BY <1>2, FS_EmptySet DEF Covers, Computed
<1> QED
  BY <1>1, <1>8, <1>9 DEF IInv, Voted

\* What the data are depends on these variables only.
LEMMA SameData ==
    ASSUME UNCHANGED <<mode, configured, offers>>
    PROVE  /\ Offered' = Offered /\ \A s : Entries(s)' = Entries(s)
           /\ Typed /\ pc' \in {"quoting", "aggregating", "served", "failed", "panicked",
                                "voted", "aborted"} => Typed'
  BY DEF Offered, Entries, SourceWeight, Typed

LEMMA RequestStep == ASSUME IInv, Request PROVE IInv'
<1>1. /\ DOMAIN published = {} /\ UNCHANGED <<mode, configured, offers, published, vote>>
      /\ pc = "quoting"
      /\ \/ offers = {} /\ pc' = "failed"
         \/ offers # {} /\ pc' = "aggregating"
  BY DEF Request, IInv, Covers
<1>2. offers # {} => Remaining' # {}
  BY <1>1 DEF Remaining, Offered
<1>3. Typed'
  BY <1>1, SameData DEF IInv
<1>4. Covers'
  BY <1>1, <1>2, FS_EmptySet DEF Covers
<1>5. Computed'
  BY <1>1 DEF Computed
<1> QED
  BY <1>1, <1>3, <1>4, <1>5 DEF IInv, Voted

LEMMA AggregateStep == ASSUME IInv, Aggregate PROVE IInv'
<1>1. /\ pc = "aggregating" /\ UNCHANGED <<mode, configured, offers, vote>>
      /\ Remaining # {}
  BY DEF Aggregate, IInv, Covers
<1>2. Offered' = Offered /\ \A s : Entries(s)' = Entries(s)
  BY <1>1, SameData
<1> DEFINE Answer(s, p) ==
        \/ p # Panic /\ Publish(s, p)
        \/ p = Panic /\ pc' = "panicked" /\ UNCHANGED published
<1>3. PICK symbol \in Remaining :
         \E o \in Orders(Entries(symbol)), t \in Ties : Answer(symbol, Aggregated(mode, o, t))
  BY <1>1 DEF Aggregate
<1>4. PICK order \in Orders(Entries(symbol)), ties \in Ties :
         Answer(symbol, Aggregated(mode, order, ties))
  BY <1>3
<1> DEFINE price == Aggregated(mode, order, ties)
<1>5. CASE price # Panic /\ Publish(symbol, price)
  <2>1. /\ published' = [s \in DOMAIN published \cup {symbol} |->
                            IF s = symbol THEN price ELSE published[s]]
        /\ pc' = IF Remaining = {symbol} THEN "served" ELSE "aggregating"
    BY <1>5 DEF Publish
  <2>2. DOMAIN published' = DOMAIN published \cup {symbol}
    BY <2>1
  <2>3. DOMAIN published' \subseteq Offered' /\ Remaining' = Remaining \ {symbol}
    BY <1>1, <1>2, <2>2 DEF IInv, Covers, Remaining
  <2>4. Remaining = {symbol} => DOMAIN published' = Offered'
    BY <1>2, <2>2, <2>3 DEF Remaining
  <2>5. Remaining # {symbol} => Remaining' # {}
    BY <1>1, <2>3
  <2>6. IsFiniteSet(DOMAIN published')
    <3>1. IsFiniteSet(DOMAIN published \cup {symbol})
      BY FS_AddElement DEF IInv, Covers
    <3> QED
      BY <2>2, <3>1
  <2>7. Typed'
    BY <1>1, <2>1, SameData DEF IInv
  <2>8. Covers'
    BY <2>1, <2>3, <2>4, <2>5, <2>6 DEF Covers
  <2>9. Computed'
    <3>1. ASSUME NEW s \in DOMAIN published'
          PROVE  /\ published'[s] # Panic
                 /\ \E o \in Orders(Entries(s)), t \in Ties :
                       published'[s] = Aggregated(mode, o, t)
      <4>1. CASE s = symbol
        BY <1>4, <1>5, <2>1, <2>2, <4>1
      <4>2. CASE s # symbol
        <5>1. s \in DOMAIN published /\ published'[s] = published[s]
          BY <2>1, <2>2, <4>2
        <5> QED
          BY <5>1 DEF IInv, Computed
      <4> QED
        BY <4>1, <4>2
    <3>2. ASSUME NEW s \in DOMAIN published'
          PROVE  \E o \in Orders(Entries(s)'), t \in Ties :
                    published'[s] = Aggregated(mode', o, t)
      BY <1>1, <1>2, <3>1
    <3>3. pc' # "panicked"
      BY <2>1
    <3> QED
      BY <3>1, <3>2, <3>3 DEF Computed
  <2> QED
    BY <1>1, <2>1, <2>7, <2>8, <2>9 DEF IInv, Voted
<1>6. CASE price = Panic /\ pc' = "panicked" /\ UNCHANGED published
  <2>1. Typed'
    BY <1>1, <1>6, SameData DEF IInv
  <2>2. Covers'
    BY <1>2, <1>6 DEF IInv, Covers
  <2>3. \E s \in Offered' : \E o \in Orders(Entries(s)'), t \in Ties :
           Aggregated(mode', o, t) = Panic
    <3>1. symbol \in Offered'
      BY <1>1, <1>2 DEF Remaining
    <3>2. Orders(Entries(symbol)') = Orders(Entries(symbol))
      BY <1>2
    <3>3. Aggregated(mode', order, ties) = Panic
      BY <1>1, <1>6
    <3> QED
      BY <3>1, <3>2, <3>3
  <2>4. ASSUME NEW s \in DOMAIN published'
        PROVE  /\ published'[s] # Panic
               /\ \E o \in Orders(Entries(s)'), t \in Ties :
                     published'[s] = Aggregated(mode', o, t)
    BY <1>1, <1>2, <1>6 DEF IInv, Computed
  <2>5. Computed'
    BY <2>3, <2>4 DEF Computed
  <2> QED
    BY <1>1, <1>6, <2>1, <2>2, <2>5 DEF IInv, Voted
<1> QED
  BY <1>4, <1>5, <1>6

\* Where the server's data and reply stay as they are, so do the invariants on
\* them, in states that say no more about the reply than the ones before.
LEMMA SameReply ==
    ASSUME IInv, UNCHANGED <<mode, configured, offers, published>>,
           pc' \in {"voted", "aborted"} \/ UNCHANGED pc
    PROVE  Typed' /\ Covers' /\ Computed' /\ Convert' = Convert
<1>1. Offered' = Offered /\ \A s : Entries(s)' = Entries(s)
  BY SameData
<1>2. Remaining' = Remaining /\ Convert' = Convert
  BY <1>1 DEF Remaining, Convert, Rate, LuncUSD
<1>3. Typed'
  BY SameData DEF IInv, Typed
<1>4. Covers'
  BY <1>1, <1>2 DEF IInv, Covers
<1>5. ASSUME NEW s \in DOMAIN published'
      PROVE  /\ published'[s] # Panic
             /\ \E o \in Orders(Entries(s)'), t \in Ties :
                   published'[s] = Aggregated(mode', o, t)
  BY <1>1 DEF IInv, Computed
<1>6. pc' = "panicked" =>
         \E s \in Offered' : \E o \in Orders(Entries(s)'), t \in Ties :
            Aggregated(mode', o, t) = Panic
  <2>1. SUFFICES ASSUME pc = "panicked"
                 PROVE  \E s \in Offered' : \E o \in Orders(Entries(s)'), t \in Ties :
                            Aggregated(mode', o, t) = Panic
    OBVIOUS
  <2>2. PICK s \in Offered : \E o \in Orders(Entries(s)), t \in Ties :
           Aggregated(mode, o, t) = Panic
    BY <2>1 DEF IInv, Computed
  <2>3. Orders(Entries(s)') = Orders(Entries(s)) /\ mode' = mode /\ s \in Offered'
    BY <1>1
  <2> QED
    BY <2>2, <2>3
<1>7. Computed'
  BY <1>5, <1>6 DEF Computed
<1> QED
  BY <1>2, <1>3, <1>4, <1>7

LEMMA FeederStep == ASSUME IInv, Vote \/ Abort \/ NextPeriod PROVE IInv'
<1>1. CASE Vote
  <2>1. /\ UNCHANGED <<mode, configured, offers, published>> /\ pc' = "voted"
        /\ vote' = Convert /\ DOMAIN published \cap LuncSymbols # {}
    BY <1>1 DEF Vote, Convertible
  <2>2. Typed' /\ Covers' /\ Computed' /\ Convert' = Convert
    BY <2>1, SameReply
  <2>3. LuncSymbols' = LuncSymbols
    BY DEF LuncSymbols, Lunc
  <2> QED
    BY <2>1, <2>2, <2>3 DEF IInv, Voted
<1>2. CASE Abort
  <2>1. /\ UNCHANGED <<mode, configured, offers, published, vote>> /\ pc' = "aborted"
        /\ pc # "voted"
    BY <1>2 DEF Abort
  <2>2. Typed' /\ Covers' /\ Computed'
    BY <2>1, SameReply
  <2> QED
    BY <2>1, <2>2 DEF IInv, Voted
<1>3. CASE NextPeriod
  <2>1. /\ UNCHANGED <<mode, configured, offers>> /\ pc' = "quoting"
        /\ DOMAIN published' = {} /\ vote' = {}
    BY <1>3 DEF NextPeriod
  <2>2. Typed'
    BY <2>1, SameData DEF IInv
  <2>3. Covers' /\ Computed'
    BY <2>1, FS_EmptySet DEF Covers, Computed
  <2> QED
    BY <2>1, <2>2, <2>3 DEF IInv, Voted
<1> QED
  BY <1>1, <1>2, <1>3

LEMMA InvStep == IInv /\ [Next]_vars => IInv'
<1> SUFFICES ASSUME IInv, [Next]_vars PROVE IInv'
  OBVIOUS
<1>1. CASE Next
  BY <1>1, SetPriceStep, RequestStep, AggregateStep, FeederStep DEF Next
<1>2. CASE UNCHANGED vars
  <2>1. Typed' /\ Covers' /\ Computed' /\ Convert' = Convert
    BY <1>2, SameReply DEF vars
  <2> QED
    BY <1>2, <2>1 DEF IInv, Voted, vars
<1> QED
  BY <1>1, <1>2

-----------------------------------------------------------------------------
(* The theorems *)

\* Every whitelisted denom but UST gets a rate, and one only unless two symbols
\* of it have a price.
LEMMA ConvertedOnce ==
    ASSUME NEW d \in Whitelist
    PROVE  LET entries == {e \in Convert : e.denom = d}
               symbols == {s \in DOMAIN published : Denom(s) = d /\ published[s] # 0}
           IN  /\ entries = {} => d = "UST"
               /\ \A e, f \in entries : e = f \/ \E s, t \in symbols : s # t
<1> DEFINE listed == {s \in DOMAIN published : Listed(s) /\ published[s] # 0}
           found == {Denom(s) : s \in listed}
           entries == {e \in Convert : e.denom = d}
           symbols == {s \in DOMAIN published : Denom(s) = d /\ published[s] # 0}
           Priced(e) == \E s \in symbols \cap listed : e = Entry(s, d, Rate(published[s]))
           Dollar(e) == d = "uusd" /\ e = Entry(NoSymbol, "uusd", LuncUSD)
           Missing(e) == d \notin {"uusd", "UST"} /\ e = Entry(NoSymbol, d, Abstain)
<1>1. \A e : e \in Convert <=>
         \/ \E s \in listed : e = Entry(s, Denom(s), Rate(published[s]))
         \/ "uusd" \in Whitelist \ found /\ e = Entry(NoSymbol, "uusd", LuncUSD)
         \/ \E x \in Whitelist \ (found \cup {"uusd", "UST"}) : e = Entry(NoSymbol, x, Abstain)
  BY Zenon DEF Convert
<1>2. \A s, x, rate : Entry(s, x, rate).denom = x
  BY DEF Entry
<1>3. ASSUME NEW e \in entries
      PROVE  (d \in found /\ Priced(e)) \/ (d \notin found /\ (Dollar(e) \/ Missing(e)))
  BY <1>1, <1>2, <1>3
<1>4. entries = {} => d = "UST"
  <2>1. CASE d \in found
    <3>1. PICK s \in listed : d = Denom(s)
      BY <2>1
    <3>2. Entry(s, Denom(s), Rate(published[s])) \in entries
      BY <1>1, <1>2, <3>1
    <3> QED
      BY <3>2
  <2>2. CASE d \notin found
    <3>1. d = "uusd" => Entry(NoSymbol, "uusd", LuncUSD) \in entries
      BY <1>1, <1>2, <2>2
    <3>2. d \notin {"uusd", "UST"} => Entry(NoSymbol, d, Abstain) \in entries
      BY <1>1, <1>2, <2>2
    <3> QED
      BY <3>1, <3>2
  <2> QED
    BY <2>1, <2>2
<1>5. ASSUME NEW e \in entries, NEW f \in entries
      PROVE  e = f \/ \E s, t \in symbols : s # t
  BY <1>3
<1> QED
  BY <1>4, <1>5

\* A vote is one the chain can parse and count, for any whitelist and any
\* prices: a rate for every whitelisted denom but UST, and no denom twice unless
\* two symbols of it have a price.
THEOREM VoteHasDenomsOnce == Spec => []DenomsOnce
<1>1. IInv => DenomsOnce
  <2> SUFFICES ASSUME IInv, pc = "voted", NEW d \in Whitelist
               PROVE  LET entries == {e \in vote : e.denom = d}
                          symbols == {s \in DOMAIN published :
                                         Denom(s) = d /\ published[s] # 0}
                      IN  /\ Cardinality(symbols) <= 1 => Cardinality(entries) <= 1
                          /\ entries = {} => d = "UST"
    BY DEF DenomsOnce
  <2> DEFINE entries == {e \in vote : e.denom = d}
             symbols == {s \in DOMAIN published : Denom(s) = d /\ published[s] # 0}
  <2>1. vote = Convert
    BY DEF IInv, Voted
  <2>2. entries = {} => d = "UST"
    BY <2>1, ConvertedOnce
  <2>3. IsFiniteSet(symbols)
    <3>1. symbols \in SUBSET DOMAIN published
      OBVIOUS
    <3> QED
      BY <3>1, FS_Subset DEF IInv, Covers
  <2>4. ASSUME Cardinality(symbols) <= 1 PROVE Cardinality(entries) <= 1
    <3>1. \A s, t \in symbols : s = t
      <4>1. SUFFICES ASSUME NEW s \in symbols, NEW t \in symbols, s # t PROVE FALSE
        OBVIOUS
      <4>2. Cardinality({s, t}) = 2 /\ {s, t} \subseteq symbols
        <5>1. IsFiniteSet({s}) /\ Cardinality({s}) = 1
          BY FS_Singleton
        <5>2. t \notin {s}
          BY <4>1
        <5>3. Cardinality({s} \cup {t}) = 1 + 1
          BY <5>1, <5>2, FS_AddElement
        <5>4. {s} \cup {t} = {s, t}
          OBVIOUS
        <5> QED
          BY <5>3, <5>4
      <4>3. Cardinality({s, t}) <= Cardinality(symbols)
        BY <2>3, <4>2, FS_Subset
      <4>4. Cardinality(symbols) \in Nat
        BY <2>3, FS_CardinalityType
      <4> QED
        BY <2>4, <4>2, <4>3, <4>4
    <3>2. \A e, f \in entries : e = f
      BY <2>1, <3>1, ConvertedOnce
    <3>3. CASE entries = {}
      BY <3>3, FS_EmptySet
    <3>4. CASE entries # {}
      <4>1. PICK e : entries = {e}
        BY <3>2, <3>4
      <4>2. Cardinality({e}) = 1
        BY FS_Singleton
      <4> QED
        BY <4>1, <4>2
    <3> QED
      BY <3>3, <3>4
  <2> QED
    BY <2>2, <2>4
<1> QED
  BY <1>1, InvInit, InvStep, PTL DEF Spec

\* A price of LUNC against any dollar or stablecoin, at any source, is found by
\* the feeder: for any other prices the period is not given up unless the server
\* panics.
LEMMA LuncConverts ==
    ASSUME IInv, Abort, pc # "panicked", NEW o \in offers
    PROVE  o.symbol.base # "LUNC" \/ o.symbol.quote \notin Stablecoins \cup {Usd}
<1>1. SUFFICES ASSUME o.symbol.base = "LUNC", o.symbol.quote \in Stablecoins \cup {Usd}
               PROVE  FALSE
  OBVIOUS
<1>2. DOMAIN published = Offered /\ ~Convertible
  BY DEF Abort, IInv, Covers
<1>3. NormalizeSymbol(o.symbol) = Lunc("USD")
  BY <1>1 DEF NormalizeSymbol, Lunc, Stablecoins, Usd
<1>4. Lunc("USD") \in DOMAIN published \cap LuncSymbols
  BY <1>2, <1>3 DEF Offered, LuncSymbols
<1>5. Convert # {}
  <2>1. PICK d \in Whitelist : d # "UST"
    BY PathAssumption
  <2> QED
    BY <2>1, ConvertedOnce
<1> QED
  BY <1>2, <1>4, <1>5 DEF Convertible

\* The alias tables of server and feeder fit together, for all prices.
THEOREM LuncIsFound == Spec => LuncAnywhereSuffices
<1>1. IInv => [Abort /\ pc # "panicked" =>
                  \A o \in offers : o.symbol.base # "LUNC"
                                    \/ o.symbol.quote \notin Stablecoins \cup {Usd}]_vars
  BY LuncConverts
<1> QED
  BY <1>1, InvInit, InvStep, PTL DEF Spec, LuncAnywhereSuffices

-----------------------------------------------------------------------------
(* The prices of the reply *)

\* The entries of a symbol are finitely many with positive weights: a weight
\* that is zero in the configuration is replaced.  An offered symbol has some.
LEMMA EntriesWeighed ==
    ASSUME Typed, NEW s
    PROVE  Weighed(Entries(s)) /\ (s \in Offered => Entries(s) # {})
<1> DEFINE part == {p \in offers : NormalizeSymbol(p.symbol) = s}
           entry(o) == [source |-> o.source, symbol |-> o.symbol, price |-> o.price,
                        weight |-> SourceWeight(o.source)]
           f == [o \in part |-> entry(o)]
<1>1. Entries(s) = {entry(o) : o \in part}
  BY DEF Entries
<1>2. IsFiniteSet(part)
  <2>1. part \in SUBSET offers
    OBVIOUS
  <2> QED
    BY <2>1, FS_Subset DEF Typed
<1>3. f \in Surjection(part, Entries(s))
  BY <1>1 DEF Surjection
<1>4. IsFiniteSet(Entries(s))
  <2> HIDE DEF part, f
  <2> QED
    BY <1>2, <1>3, FS_Surjection
<1>5. ASSUME NEW e \in Entries(s)
      PROVE  e.price \in Nat /\ e.weight \in Nat \ {0}
  <2>1. PICK o \in part : e = entry(o)
    BY <1>1
  <2>2. o.price \in Nat /\ configured[o.source] \in Nat /\ StandardWeight \in Nat \ {0}
    BY PathAssumption DEF Typed
  <2>3. SourceWeight(o.source) \in Nat \ {0}
    BY <2>2 DEF SourceWeight
  <2> QED
    BY <2>1, <2>2, <2>3
<1>6. s \in Offered => Entries(s) # {}
  BY <1>1 DEF Offered
<1> QED
  BY <1>4, <1>5, <1>6 DEF Weighed

\* What a published price is.
LEMMA PublishedPrice ==
    ASSUME IInv, NEW s \in DOMAIN published
    PROVE  /\ Weighed(Entries(s)) /\ Entries(s) # {} /\ published[s] \in Nat
           /\ \E order \in Orders(Entries(s)), ties \in Ties :
                 /\ published[s] = Aggregated(mode, order, ties)
                 /\ Aggregated(mode, order, ties) # Panic
<1>1. Weighed(Entries(s)) /\ Entries(s) # {} /\ mode \in Modes
  BY EntriesWeighed DEF IInv, Covers, Typed
<1>2. PICK order \in Orders(Entries(s)), ties \in Ties :
         /\ published[s] = Aggregated(mode, order, ties)
         /\ Aggregated(mode, order, ties) # Panic
  BY DEF IInv, Computed
<1>3. Aggregated(mode, order, ties) \in Nat \cup {Panic}
  BY <1>1, AggregatedType
<1> QED
  BY <1>1, <1>2, <1>3

\* The rates of a vote are natural numbers: no division by zero is left.
LEMMA RatesAreNatural ==
    ASSUME IInv, pc = "voted", NEW v \in vote
    PROVE  v.denom \in Whitelist /\ v.rate \in Nat
<1> DEFINE listed == {s \in DOMAIN published : Listed(s) /\ published[s] # 0}
           found == {Denom(s) : s \in listed}
<1>1. v \in Convert /\ DOMAIN published \cap LuncSymbols # {}
  BY DEF IInv, Voted
<1>2. \A s \in DOMAIN published : published[s] \in Nat
  BY PublishedPrice
<1>3. LuncUSD \in Nat
  <2>1. LuncUSD \in {published[s] : s \in DOMAIN published}
    BY <1>1, Zenon DEF LuncUSD, LuncSymbols
  <2> QED
    BY <1>2, <2>1
<1>4. ASSUME NEW price \in Nat \ {0} PROVE Rate(price) \in Nat
  <2>1. One \in Nat \ {0}
    BY PathAssumption
  <2>2. One * One + (price \div 2) \in Nat
    BY <2>1
  <2>3. (One * One + (price \div 2)) \div price \in Nat
    BY <2>2
  <2>4. ((One * One + (price \div 2)) \div price) * LuncUSD \in Nat
    BY <1>3, <2>3
  <2> QED
    BY <2>1, <2>4 DEF Rate
<1>5. \A s, d, rate : Entry(s, d, rate).denom = d /\ Entry(s, d, rate).rate = rate
  BY DEF Entry
<1>6. \/ \E s \in listed : v = Entry(s, Denom(s), Rate(published[s]))
      \/ "uusd" \in Whitelist /\ v = Entry(NoSymbol, "uusd", LuncUSD)
      \/ \E d \in Whitelist : v = Entry(NoSymbol, d, Abstain)
  BY <1>1, Zenon DEF Convert
<1>7. CASE \E s \in listed : v = Entry(s, Denom(s), Rate(published[s]))
  <2>1. PICK s \in listed : v = Entry(s, Denom(s), Rate(published[s]))
    BY <1>7
  <2>2. Denom(s) \in Whitelist /\ published[s] \in Nat \ {0}
    BY <1>2 DEF Listed
  <2> QED
    BY <1>4, <1>5, <2>1, <2>2
<1>8. CASE "uusd" \in Whitelist /\ v = Entry(NoSymbol, "uusd", LuncUSD)
  BY <1>3, <1>5, <1>8
<1>9. CASE \E d \in Whitelist : v = Entry(NoSymbol, d, Abstain)
  BY <1>5, <1>9 DEF Abstain
<1> QED
  BY <1>6, <1>7, <1>8, <1>9

\* A published price and a rate are natural numbers, for any prices, weights and
\* modes: the panic of a zero median never passes for a price.
THEOREM PathTypeCorrect == Spec => []TypeOK
<1>1. IInv => TypeOK
  <2> SUFFICES ASSUME IInv PROVE TypeOK
    OBVIOUS
  <2>1. \A s \in DOMAIN published : published[s] \in Nat
    BY PublishedPrice
  <2>2. \A v \in vote : v.denom \in Whitelist /\ v.rate \in Nat
    BY RatesAreNatural DEF IInv, Voted
  <2> QED
    BY <2>1, <2>2 DEF IInv, Typed, TypeOK
<1> QED
  BY <1>1, InvInit, InvStep, PTL DEF Spec

\* Entries with more than half of the weight, within 10% of each other, decide
\* the median price: the reply is never outside of theirs, whatever the other
\* sources say, for any number of sources and any weights.
THEOREM MajorityDecidesAlways == Spec => []MajorityDecides
<1>1. IInv => MajorityDecides
  <2> SUFFICES ASSUME IInv, mode = "median", pc = "served", NEW s \in DOMAIN published,
                      NEW good \in (SUBSET Entries(s)) \ {{}},
                      2 * Weight(good) > Weight(Entries(s)),
                      10 * (Max(Prices(good)) - Min(Prices(good))) <= Min(Prices(good))
               PROVE  published[s] \in Min(Prices(good))..Max(Prices(good))
    BY DEF MajorityDecides, Prices
  <2> DEFINE E == Entries(s)
             low == Min(Prices(good))
             high == Max(Prices(good))
  <2>1. Weighed(E) /\ E # {} /\ good \in SUBSET E
    BY PublishedPrice
  <2>2. PICK order \in Orders(E), ties \in Ties :
           /\ published[s] = Aggregated(mode, order, ties)
           /\ Aggregated(mode, order, ties) # Panic
    BY PublishedPrice
  <2>3. published[s] = MedianPriceOf(E, ties) /\ MedianPriceOf(E, ties) # Panic
    <3>1. Aggregated(mode, order, ties) = MedianPrice(order, ties)
      BY Zenon DEF Aggregated
    <3> QED
      BY <2>1, <2>2, <3>1, MedianPriceOfSet
  <2>4. Prices(good) \in SUBSET Nat /\ Prices(good) # {}
    BY <2>1 DEF Weighed, Prices
  <2>5. low \in Prices(good) /\ \A p \in Prices(good) : low <= p
    BY <2>4, MinProperties
  <2>6. high \in Prices(good) /\ \A p \in Prices(good) : p <= high
    <3>1. Weighed(good)
      BY <2>1, FS_Subset DEF Weighed
    <3>2. PICK g \in good : \A e \in good : e.price <= g.price
      BY <3>1, HighestEntry
    <3>3. g.price \in Prices(good) /\ \A p \in Prices(good) : g.price >= p
      BY <2>4, <3>2 DEF Prices
    <3>4. high \in Prices(good) /\ \A p \in Prices(good) : high >= p
      BY <3>3 DEF Max
    <3> QED
      BY <2>4, <3>4
  <2>7. \A g \in good : g.price \in Prices(good)
    BY DEF Prices
  <2>8. \A g \in good : low <= g.price /\ g.price <= high
    BY <2>5, <2>6, <2>7
  <2>9. low \in Nat
    BY <2>4, <2>5
  <2> HIDE DEF low, high, E
  <2>10. 2 * Weight(good) > Weight(E) /\ 10 * (high - low) <= low
    BY DEF low, high, E
  <2>11. MedianPriceOf(E, ties) \in low..high
    BY <2>1, <2>3, <2>6, <2>8, <2>9, <2>10, MajorityDecidesPrice
  <2> QED
    BY <2>3, <2>11 DEF low, high
<1> QED
  BY <1>1, InvInit, InvStep, PTL DEF Spec

\* In every mode all orders give the same price for the same rounding, for any
\* sources and weights; and every rounding gives the same price unless a median is
\* taken of entries of which exactly half of the weight is at or below some price.
THEOREM OrderIsIrrelevant == Spec => []OrderIndependent
<1>1. IInv => OrderIndependent
  <2> SUFFICES ASSUME IInv, NEW s \in Offered
               PROVE  LET orders == Orders(Entries(s))
                          outcomes == {{Aggregated(mode, order, ties) : order \in orders} :
                                          ties \in Ties}
                      IN  /\ \A prices \in outcomes : Cardinality(prices) = 1
                          /\ (\A order \in orders : ~Balanced(mode, order))
                                => Cardinality(outcomes) = 1
    BY DEF OrderIndependent
  <2> DEFINE orders == Orders(Entries(s))
             prices(ties) == {Aggregated(mode, order, ties) : order \in orders}
             outcomes == {prices(ties) : ties \in Ties}
             exact == [initial |-> "exact", final |-> "exact"]
  <2>1. Weighed(Entries(s)) /\ Entries(s) # {} /\ mode \in Modes
    BY EntriesWeighed DEF IInv, Typed
  <2>2. PICK first : first \in orders
    BY <2>1, OrderExists
  <2>3. ASSUME NEW ties \in Ties PROVE prices(ties) = {Aggregated(mode, first, ties)}
    <3>1. \A order \in orders : Aggregated(mode, order, ties) = Aggregated(mode, first, ties)
      BY <2>1, <2>2, OrdersAgree
    <3> QED
      BY <2>2, <3>1
  <2>4. \A ties \in Ties : Cardinality(prices(ties)) = 1
    BY <2>3, FS_Singleton
  <2>5. ASSUME \A order \in orders : ~Balanced(mode, order)
        PROVE  Cardinality(outcomes) = 1
    <3>1. exact \in Ties
      BY DEF Ties, Roundings
    <3> HIDE DEF exact
    <3>2. ASSUME NEW ties \in Ties PROVE prices(ties) = prices(exact)
      <4>1. Aggregated(mode, first, ties) = Aggregated(mode, first, exact)
        BY <2>1, <2>2, <2>5, RoundingNeedsBalance
      <4> QED
        BY <2>3, <3>1, <4>1
    <3> HIDE DEF prices
    <3>3. outcomes = {prices(exact)}
      BY <3>1, <3>2
    <3> QED
      BY <3>3, FS_Singleton
  <2> QED
    BY <2>4, <2>5
<1> QED
  BY <1>1, InvInit, InvStep, PTL DEF Spec

\* The server panics for half of a symbol's weight at zero only, and in median
\* mode only.
THEOREM PanicNeedsHalf == Spec => []ZeroMedianNeedsHalf
<1>1. IInv => ZeroMedianNeedsHalf
  <2> SUFFICES ASSUME IInv, pc = "panicked"
               PROVE  mode = "median" /\ \E s \in Offered :
                         2 * Weight({e \in Entries(s) : e.price = 0}) >= Weight(Entries(s))
    BY DEF ZeroMedianNeedsHalf
  <2>1. PICK s \in Offered : \E order \in Orders(Entries(s)), ties \in Ties :
           Aggregated(mode, order, ties) = Panic
    BY DEF IInv, Computed
  <2>2. PICK order \in Orders(Entries(s)), ties \in Ties :
           Aggregated(mode, order, ties) = Panic
    BY <2>1
  <2>3. Weighed(Entries(s)) /\ Entries(s) # {} /\ mode \in Modes
    BY EntriesWeighed DEF IInv, Typed
  <2>4. mode = "median" /\ 2 * Weight(AtMost(Entries(s), 0)) >= Weight(Entries(s))
    BY <2>2, <2>3, AggregatedType
  <2>5. AtMost(Entries(s), 0) = {e \in Entries(s) : e.price = 0}
    BY <2>3 DEF AtMost, Weighed
  <2> QED
    BY <2>4, <2>5
<1> QED
  BY <1>1, InvInit, InvStep, PTL DEF Spec

\* In any mode a published price lies between the lowest and the highest price
\* that the sources have for the symbol: no filter, median or rounded average leads
\* outside.
WithinOffers ==
    \A s \in DOMAIN published : \E low, high \in Entries(s) :
        low.price <= published[s] /\ published[s] <= high.price

THEOREM PricesWithinOffers == Spec => []WithinOffers
<1>1. IInv => WithinOffers
  <2> SUFFICES ASSUME IInv, NEW s \in DOMAIN published
               PROVE  \E low, high \in Entries(s) :
                          low.price <= published[s] /\ published[s] <= high.price
    BY DEF WithinOffers
  <2>1. Weighed(Entries(s)) /\ Entries(s) # {} /\ mode \in Modes
    BY PublishedPrice DEF IInv, Typed
  <2>2. PICK order \in Orders(Entries(s)), ties \in Ties :
           /\ published[s] = Aggregated(mode, order, ties)
           /\ Aggregated(mode, order, ties) # Panic
    BY PublishedPrice
  <2> QED
    BY <2>1, <2>2, PriceBetween
<1> QED
  BY <1>1, InvInit, InvStep, PTL DEF Spec

\* One outlier among three or more entries never moves the adaptive price, for a
\* sensitivity below the square root of three.
THEOREM LoneOutlierIsRejected == Spec => []LoneOutlierRejected
<1>1. IInv => LoneOutlierRejected
  <2> SUFFICES ASSUME IInv, pc = "served", Square(SensitivityNum) < 3 * Square(SensitivityDen),
                      NEW final \in {"average", "median"},
                      \A order, ties :
                         Aggregated(mode, order, ties) = AdaptivePrice(order, final, ties.final),
                      NEW s \in DOMAIN published, NEW e \in Entries(s),
                      Cardinality(Entries(s)) >= 3,
                      Cardinality({f.price : f \in Entries(s) \ {e}}) = 1
               PROVE  published[s] \in {f.price : f \in Entries(s) \ {e}}
    BY AdaptiveModes, Zenon DEF LoneOutlierRejected
  <2> DEFINE E == Entries(s)
  <2>1. Weighed(E) /\ E # {}
    BY PublishedPrice
  <2>2. PICK order \in Orders(E), ties \in Ties :
           published[s] = AdaptivePrice(order, final, ties.final)
    BY PublishedPrice
  <2> HIDE DEF E
  <2>3. Cardinality(E) >= 3 /\ e \in E /\ Cardinality({f.price : f \in E \ {e}}) = 1
    BY DEF E
  <2>4. AdaptivePrice(order, final, ties.final) \in {f.price : f \in E \ {e}}
    BY <2>1, <2>3, LoneOutlierAgreed
  <2> QED
    BY <2>2, <2>4 DEF E
<1> QED
  BY <1>1, InvInit, InvStep, PTL DEF Spec
=============================================================================
