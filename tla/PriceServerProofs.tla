-------------------------- MODULE PriceServerProofs --------------------------
(***************************************************************************)
(* What the price server promises for every number of concurrent requests  *)
(* and sources, every lifetime of the cache and every bound on the time a  *)
(* request takes, although requests share the cache without a lock.        *)
(***************************************************************************)
EXTENDS PriceServer, TLAPS

\* A request in progress began at most RequestTicks ago.
InTime ==
    \A r \in Requests :
        pc[r] # "idle" => began[r] <= now /\ now <= began[r] + RequestTicks

\* Prices are aggregated, and the clock is read, after the request began.
Aggregated ==
    \A r \in Requests :
        /\ pc[r] \in {"storing", "reading clock", "stamping"} => began[r] <= built[r]
        /\ pc[r] = "stamping" => began[r] <= stamp[r]

\* However the cache was overwritten since, it is at most one request older
\* than any prices that were stored or sent ...
PricesKept ==
    /\ newest <= lastCache + RequestTicks
    /\ \A r \in Requests :
          pc[r] \in {"reading clock", "stamping"} => built[r] <= lastCache + RequestTicks

\* ... and its time at most two requests ahead of its prices.
TimeKept ==
    /\ cacheTime["ext"] <= lastCache + 2 * RequestTicks
    /\ \A r \in Requests :
          pc[r] = "stamping" => stamp[r] <= lastCache + 2 * RequestTicks

\* A request that has written the time finds one that is nearly its own.
TimeRead ==
    \A r \in Requests :
        pc[r] = "stamping" /\ "wall" \notin unwritten[r] =>
            began[r] <= cacheTime["wall"] + RequestTicks

\* The age that was found good when the request fell back.
AgeChecked ==
    \A r \in Requests :
        pc[r] = "serving" =>
            /\ 0 < CacheTTL
            /\ began[r] < lastCache + CacheTTL + 2 * RequestTicks

\* A request visits the sources in turn, from the first to the last.
Visits ==
    \A r \in Requests : /\ pc[r] = "idle" => at[r] = 1
                        /\ pc[r] = "asking" => at[r] <= NumSources

\* Sources healthy and priced all the while are not missed.
Gathered ==
    \A r \in Requests :
        /\ steady[r] \subseteq healthy \cap priced
        /\ pc[r] \in {"gathering", "asking"} =>
              \A s \in steady[r] : s < at[r] => s \in got[r]
        /\ pc[r] \in {"falling back", "serving"} => steady[r] = {}

IInv ==
    /\ TypeOK
    /\ InTime
    /\ Aggregated
    /\ PricesKept
    /\ TimeKept
    /\ TimeRead
    /\ AgeChecked
    /\ Visits
    /\ Gathered

-----------------------------------------------------------------------------
\* The invariant holds initially.
LEMMA InitInvariant == Init => IInv
  <1> SUFFICES ASSUME Init PROVE IInv
    OBVIOUS
  <1> USE ServerAssumption DEF Init
  <1>1. TypeOK
    BY DEF TypeOK, Sources, Times, Words
  <1>2. InTime /\ Aggregated /\ AgeChecked
    BY DEF InTime, Aggregated, AgeChecked
  <1>3. PricesKept /\ TimeKept /\ TimeRead
    BY DEF PricesKept, TimeKept, TimeRead, Words
  <1>4. Visits /\ Gathered
    BY DEF Visits, Gathered
  <1> QED BY <1>1, <1>2, <1>3, <1>4 DEF IInv

-----------------------------------------------------------------------------
Steps == {"idle", "gathering", "asking", "storing", "reading clock", "stamping",
          "falling back", "serving"}

\* The numbers behind the types.
LEMMA Numbers ==
    ASSUME TypeOK
    PROVE  /\ NumSources \in Nat \ {0} /\ CacheTTL \in Nat /\ RequestTicks \in Nat
           /\ now \in Nat /\ now <= MaxTime /\ MaxTime \in Nat
           /\ lastCache \in Nat /\ lastCache <= now
           /\ newest \in Nat /\ newest <= now
           /\ \A w \in Words : cacheTime[w] \in Nat /\ cacheTime[w] <= now
           /\ \A r \in Requests : /\ began[r] \in Nat /\ began[r] <= now
                                  /\ built[r] \in Nat /\ built[r] <= now
                                  /\ stamp[r] \in Nat /\ stamp[r] <= now
                                  /\ at[r] \in Nat /\ 1 <= at[r] /\ at[r] <= NumSources + 1
  <1>1. /\ NumSources \in Nat \ {0} /\ CacheTTL \in Nat /\ RequestTicks \in Nat
        /\ MaxTime \in Nat
    BY ServerAssumption
  <1>2. now \in 0..MaxTime /\ lastCache \in 0..now /\ newest \in 0..now
    BY DEF TypeOK, Times
  <1>3. \A w \in Words : cacheTime[w] \in 0..now
    BY DEF TypeOK
  <1>4. \A r \in Requests : began[r] \in 0..now /\ built[r] \in 0..now /\ stamp[r] \in 0..now
    BY DEF TypeOK
  <1>5. \A r \in Requests : at[r] \in 1..NumSources + 1
    BY DEF TypeOK
  <1> QED BY <1>1, <1>2, <1>3, <1>4, <1>5

\* A finished request leaves its variables in their initial state.
LEMMA FinishTypes ==
    ASSUME TypeOK, NEW r \in Requests, Finish(r)
    PROVE  /\ pc' \in [Requests -> Steps]
           /\ began' \in [Requests -> 0..now] /\ at' \in [Requests -> 1..NumSources + 1]
           /\ got' \in [Requests -> SUBSET Sources]
           /\ built' \in [Requests -> 0..now] /\ stamp' \in [Requests -> 0..now]
           /\ unwritten' \in [Requests -> SUBSET Words]
           /\ steady' \in [Requests -> SUBSET Sources]
  <1>1. 0 \in 0..now /\ 1 \in 1..NumSources + 1
    BY Numbers
  <1>2. "idle" \in Steps
    BY DEF Steps
  <1>3. pc' \in [Requests -> Steps]
    BY <1>2 DEF Finish, TypeOK, Steps
  <1>4. /\ began' \in [Requests -> 0..now] /\ at' \in [Requests -> 1..NumSources + 1]
        /\ built' \in [Requests -> 0..now] /\ stamp' \in [Requests -> 0..now]
    BY <1>1 DEF Finish, TypeOK
  <1>5. /\ got' \in [Requests -> SUBSET Sources] /\ steady' \in [Requests -> SUBSET Sources]
        /\ unwritten' \in [Requests -> SUBSET Words]
    BY DEF Finish, TypeOK
  <1> QED BY <1>3, <1>4, <1>5

\* Every step keeps the types.
LEMMA TypeStep == TypeOK /\ Visits /\ [Next]_vars => TypeOK'
  <1> SUFFICES ASSUME TypeOK, Visits, [Next]_vars PROVE TypeOK'
    OBVIOUS
  <1>0. now \in 0..now /\ 0 \in 0..now
    BY Numbers
  <1>1. CASE Tick
    <2>1. now' = now + 1 /\ now' \in 0..MaxTime
      BY <1>1, Numbers DEF Tick
    <2>2. 0..now \subseteq 0..now'
      BY <2>1, Numbers
    <2> QED BY <1>1, <2>1, <2>2 DEF Tick, TypeOK, Times, shared, request
  <1>2. ASSUME NEW s \in Sources, SourceChange(s) PROVE TypeOK'
    <2>1. /\ healthy' \subseteq Sources /\ priced' \subseteq Sources
          /\ steady' \in [Requests -> SUBSET Sources]
      BY <1>2 DEF SourceChange, TypeOK
    <2> QED BY <1>2, <2>1 DEF SourceChange, TypeOK, shared, request
  <1>3. ASSUME NEW r \in Requests, Handle(r) PROVE TypeOK'
    <2>1. CASE Begin(r)
      <3>1. began' \in [Requests -> 0..now] /\ steady' \in [Requests -> SUBSET Sources]
        BY <2>1, <1>0 DEF Begin, TypeOK
      <3> QED BY <2>1, <3>1 DEF Begin, TypeOK, shared
    <2>2. CASE CheckHealth(r)
      <3>1. at' \in [Requests -> 1..NumSources + 1]
        <4>1. at[r] <= NumSources
          BY <2>2 DEF CheckHealth
        <4>2. at[r] + 1 \in 1..NumSources + 1
          BY <4>1, Numbers
        <4> QED BY <2>2, <4>2 DEF CheckHealth, NextSource, TypeOK
      <3> QED BY <2>2, <3>1 DEF CheckHealth, TypeOK, shared
    <2>3. CASE GetPrices(r)
      <3>1. at' \in [Requests -> 1..NumSources + 1]
        <4>1. at[r] <= NumSources
          BY <2>3 DEF GetPrices, Visits
        <4>2. at[r] + 1 \in 1..NumSources + 1
          BY <4>1, Numbers
        <4> QED BY <2>3, <4>2 DEF GetPrices, NextSource, TypeOK
      <3>2. got' \in [Requests -> SUBSET Sources]
        BY <2>3 DEF GetPrices, TypeOK
      <3> QED BY <2>3, <3>1, <3>2 DEF GetPrices, TypeOK, shared
    <2>4. CASE Aggregate(r)
      <3>1. built' \in [Requests -> 0..now]
        BY <2>4, <1>0 DEF Aggregate, TypeOK
      <3> QED BY <2>4, <3>1 DEF Aggregate, TypeOK, shared
    <2>5. CASE StoreCache(r)
      BY <2>5 DEF StoreCache, TypeOK, request
    <2>6. CASE ReadClock(r)
      <3>1. stamp' \in [Requests -> 0..now] /\ unwritten' \in [Requests -> SUBSET Words]
        BY <2>6, <1>0 DEF ReadClock, TypeOK
      <3> QED BY <2>6, <3>1 DEF ReadClock, TypeOK, shared
    <2>7. CASE StampCache(r)
      <3>1. cacheTime' \in [Words -> 0..now] /\ unwritten' \in [Requests -> SUBSET Words]
        BY <2>7 DEF StampCache, TypeOK
      <3> QED BY <2>7, <3>1 DEF StampCache, TypeOK
    <2>8. CASE Respond(r)
      <3>1. Finish(r) /\ newest' \in 0..now
        BY <2>8 DEF Respond, Reply, TypeOK
      <3> QED BY <2>8, <3>1, FinishTypes DEF Respond, TypeOK, Steps, shared
    <2>9. CASE CheckAge(r)
      BY <2>9 DEF CheckAge, TypeOK, shared, request
    <2>10. CASE ServeCache(r)
      <3>1. Finish(r) /\ newest' \in 0..now
        BY <2>10 DEF ServeCache, Reply, TypeOK
      <3> QED BY <2>10, <3>1, FinishTypes DEF ServeCache, TypeOK, Steps, shared
    <2>11. CASE Refuse(r)
      <3>1. Finish(r)
        BY <2>11 DEF Refuse
      <3> QED BY <2>11, <3>1, FinishTypes DEF Refuse, TypeOK, Steps, shared
    <2> QED BY <1>3, <2>1, <2>2, <2>3, <2>4, <2>5, <2>6, <2>7, <2>8, <2>9, <2>10, <2>11
            DEF Handle
  <1>4. CASE UNCHANGED vars
    BY <1>4 DEF vars, shared, request, TypeOK
  <1> QED BY <1>1, <1>2, <1>3, <1>4 DEF Next

-----------------------------------------------------------------------------
\* A step of one request touches no other request's variables.
LEMMA OthersStay ==
    ASSUME TypeOK, NEW r \in Requests, Handle(r), NEW x \in Requests, x # r
    PROVE  /\ pc'[x] = pc[x] /\ began'[x] = began[x] /\ at'[x] = at[x] /\ got'[x] = got[x]
           /\ built'[x] = built[x] /\ stamp'[x] = stamp[x]
           /\ unwritten'[x] = unwritten[x] /\ steady'[x] = steady[x]
  <1> USE DEF TypeOK, shared, request
  <1>1. CASE Begin(r)
    BY <1>1 DEF Begin
  <1>2. CASE CheckHealth(r)
    BY <1>2 DEF CheckHealth, NextSource
  <1>3. CASE GetPrices(r)
    BY <1>3 DEF GetPrices, NextSource
  <1>4. CASE Aggregate(r)
    BY <1>4 DEF Aggregate
  <1>5. CASE StoreCache(r)
    BY <1>5 DEF StoreCache
  <1>6. CASE ReadClock(r)
    BY <1>6 DEF ReadClock
  <1>7. CASE StampCache(r)
    BY <1>7 DEF StampCache
  <1>8. CASE Respond(r) \/ ServeCache(r) \/ Refuse(r)
    <2>1. Finish(r)
      BY <1>8 DEF Respond, ServeCache, Refuse, Reply
    <2> QED BY <2>1 DEF Finish
  <1>9. CASE CheckAge(r)
    BY <1>9 DEF CheckAge
  <1> QED BY <1>1, <1>2, <1>3, <1>4, <1>5, <1>6, <1>7, <1>8, <1>9 DEF Handle

\* Time only passes in Tick.
LEMMA HandleTakesNoTime ==
    ASSUME NEW r \in Requests, Handle(r)
    PROVE  now' = now
  BY DEF Handle, Begin, CheckHealth, GetPrices, Aggregate, StoreCache, ReadClock, StampCache,
         Respond, CheckAge, ServeCache, Refuse, shared

\* The source in turn changes by one at a time, and only up to the last.
LEMMA VisitsStep == TypeOK /\ Visits /\ [Next]_vars => Visits'
  <1> SUFFICES ASSUME TypeOK, Visits, [Next]_vars, NEW x \in Requests
               PROVE  /\ pc'[x] = "idle" => at'[x] = 1
                      /\ pc'[x] = "asking" => at'[x] <= NumSources
    BY DEF Visits
  <1>1. CASE Tick \/ (\E s \in Sources : SourceChange(s)) \/ UNCHANGED vars
    BY <1>1 DEF Tick, SourceChange, vars, request, Visits
  <1>2. ASSUME NEW r \in Requests, Handle(r)
        PROVE  /\ pc'[x] = "idle" => at'[x] = 1
               /\ pc'[x] = "asking" => at'[x] <= NumSources
    <2>1. CASE x # r
      BY <1>2, <2>1, OthersStay DEF Visits
    <2>2. CASE x = r
      <3> USE DEF TypeOK, Visits, shared, request
      <3>1. CASE Begin(r) \/ Aggregate(r) \/ StoreCache(r) \/ ReadClock(r) \/ StampCache(r)
                   \/ CheckAge(r)
        BY <3>1, <2>2 DEF Begin, Aggregate, StoreCache, ReadClock, StampCache, CheckAge
      <3>2. CASE CheckHealth(r)
        BY <3>2, <2>2 DEF CheckHealth
      <3>3. CASE GetPrices(r)
        BY <3>3, <2>2 DEF GetPrices
      <3>4. CASE Respond(r) \/ ServeCache(r) \/ Refuse(r)
        <4>1. Finish(r)
          BY <3>4 DEF Respond, ServeCache, Refuse, Reply
        <4> QED BY <4>1, <2>2 DEF Finish
      <3> QED BY <1>2, <3>1, <3>2, <3>3, <3>4 DEF Handle
    <2> QED BY <2>1, <2>2
  <1> QED BY <1>1, <1>2 DEF Next

\* A request that would be too long ends before time goes on.
LEMMA InTimeStep == TypeOK /\ InTime /\ [Next]_vars => InTime'
  <1> SUFFICES ASSUME TypeOK, InTime, [Next]_vars, NEW x \in Requests, pc'[x] # "idle"
               PROVE  began'[x] <= now' /\ now' <= began'[x] + RequestTicks
    BY DEF InTime
  <1>1. CASE Tick
    <2>1. /\ pc' = pc /\ began' = began /\ now' = now + 1
          /\ pc[x] # "idle" => now < began[x] + RequestTicks
      BY <1>1 DEF Tick, request
    <2> QED BY <2>1, Numbers
  <1>2. CASE (\E s \in Sources : SourceChange(s)) \/ UNCHANGED vars
    BY <1>2 DEF SourceChange, vars, request, InTime
  <1>3. ASSUME NEW r \in Requests, Handle(r)
        PROVE  began'[x] <= now' /\ now' <= began'[x] + RequestTicks
    <2>0. now' = now
      BY <1>3, HandleTakesNoTime
    <2>1. CASE x # r
      BY <1>3, <2>0, <2>1, OthersStay DEF InTime
    <2>2. CASE x = r /\ Begin(r)
      <3>1. began'[x] = now
        BY <2>2 DEF Begin, TypeOK
      <3> QED BY <3>1, <2>0, Numbers
    <2>3. CASE x = r /\ ~Begin(r)
      <3>1. pc[x] # "idle" /\ began' = began
        <4>1. CASE Respond(r) \/ ServeCache(r) \/ Refuse(r)
          <5>1. Finish(r)
            BY <4>1 DEF Respond, ServeCache, Refuse, Reply
          <5>2. pc'[r] = "idle"
            BY <5>1 DEF Finish, TypeOK
          <5> QED BY <5>2, <2>3
        <4>2. CASE ~(Respond(r) \/ ServeCache(r) \/ Refuse(r))
          BY <1>3, <2>3, <4>2 DEF Handle, CheckHealth, GetPrices, Aggregate, StoreCache, ReadClock,
                                  StampCache, CheckAge, request
        <4> QED BY <4>1, <4>2
      <3> QED BY <3>1, <2>0 DEF InTime
    <2> QED BY <2>1, <2>2, <2>3
  <1> QED BY <1>1, <1>2, <1>3 DEF Next

\* Prices and readings of the clock are of the time of their request.
LEMMA AggregatedStep == TypeOK /\ InTime /\ Aggregated /\ [Next]_vars => Aggregated'
  <1> SUFFICES ASSUME TypeOK, InTime, Aggregated, [Next]_vars, NEW x \in Requests
               PROVE  /\ pc'[x] \in {"storing", "reading clock", "stamping"} =>
                            began'[x] <= built'[x]
                      /\ pc'[x] = "stamping" => began'[x] <= stamp'[x]
    BY DEF Aggregated
  <1>1. CASE Tick \/ (\E s \in Sources : SourceChange(s)) \/ UNCHANGED vars
    BY <1>1 DEF Tick, SourceChange, vars, request, Aggregated
  <1>2. ASSUME NEW r \in Requests, Handle(r)
        PROVE  /\ pc'[x] \in {"storing", "reading clock", "stamping"} => began'[x] <= built'[x]
               /\ pc'[x] = "stamping" => began'[x] <= stamp'[x]
    <2>1. CASE x # r
      BY <1>2, <2>1, OthersStay DEF Aggregated
    <2>2. CASE x = r
      <3> USE DEF TypeOK, shared, request
      <3>1. CASE Begin(r) \/ CheckHealth(r) \/ GetPrices(r) \/ CheckAge(r)
        BY <3>1, <2>2 DEF Begin, CheckHealth, GetPrices, CheckAge
      <3>2. CASE Aggregate(r)
        BY <3>2, <2>2 DEF Aggregate, InTime
      <3>3. CASE StoreCache(r) \/ StampCache(r)
        BY <3>3, <2>2 DEF StoreCache, StampCache, Aggregated
      <3>4. CASE ReadClock(r)
        BY <3>4, <2>2 DEF ReadClock, InTime, Aggregated
      <3>5. CASE Respond(r) \/ ServeCache(r) \/ Refuse(r)
        <4>1. Finish(r)
          BY <3>5 DEF Respond, ServeCache, Refuse, Reply
        <4> QED BY <4>1, <2>2 DEF Finish
      <3> QED BY <1>2, <3>1, <3>2, <3>3, <3>4, <3>5 DEF Handle
    <2> QED BY <2>1, <2>2
  <1> QED BY <1>1, <1>2 DEF Next

-----------------------------------------------------------------------------
\* Whoever overwrites the cached prices does it with prices that are at most as
\* old as its own request: nothing known by now is much newer.
LEMMA StoredRecent ==
    ASSUME TypeOK, InTime, Aggregated, NEW r \in Requests, StoreCache(r)
    PROVE  /\ lastCache' = built[r] /\ now <= built[r] + RequestTicks
           /\ now' = now /\ cacheTime' = cacheTime /\ newest' = newest
           /\ began' = began /\ built' = built /\ stamp' = stamp /\ unwritten' = unwritten
           /\ pc[r] = "storing" /\ pc' = [pc EXCEPT ![r] = "reading clock"]
  <1>1. lastCache' = built[r] /\ pc[r] = "storing"
    BY DEF StoreCache
  <1>2. began[r] <= built[r] /\ now <= began[r] + RequestTicks
    BY <1>1 DEF InTime, Aggregated
  <1>3. began[r] \in Nat /\ built[r] \in Nat /\ now \in Nat /\ RequestTicks \in Nat
    BY Numbers
  <1>4. now <= built[r] + RequestTicks
    BY <1>2, <1>3
  <1> QED BY <1>1, <1>3, <1>4 DEF StoreCache, request

\* No other step changes the cached prices.
LEMMA StoredOnlyThere ==
    ASSUME NEW r \in Requests, Handle(r), ~StoreCache(r)
    PROVE  lastCache' = lastCache
  BY DEF Handle, Begin, CheckHealth, GetPrices, Aggregate, ReadClock, StampCache, Respond,
         CheckAge, ServeCache, Refuse, shared

\* The cache stays at most one request behind all prices that were stored or
\* sent.
LEMMA PricesKeptStep ==
    TypeOK /\ InTime /\ Aggregated /\ PricesKept /\ [Next]_vars => PricesKept'
  <1> SUFFICES ASSUME TypeOK, InTime, Aggregated, PricesKept, [Next]_vars PROVE PricesKept'
    OBVIOUS
  <1>1. CASE Tick \/ (\E s \in Sources : SourceChange(s)) \/ UNCHANGED vars
    BY <1>1 DEF Tick, SourceChange, vars, shared, request, PricesKept
  <1>2. ASSUME NEW r \in Requests, StoreCache(r) PROVE PricesKept'
    <2>0. /\ lastCache' = built[r] /\ now <= built[r] + RequestTicks
          /\ newest' = newest /\ built' = built
      BY <1>2, StoredRecent
    <2>1. newest' <= lastCache' + RequestTicks
      <3>1. newest <= built[r] + RequestTicks
        BY <2>0, Numbers
      <3> QED BY <2>0, <3>1
    <2>2. ASSUME NEW x \in Requests PROVE built'[x] <= lastCache' + RequestTicks
      <3>1. built[x] <= built[r] + RequestTicks
        BY <2>0, Numbers
      <3> QED BY <2>0, <3>1
    <2> QED BY <2>1, <2>2 DEF PricesKept
  <1>3. ASSUME NEW r \in Requests, Handle(r), ~StoreCache(r) PROVE PricesKept'
    <2>1. lastCache' = lastCache
      BY <1>3, StoredOnlyThere
    <2>2. newest' <= lastCache' + RequestTicks
      <3>1. CASE Respond(r)
        BY <3>1, <2>1, Numbers DEF Respond, Reply, PricesKept
      <3>2. CASE ServeCache(r)
        <4>1. newest' \in {newest, lastCache}
          BY <3>2 DEF ServeCache, Reply
        <4>2. newest <= lastCache + RequestTicks
          BY DEF PricesKept
        <4>3. lastCache \in Nat /\ RequestTicks \in Nat
          BY Numbers
        <4> QED BY <4>1, <4>2, <4>3, <2>1
      <3>3. CASE ~Respond(r) /\ ~ServeCache(r)
        <4>1. newest' = newest
          BY <1>3, <3>3 DEF Handle, Begin, CheckHealth, GetPrices, Aggregate, ReadClock,
                            StampCache, CheckAge, Refuse
        <4> QED BY <4>1, <2>1 DEF PricesKept
      <3> QED BY <3>1, <3>2, <3>3
    <2>3. ASSUME NEW x \in Requests, pc'[x] \in {"reading clock", "stamping"}
          PROVE  built'[x] <= lastCache' + RequestTicks
      <3>1. CASE x # r
        BY <1>3, <2>1, <2>3, <3>1, OthersStay DEF PricesKept
      <3>2. CASE x = r
        <4>1. pc[x] \in {"reading clock", "stamping"} /\ built' = built
          BY <1>3, <2>3, <3>2 DEF Handle, Begin, CheckHealth, GetPrices, Aggregate, ReadClock,
                      StampCache, Respond, CheckAge, ServeCache, Refuse, Reply, Finish, TypeOK
        <4> QED BY <4>1, <2>1 DEF PricesKept
      <3> QED BY <3>1, <3>2
    <2> QED BY <2>2, <2>3 DEF PricesKept
  <1> QED BY <1>1, <1>2, <1>3 DEF Next

\* The time of the cache stays at most two requests ahead of its prices.
LEMMA TimeKeptStep ==
    TypeOK /\ InTime /\ Aggregated /\ PricesKept /\ TimeKept /\ [Next]_vars => TimeKept'
  <1> SUFFICES ASSUME TypeOK, InTime, Aggregated, PricesKept, TimeKept, [Next]_vars
               PROVE  TimeKept'
    OBVIOUS
  <1>0. "ext" \in Words
    BY DEF Words
  <1>1. CASE Tick \/ (\E s \in Sources : SourceChange(s)) \/ UNCHANGED vars
    BY <1>1 DEF Tick, SourceChange, vars, shared, request, TimeKept
  <1>2. ASSUME NEW r \in Requests, StoreCache(r) PROVE TimeKept'
    <2>0. /\ lastCache' = built[r] /\ now <= built[r] + RequestTicks
          /\ cacheTime' = cacheTime /\ stamp' = stamp
      BY <1>2, StoredRecent
    <2>1. cacheTime'["ext"] <= lastCache' + 2 * RequestTicks
      <3>1. cacheTime["ext"] <= built[r] + 2 * RequestTicks
        BY <1>0, <2>0, Numbers
      <3> QED BY <2>0, <3>1
    <2>2. ASSUME NEW x \in Requests PROVE stamp'[x] <= lastCache' + 2 * RequestTicks
      <3>1. stamp[x] <= built[r] + 2 * RequestTicks
        BY <2>0, Numbers
      <3> QED BY <2>0, <3>1
    <2> QED BY <2>1, <2>2 DEF TimeKept
  <1>3. ASSUME NEW r \in Requests, Handle(r), ~StoreCache(r) PROVE TimeKept'
    <2>1. lastCache' = lastCache
      BY <1>3, StoredOnlyThere
    <2>2. cacheTime'["ext"] <= lastCache' + 2 * RequestTicks
      <3>1. CASE StampCache(r)
        <4>0. cacheTime \in [Words -> 0..now]
          BY DEF TypeOK
        <4>1. cacheTime'["ext"] \in {cacheTime["ext"], stamp[r]} /\ pc[r] = "stamping"
          BY <3>1, <4>0, <1>0 DEF StampCache
        <4> QED BY <4>1, <2>1 DEF TimeKept
      <3>2. CASE ~StampCache(r)
        <4>1. cacheTime' = cacheTime
          BY <1>3, <3>2 DEF Handle, Begin, CheckHealth, GetPrices, Aggregate, ReadClock, Respond,
                            CheckAge, ServeCache, Refuse, shared
        <4> QED BY <4>1, <2>1 DEF TimeKept
      <3> QED BY <3>1, <3>2
    <2>3. ASSUME NEW x \in Requests, pc'[x] = "stamping"
          PROVE  stamp'[x] <= lastCache' + 2 * RequestTicks
      <3>1. CASE x # r
        BY <1>3, <2>1, <2>3, <3>1, OthersStay DEF TimeKept
      <3>2. CASE x = r /\ ReadClock(r)
        <4>1. stamp'[r] = now /\ pc[r] = "reading clock"
          BY <3>2 DEF ReadClock, TypeOK
        <4>2. /\ now <= began[r] + RequestTicks /\ began[r] <= built[r]
              /\ built[r] <= lastCache + RequestTicks
          BY <4>1 DEF InTime, Aggregated, PricesKept
        <4>3. /\ now \in Nat /\ began[r] \in Nat /\ built[r] \in Nat /\ lastCache \in Nat
              /\ RequestTicks \in Nat
          BY Numbers
        <4>4. now <= lastCache + 2 * RequestTicks
          BY <4>2, <4>3
        <4> QED BY <4>1, <4>4, <2>1, <3>2
      <3>3. CASE x = r /\ ~ReadClock(r)
        <4>1. pc[x] = "stamping" /\ stamp' = stamp
          BY <1>3, <2>3, <3>3 DEF Handle, Begin, CheckHealth, GetPrices, Aggregate,
                      StampCache, Respond, CheckAge, ServeCache, Refuse, Reply, Finish, TypeOK
        <4> QED BY <4>1, <2>1 DEF TimeKept
      <3> QED BY <3>1, <3>2, <3>3
    <2> QED BY <2>2, <2>3 DEF TimeKept
  <1> QED BY <1>1, <1>2, <1>3 DEF Next

\* The time that a request reads back is at most one request older than it.
LEMMA TimeReadStep == TypeOK /\ InTime /\ Aggregated /\ TimeRead /\ [Next]_vars => TimeRead'
  <1> SUFFICES ASSUME TypeOK, InTime, Aggregated, TimeRead, [Next]_vars,
                      NEW x \in Requests, pc'[x] = "stamping", "wall" \notin unwritten'[x]
               PROVE  began'[x] <= cacheTime'["wall"] + RequestTicks
    BY DEF TimeRead
  <1>0. "wall" \in Words
    BY DEF Words
  <1>1. CASE Tick \/ (\E s \in Sources : SourceChange(s)) \/ UNCHANGED vars
    BY <1>1 DEF Tick, SourceChange, vars, shared, request, TimeRead
  <1>2. ASSUME NEW r \in Requests, StampCache(r), NEW w \in unwritten[r],
               cacheTime' = [cacheTime EXCEPT ![w] = stamp[r]],
               unwritten' = [unwritten EXCEPT ![r] = @ \ {w}]
        PROVE  began'[x] <= cacheTime'["wall"] + RequestTicks
    <2>0. pc[r] = "stamping" /\ pc' = pc /\ began' = began
      BY <1>2 DEF StampCache
    <2>1. cacheTime \in [Words -> 0..now] /\ unwritten \in [Requests -> SUBSET Words]
      BY DEF TypeOK
    <2>2. CASE w = "wall"
      <3>1. cacheTime'["wall"] = stamp[r]
        BY <1>0, <1>2, <2>1, <2>2
      <3>2. began[r] <= stamp[r] /\ now <= began[r] + RequestTicks
        BY <2>0 DEF InTime, Aggregated
      <3>3. began[x] <= stamp[r] + RequestTicks
        BY <3>2, Numbers
      <3> QED BY <2>0, <3>1, <3>3
    <2>3. CASE w # "wall"
      <3>1. cacheTime'["wall"] = cacheTime["wall"] /\ "wall" \notin unwritten[x]
        BY <1>0, <1>2, <2>1, <2>3
      <3> QED BY <2>0, <3>1 DEF TimeRead
    <2> QED BY <2>2, <2>3
  <1>3. ASSUME NEW r \in Requests, Handle(r), ~StampCache(r)
        PROVE  began'[x] <= cacheTime'["wall"] + RequestTicks
    <2>1. cacheTime' = cacheTime
      BY <1>3 DEF Handle, Begin, CheckHealth, GetPrices, Aggregate, StoreCache, ReadClock,
                  Respond, CheckAge, ServeCache, Refuse, shared
    <2>2. CASE x # r
      BY <1>3, <2>1, <2>2, OthersStay DEF TimeRead
    <2>3. CASE x = r
      <3>1. ~ReadClock(r)
        BY <1>0, <2>3 DEF ReadClock, TypeOK
      <3>2. pc[x] = "stamping" /\ began' = began /\ unwritten' = unwritten
        BY <1>3, <2>3, <3>1 DEF Handle, Begin, CheckHealth, GetPrices, Aggregate, StoreCache,
              Respond, CheckAge, ServeCache, Refuse, Reply, Finish, request, TypeOK
      <3> QED BY <2>1, <3>2 DEF TimeRead
    <2> QED BY <2>2, <2>3
  <1> QED BY <1>1, <1>2, <1>3 DEF Next, StampCache

\* A request that found the cache fresh still has prices that are young enough,
\* whatever was stored since.
LEMMA AgeCheckedStep ==
    TypeOK /\ InTime /\ Aggregated /\ TimeKept /\ AgeChecked /\ [Next]_vars => AgeChecked'
  <1> SUFFICES ASSUME TypeOK, InTime, Aggregated, TimeKept, AgeChecked, [Next]_vars,
                      NEW x \in Requests, pc'[x] = "serving"
               PROVE  0 < CacheTTL /\ began'[x] < lastCache' + CacheTTL + 2 * RequestTicks
    BY DEF AgeChecked
  <1>1. CASE Tick \/ (\E s \in Sources : SourceChange(s)) \/ UNCHANGED vars
    BY <1>1 DEF Tick, SourceChange, vars, shared, request, AgeChecked
  <1>2. ASSUME NEW r \in Requests, StoreCache(r)
        PROVE  0 < CacheTTL /\ began'[x] < lastCache' + CacheTTL + 2 * RequestTicks
    <2>1. /\ lastCache' = built[r] /\ now <= built[r] + RequestTicks /\ began' = began
          /\ pc' = [pc EXCEPT ![r] = "reading clock"]
      BY <1>2, StoredRecent
    <2>2. pc[x] = "serving"
      BY <2>1 DEF TypeOK
    <2>3. 0 < CacheTTL
      BY <2>2 DEF AgeChecked
    <2>4. began[x] < built[r] + CacheTTL + 2 * RequestTicks
      <3>1. began[x] \in Nat /\ began[x] <= now
        BY Numbers
      <3>2. now \in Nat /\ built[r] \in Nat /\ CacheTTL \in Nat /\ RequestTicks \in Nat
        BY Numbers
      <3>3. now <= built[r] + RequestTicks
        BY <2>1
      <3> QED BY <2>3, <3>1, <3>2, <3>3
    <2> QED BY <2>1, <2>3, <2>4
  <1>3. ASSUME NEW r \in Requests, Handle(r), ~StoreCache(r)
        PROVE  0 < CacheTTL /\ began'[x] < lastCache' + CacheTTL + 2 * RequestTicks
    <2>1. lastCache' = lastCache
      BY <1>3, StoredOnlyThere
    <2>2. CASE x # r
      BY <1>3, <2>1, <2>2, OthersStay DEF AgeChecked
    <2>3. CASE x = r /\ CheckAge(r)
      <3>1. Fresh /\ pc[r] = "falling back" /\ began' = began
        BY <2>3 DEF CheckAge, request
      <3>2. /\ now < cacheTime["ext"] + CacheTTL
            /\ cacheTime["ext"] <= lastCache + 2 * RequestTicks
            /\ began[r] <= now
        BY <3>1 DEF Fresh, TimeKept, InTime
      <3>3. cacheTime["ext"] \in Nat /\ cacheTime["ext"] <= now
        BY Numbers DEF Words
      <3>4. 0 < CacheTTL /\ began[r] < lastCache + CacheTTL + 2 * RequestTicks
        BY <3>2, <3>3, Numbers
      <3> QED BY <2>1, <2>3, <3>1, <3>4
    <2>4. CASE x = r /\ ~CheckAge(r)
      <3>1. pc[x] = "serving" /\ began' = began
        BY <1>3, <2>4 DEF Handle, Begin, CheckHealth, GetPrices, Aggregate, ReadClock, StampCache,
              Respond, ServeCache, Refuse, Reply, Finish, TypeOK
      <3> QED BY <2>1, <3>1 DEF AgeChecked
    <2> QED BY <2>2, <2>3, <2>4
  <1> QED BY <1>1, <1>2, <1>3 DEF Next

\* A source that stays healthy with a price is visited and its price is taken.
LEMMA GatheredStep == TypeOK /\ Visits /\ Gathered /\ [Next]_vars => Gathered'
  <1> SUFFICES ASSUME TypeOK, Visits, Gathered, [Next]_vars, NEW x \in Requests
               PROVE  /\ steady'[x] \subseteq healthy' \cap priced'
                      /\ pc'[x] \in {"gathering", "asking"} =>
                            \A s \in steady'[x] : s < at'[x] => s \in got'[x]
                      /\ pc'[x] \in {"falling back", "serving"} => steady'[x] = {}
    BY DEF Gathered
  <1>1. CASE Tick \/ UNCHANGED vars
    BY <1>1 DEF Tick, vars, request, Gathered
  <1>2. ASSUME NEW t \in Sources, SourceChange(t)
        PROVE  /\ steady'[x] \subseteq healthy' \cap priced'
               /\ pc'[x] \in {"gathering", "asking"} =>
                     \A s \in steady'[x] : s < at'[x] => s \in got'[x]
               /\ pc'[x] \in {"falling back", "serving"} => steady'[x] = {}
    <2>1. /\ steady'[x] = steady[x] \cap healthy' /\ priced \subseteq priced'
          /\ pc' = pc /\ at' = at /\ got' = got
      BY <1>2 DEF SourceChange, request
    <2> QED BY <2>1 DEF Gathered
  <1>3. ASSUME NEW r \in Requests, Handle(r)
        PROVE  /\ steady'[x] \subseteq healthy' \cap priced'
               /\ pc'[x] \in {"gathering", "asking"} =>
                     \A s \in steady'[x] : s < at'[x] => s \in got'[x]
               /\ pc'[x] \in {"falling back", "serving"} => steady'[x] = {}
    <2>0. healthy' = healthy /\ priced' = priced
      BY <1>3 DEF Handle, Begin, CheckHealth, GetPrices, Aggregate, StoreCache, ReadClock,
                  StampCache, Respond, CheckAge, ServeCache, Refuse
    <2>1. CASE x # r
      BY <1>3, <2>0, <2>1, OthersStay DEF Gathered
    <2>2. CASE x = r
      <3>a. steady[r] \subseteq Sources /\ at[r] \in 1..NumSources + 1 /\ NumSources \in Nat
        BY ServerAssumption DEF TypeOK
      <3>1. CASE Begin(r)
        <4>1. steady'[r] = healthy \cap priced /\ pc'[r] = "gathering" /\ at'[r] = 1
          BY <3>1 DEF Begin, TypeOK, Visits
        <4>2. \A s \in Sources : ~(s < 1)
          BY DEF Sources
        <4>3. healthy \subseteq Sources
          BY DEF TypeOK
        <4> QED BY <2>0, <2>2, <4>1, <4>2, <4>3
      <3>2. CASE CheckHealth(r)
        <4>1. /\ steady'[r] = steady[r] /\ got'[r] = got[r] /\ pc[r] = "gathering"
              /\ pc'[r] \in {"gathering", "asking"}
              /\ \/ at'[r] = at[r]
                 \/ at'[r] = at[r] + 1 /\ at[r] \notin healthy
          BY <3>2 DEF CheckHealth, NextSource, TypeOK
        <4>2. \A s \in steady[r] : s \in Nat /\ (s < at[r] + 1 => s < at[r] \/ s = at[r])
          BY <3>a DEF Sources
        <4>3. \A s \in steady[r] : (s < at[r] => s \in got[r]) /\ s \in healthy
          BY <4>1 DEF Gathered
        <4>4. steady[r] \subseteq healthy \cap priced
          BY DEF Gathered
        <4> QED BY <2>0, <2>2, <4>1, <4>2, <4>3, <4>4
      <3>3. CASE GetPrices(r)
        <4>1. /\ steady'[r] = steady[r] /\ pc[r] = "asking" /\ pc'[r] = "gathering"
              /\ at'[r] = at[r] + 1 /\ got'[r] = got[r] \cup ({at[r]} \cap priced)
          BY <3>3 DEF GetPrices, NextSource, TypeOK
        <4>2. \A s \in steady[r] : s \in Nat /\ (s < at[r] + 1 => s < at[r] \/ s = at[r])
          BY <3>a DEF Sources
        <4>3. \A s \in steady[r] : (s < at[r] => s \in got[r]) /\ s \in priced
          BY <4>1 DEF Gathered
        <4>4. steady[r] \subseteq healthy \cap priced
          BY DEF Gathered
        <4> QED BY <2>0, <2>2, <4>1, <4>2, <4>3, <4>4
      <3>4. CASE Aggregate(r)
        <4>1. /\ steady'[r] = steady[r] /\ pc[r] = "gathering" /\ at[r] > NumSources
              /\ \/ pc'[r] = "storing"
                 \/ pc'[r] = "falling back" /\ got[r] = {}
          BY <3>4 DEF Aggregate, TypeOK
        <4>2. ASSUME NEW s \in steady[r] PROVE s < at[r]
          <5>1. s \in 1..NumSources
            BY <3>a DEF Sources
          <5>2. at[r] > NumSources
            BY <4>1
          <5>3. at[r] \in Nat /\ NumSources \in Nat
            BY Numbers
          <5> QED BY <5>1, <5>2, <5>3
        <4>3. \A s \in steady[r] : s \in got[r]
          BY <4>1, <4>2 DEF Gathered
        <4>4. steady[r] \subseteq healthy \cap priced
          BY DEF Gathered
        <4> QED BY <2>0, <2>2, <4>1, <4>3, <4>4
      <3>5. CASE StoreCache(r) \/ ReadClock(r) \/ StampCache(r)
        <4>1. steady'[r] = steady[r] /\ pc'[r] \in {"reading clock", "stamping"}
          BY <3>5 DEF StoreCache, ReadClock, StampCache, TypeOK
        <4> QED BY <2>0, <2>2, <4>1 DEF Gathered
      <3>6. CASE CheckAge(r)
        <4>1. steady'[r] = steady[r] /\ pc[r] = "falling back" /\ pc'[r] = "serving"
          BY <3>6 DEF CheckAge, TypeOK
        <4> QED BY <2>0, <2>2, <4>1 DEF Gathered
      <3>7. CASE Respond(r) \/ ServeCache(r) \/ Refuse(r)
        <4>1. Finish(r)
          BY <3>7 DEF Respond, ServeCache, Refuse, Reply
        <4>2. steady'[r] = {} /\ pc'[r] = "idle"
          BY <4>1 DEF Finish, TypeOK
        <4> QED BY <2>2, <4>2
      <3> QED BY <1>3, <3>1, <3>2, <3>3, <3>4, <3>5, <3>6, <3>7 DEF Handle
    <2> QED BY <2>1, <2>2
  <1> QED BY <1>1, <1>2, <1>3 DEF Next

-----------------------------------------------------------------------------
\* The invariant holds in every behaviour of the server.
THEOREM ServerInvariant == Spec => []IInv
  <1>1. IInv /\ [Next]_vars => IInv'
    BY TypeStep, VisitsStep, InTimeStep, AggregatedStep, PricesKeptStep, TimeKeptStep,
       TimeReadStep, AgeCheckedStep, GatheredStep DEF IInv
  <1> QED BY InitInvariant, <1>1, PTL DEF Spec

\* Every variable keeps its type; no time is in the future.
THEOREM ServerTypeCorrect == Spec => []TypeOK
  <1>1. IInv => TypeOK
    BY DEF IInv
  <1> QED BY ServerInvariant, <1>1, PTL

\* No reply from the cache holds prices older than the cache's lifetime and
\* three times the time a request takes.
THEOREM CacheAge == Spec => CacheAgeBounded
  <1>1. ASSUME IInv
        PROVE  [\A r \in Requests :
                  ServeCache(r) => now < lastCache + CacheTTL + 3 * RequestTicks]_vars
    <2>1. ASSUME NEW r \in Requests, ServeCache(r)
          PROVE  now < lastCache + CacheTTL + 3 * RequestTicks
      <3>1. pc[r] = "serving"
        BY <2>1 DEF ServeCache
      <3>2. /\ began[r] < lastCache + CacheTTL + 2 * RequestTicks
            /\ now <= began[r] + RequestTicks
        BY <1>1, <3>1 DEF IInv, AgeChecked, InTime
      <3>3. TypeOK
        BY <1>1 DEF IInv
      <3> QED BY <3>2, <3>3, Numbers
    <2> QED BY <2>1
  <1> QED BY ServerInvariant, <1>1, PTL DEF CacheAgeBounded

\* A request falls back only if no source was healthy with a price all the
\* while.
THEOREM GoodSourceSuffices == Spec => OneGoodSourceSuffices
  <1>1. ASSUME IInv
        PROVE  [\A r \in Requests : ServeCache(r) \/ Refuse(r) => steady[r] = {}]_vars
    <2>1. ASSUME NEW r \in Requests, ServeCache(r) \/ Refuse(r) PROVE steady[r] = {}
      <3>1. pc[r] \in {"falling back", "serving"}
        BY <2>1 DEF ServeCache, Refuse
      <3> QED BY <1>1, <3>1 DEF IInv, Gathered
    <2> QED BY <2>1
  <1> QED BY ServerInvariant, <1>1, PTL DEF OneGoodSourceSuffices

\* The created_at of a reply is at most two requests old.
THEOREM CreatedAt == Spec => CreatedAtHonest
  <1>1. ASSUME IInv
        PROVE  [\A r \in Requests :
                  Respond(r) => now <= cacheTime["wall"] + 2 * RequestTicks]_vars
    <2>1. ASSUME NEW r \in Requests, Respond(r)
          PROVE  now <= cacheTime["wall"] + 2 * RequestTicks
      <3>1. pc[r] = "stamping" /\ "wall" \notin unwritten[r]
        BY <2>1 DEF Respond
      <3>2. began[r] <= cacheTime["wall"] + RequestTicks /\ now <= began[r] + RequestTicks
        BY <1>1, <3>1 DEF IInv, TimeRead, InTime
      <3>3. TypeOK /\ "wall" \in Words
        BY <1>1 DEF IInv, Words
      <3>4. cacheTime["wall"] \in Nat
        BY <3>3, Numbers
      <3> QED BY <3>2, <3>3, <3>4, Numbers
    <2> QED BY <2>1
  <1> QED BY ServerInvariant, <1>1, PTL DEF CreatedAtHonest

\* The cache takes no client back by more than one request.
THEOREM NotFarBehind == Spec => CacheNotFarBehind
  <1>1. IInv => newest <= lastCache + RequestTicks
    BY DEF IInv, PricesKept
  <1>2. IInv => [\A r \in Requests : ServeCache(r) => newest <= lastCache + RequestTicks]_vars
    BY <1>1
  <1> QED BY ServerInvariant, <1>2, PTL DEF CacheNotFarBehind
=============================================================================
