----------------------------- MODULE PriceServer -----------------------------
(***************************************************************************)
(* The price server's HTTP API (pkg/server/api/http.go): every request     *)
(* goes through the sources, aggregates what the healthy ones have, leaves *)
(* the result in a cache that all requests share, and falls back to that   *)
(* cache when no source had a price.  net/http runs every request in its   *)
(* own goroutine and Server has no lock: lastCache and cacheTime are       *)
(* written and read in any order, one machine word at a time.              *)
(*                                                                         *)
(* Prices are left out.  A set of prices is the time it was aggregated at, *)
(* a source is whether it is healthy and whether it has a price.  Time     *)
(* passes between steps, but no request takes longer than RequestTicks.    *)
(***************************************************************************)
EXTENDS Naturals

CONSTANTS Requests,       \* goroutines that handle requests
          NumSources,     \* sources in the order of the configuration
          FirstPriced,    \* sources whose first fetch, in Start, found prices
          CacheTTL,       \* server.cache_ttl
          RequestTicks,   \* bound: the time a request takes
          MaxTime         \* bound: the time that passes

ASSUME ServerAssumption ==
    /\ NumSources \in Nat \ {0}
    /\ FirstPriced \subseteq 1..NumSources
    /\ CacheTTL \in Nat /\ RequestTicks \in Nat /\ MaxTime \in Nat \ {0}

Sources == 1..NumSources
Times == 0..MaxTime
Words == {"wall", "ext"}

VARIABLES now,         \* monotonic time since the process started
          healthy,     \* sources that report to be healthy
          priced,      \* sources that have a price; prices are never deleted
          lastCache,   \* when the cached prices were aggregated, 0 for none
          cacheTime,   \* the words of the time.Time; wall 0 for the zero Time
          pc,          \* where a request is
          began,       \* when it began
          at,          \* the next source
          got,         \* sources whose prices it has
          built,       \* when it aggregated them
          stamp,       \* its reading of the clock ...
          unwritten,   \* ... and the words of cacheTime still to be written
          steady,      \* history: sources healthy and priced ever since it began
          newest       \* history: the newest prices in any reply

shared == <<lastCache, cacheTime>>

\* The local variables of a request.
request == <<began, at, got, built, stamp, unwritten>>
vars == <<now, healthy, priced, shared, pc, request, steady, newest>>

TypeOK ==
    /\ now \in Times
    /\ healthy \subseteq Sources /\ priced \subseteq Sources
    /\ lastCache \in 0..now /\ cacheTime \in [Words -> 0..now]
    /\ pc \in [Requests -> {"idle", "gathering", "asking", "storing", "reading clock",
                            "stamping", "falling back", "serving"}]
    /\ began \in [Requests -> 0..now]
    /\ at \in [Requests -> 1..NumSources + 1]
    /\ got \in [Requests -> SUBSET Sources]
    /\ built \in [Requests -> 0..now] /\ stamp \in [Requests -> 0..now]
    /\ unwritten \in [Requests -> SUBSET Words]
    /\ steady \in [Requests -> SUBSET Sources]
    /\ newest \in 0..now

\* main starts the API after the sources; the clock has moved on by then.
Init ==
    /\ now = 1
    /\ healthy \in SUBSET Sources /\ priced = FirstPriced
    /\ lastCache = 0 /\ cacheTime = [w \in Words |-> 0]
    /\ pc = [r \in Requests |-> "idle"]
    /\ began = [r \in Requests |-> 0] /\ at = [r \in Requests |-> 1]
    /\ got = [r \in Requests |-> {}] /\ unwritten = [r \in Requests |-> {}]
    /\ built = [r \in Requests |-> 0] /\ stamp = [r \in Requests |-> 0]
    /\ steady = [r \in Requests |-> {}] /\ newest = 0

-----------------------------------------------------------------------------
(* Time and the sources *)

Tick ==
    /\ now < MaxTime
    /\ \A r \in Requests : pc[r] # "idle" => now < began[r] + RequestTicks
    /\ now' = now + 1
    /\ UNCHANGED <<healthy, priced, shared, pc, request, steady, newest>>

\* A source fetches a price and is healthy, finds one without being healthy, or
\* fails.  Its health and its prices have a lock each.
SourceChange(s) ==
    /\ \/ healthy' = healthy \cup {s} /\ UNCHANGED priced
       \/ healthy' = healthy \ {s} /\ UNCHANGED priced
       \/ priced' = priced \cup {s} /\ UNCHANGED healthy
    /\ steady' = [r \in Requests |-> steady[r] \cap healthy']
    /\ UNCHANGED <<now, shared, pc, request, newest>>

-----------------------------------------------------------------------------
(* handlePrices *)

Begin(r) ==
    /\ pc[r] = "idle"
    /\ pc' = [pc EXCEPT ![r] = "gathering"]
    /\ began' = [began EXCEPT ![r] = now]
    /\ steady' = [steady EXCEPT ![r] = healthy \cap priced]
    /\ UNCHANGED <<now, healthy, priced, shared, at, got, built, stamp, unwritten, newest>>

NextSource(r) == at' = [at EXCEPT ![r] = at[r] + 1]

\* IsHealthy: a source that is not is skipped.
CheckHealth(r) ==
    /\ pc[r] = "gathering" /\ at[r] <= NumSources
    /\ \/ /\ at[r] \in healthy
          /\ pc' = [pc EXCEPT ![r] = "asking"]
          /\ UNCHANGED at
       \/ /\ at[r] \notin healthy
          /\ NextSource(r)
          /\ UNCHANGED pc
    /\ UNCHANGED <<now, healthy, priced, shared, began, got, built, stamp, unwritten,
                   steady, newest>>

\* A source without a price ends the round instead of being skipped.
GetPricesOrGiveUp(r) ==
    /\ pc[r] = "asking"
    /\ \/ /\ at[r] \in priced
          /\ got' = [got EXCEPT ![r] = @ \cup {at[r]}]
          /\ pc' = [pc EXCEPT ![r] = "gathering"]
          /\ NextSource(r)
       \/ /\ at[r] \notin priced
          /\ pc' = [pc EXCEPT ![r] = "falling back"]
          /\ UNCHANGED <<got, at>>
    /\ UNCHANGED <<now, healthy, priced, shared, began, built, stamp, unwritten, steady,
                   newest>>

\* GetPrices: an error, or an empty map, adds nothing.
GetPrices(r) ==
    /\ pc[r] = "asking"
    /\ got' = [got EXCEPT ![r] = @ \cup ({at[r]} \cap priced)]
    /\ pc' = [pc EXCEPT ![r] = "gathering"]
    /\ NextSource(r)
    /\ UNCHANGED <<now, healthy, priced, shared, began, built, stamp, unwritten, steady,
                   newest>>

\* Aggregate fails when there are no prices, whether no source answered or all
\* of them with an empty map.
Aggregate(r) ==
    /\ pc[r] = "gathering" /\ at[r] > NumSources
    /\ \/ /\ got[r] # {}
          /\ built' = [built EXCEPT ![r] = now]
          /\ pc' = [pc EXCEPT ![r] = "storing"]
       \/ /\ got[r] = {}
          /\ pc' = [pc EXCEPT ![r] = "falling back"]
          /\ UNCHANGED built
    /\ UNCHANGED <<now, healthy, priced, shared, began, at, got, stamp, unwritten, steady,
                   newest>>

\* The time since cacheTime is measured on the monotonic clock, that is by the
\* word ext, unless the word wall says that there is no such reading; a time
\* without one counts from the year 1.
Fresh == cacheTime["wall"] # 0 /\ now < cacheTime["ext"] + CacheTTL

\* Prices are written to the cache only when the cached ones have expired.
StoreCacheExpired(r) ==
    /\ pc[r] = "storing"
    /\ lastCache' = IF Fresh THEN lastCache ELSE built[r]
    /\ pc' = [pc EXCEPT ![r] = "reading clock"]
    /\ UNCHANGED <<now, healthy, priced, cacheTime, request, steady, newest>>

StoreCache(r) ==
    /\ pc[r] = "storing"
    /\ lastCache' = built[r]
    /\ pc' = [pc EXCEPT ![r] = "reading clock"]
    /\ UNCHANGED <<now, healthy, priced, cacheTime, request, steady, newest>>

\* The cache keeps its time while it is fresh.
ReadClockExpired(r) ==
    /\ pc[r] = "reading clock"
    /\ stamp' = [stamp EXCEPT ![r] = now]
    /\ unwritten' = [unwritten EXCEPT ![r] = IF Fresh THEN {} ELSE Words]
    /\ pc' = [pc EXCEPT ![r] = "stamping"]
    /\ UNCHANGED <<now, healthy, priced, shared, began, at, got, built, steady, newest>>

\* The cache keeps the time at which it expires.
ReadClockExpiry(r) ==
    /\ pc[r] = "reading clock"
    /\ stamp' = [stamp EXCEPT ![r] = now + CacheTTL]
    /\ unwritten' = [unwritten EXCEPT ![r] = Words]
    /\ pc' = [pc EXCEPT ![r] = "stamping"]
    /\ UNCHANGED <<now, healthy, priced, shared, began, at, got, built, steady, newest>>

ReadClock(r) ==
    /\ pc[r] = "reading clock"
    /\ stamp' = [stamp EXCEPT ![r] = now]
    /\ unwritten' = [unwritten EXCEPT ![r] = Words]
    /\ pc' = [pc EXCEPT ![r] = "stamping"]
    /\ UNCHANGED <<now, healthy, priced, shared, began, at, got, built, steady, newest>>

StampCache(r) ==
    /\ pc[r] = "stamping"
    /\ \E w \in unwritten[r] :
          /\ cacheTime' = [cacheTime EXCEPT ![w] = stamp[r]]
          /\ unwritten' = [unwritten EXCEPT ![r] = @ \ {w}]
    /\ UNCHANGED <<now, healthy, priced, lastCache, pc, began, at, got, built, stamp,
                   steady, newest>>

\* The goroutine is done; its local variables go with it.
Finish(r) ==
    /\ pc' = [pc EXCEPT ![r] = "idle"]
    /\ began' = [began EXCEPT ![r] = 0] /\ at' = [at EXCEPT ![r] = 1]
    /\ got' = [got EXCEPT ![r] = {}]
    /\ built' = [built EXCEPT ![r] = 0] /\ stamp' = [stamp EXCEPT ![r] = 0]
    /\ steady' = [steady EXCEPT ![r] = {}]
    /\ UNCHANGED unwritten

Reply(r, prices) ==
    /\ Finish(r)
    /\ newest' = IF prices > newest THEN prices ELSE newest

\* The reply holds the request's own prices; on /latest it also holds the time
\* of the cache, which is read again.  Which of the two paths is asked makes no
\* other difference.
Respond(r) ==
    /\ pc[r] = "stamping" /\ unwritten[r] = {}
    /\ Reply(r, built[r])
    /\ UNCHANGED <<now, healthy, priced, shared>>

CheckAge(r) ==
    /\ pc[r] = "falling back"
    /\ Fresh
    /\ pc' = [pc EXCEPT ![r] = "serving"]
    /\ UNCHANGED <<now, healthy, priced, shared, request, steady, newest>>

\* A reply from the cache keeps the cache alive.
ServeCacheAndRenew(r) ==
    /\ pc[r] = "serving"
    /\ lastCache # 0
    /\ Reply(r, lastCache)
    /\ cacheTime' = [w \in Words |-> now]
    /\ UNCHANGED <<now, healthy, priced, lastCache>>

\* The cached prices are read again, and are sent in the format of /v1/prices
\* on both paths.
ServeCache(r) ==
    /\ pc[r] = "serving"
    /\ lastCache # 0
    /\ Reply(r, lastCache)
    /\ UNCHANGED <<now, healthy, priced, shared>>

\* 503
Refuse(r) ==
    /\ \/ pc[r] = "falling back" /\ ~Fresh
       \/ pc[r] = "serving" /\ lastCache = 0
    /\ Finish(r)
    /\ UNCHANGED <<now, healthy, priced, shared, newest>>

Handle(r) ==
    \/ Begin(r) \/ CheckHealth(r) \/ GetPrices(r) \/ Aggregate(r)
    \/ StoreCache(r) \/ ReadClock(r) \/ StampCache(r) \/ Respond(r)
    \/ CheckAge(r) \/ ServeCache(r) \/ Refuse(r)

Next ==
    \/ Tick
    \/ \E s \in Sources : SourceChange(s)
    \/ \E r \in Requests : Handle(r)

Spec == Init /\ [][Next]_vars

-----------------------------------------------------------------------------
(* Properties *)

\* A reply from the cache never holds prices older than the cache's lifetime
\* and three times the time a request takes: although concurrent requests store
\* older prices over newer ones, stamp prices of each other, and the age is
\* checked before the prices are read, no more time is lost than that.
CacheAgeBounded ==
    [][\A r \in Requests :
          ServeCache(r) => now < lastCache + CacheTTL + 3 * RequestTicks]_vars

\* A request falls back, to the cache or to an error, only if no source was
\* healthy with a price all the while: neither another source's failure nor a
\* source without prices keeps a good one out of the reply.
OneGoodSourceSuffices ==
    [][\A r \in Requests : ServeCache(r) \/ Refuse(r) => steady[r] = {}]_vars

\* The created_at of a reply, read back from the shared cacheTime, may be that
\* of another request, and one that ended before the reply; yet it is never
\* older than twice the time a request takes.
CreatedAtHonest ==
    [][\A r \in Requests :
          Respond(r) => now <= cacheTime["wall"] + 2 * RequestTicks]_vars

\* After any reply, the cache never takes a client back to prices older than
\* that reply's by more than one request takes: a slow request that overwrites
\* the cache with its older prices is the worst there is.
CacheNotFarBehind ==
    [][\A r \in Requests : ServeCache(r) => newest <= lastCache + RequestTicks]_vars
=============================================================================
