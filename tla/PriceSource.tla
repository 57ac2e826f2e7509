----------------------------- MODULE PriceSource ------------------------------
(***************************************************************************)
(* A polling price source (pkg/server/sources): a first fetch when the     *)
(* server starts it, then a loop that fetches on every tick, with or       *)
(* without retries, and that sets the health and the prices the server     *)
(* reads.  Which source it is, profile, is chosen once.                    *)
(*                                                                         *)
(* The price API is an environment: it is up, down, refuses with a 429, or *)
(* accepts a request and never answers it, and it knows some of the        *)
(* configured symbols.  A price is abstracted to its age: written since    *)
(* the current or last poll began, written before, or missing.  What       *)
(* differs between sources is described in SourceProfiles.                 *)
(***************************************************************************)
EXTENDS SourceProfiles, Naturals

CONSTANTS Profiles,     \* the sources to consider
          Symbols,      \* the configured pairs of the source
          MaxRetries,   \* attempts of a poll (DefaultMaxRetries, 5)
          MaxChanges    \* bound: how often the API changes its behaviour

\* The one source that stays healthy when it fails, SDR, has nothing to fetch.
ASSUME SourceAssumption ==
    /\ Profiles \subseteq Profile
    /\ \A p \in Profiles : p.failureDemotes \/ ~p.hasInput
    /\ MaxRetries \in Nat \ {0}
    /\ MaxChanges \in Nat

VARIABLES profile,    \* which source this is
          mode,       \* behaviour of its API
          listed,     \* symbols the API has a price for
          changes,    \* how often the API has changed
          ctxDone,    \* the program's context is cancelled
          stopped,    \* Stop has been called
          pc,         \* where the source is
          looping,    \* Start has returned and the loop runs
          attempt,    \* attempt of the current poll
          todo,       \* requests of the current fetch without an outcome
          got,        \* symbols the current fetch has read
          erred,      \* the request of the current fetch failed
          hung,       \* a request has been accepted and is not answered
          healthy,    \* BaseSource.healthy
          prices      \* age of each symbol's price

api == <<mode, listed, changes>>
fetch == <<todo, got, erred, hung>>
vars == <<profile, api, ctxDone, stopped, pc, looping, attempt, fetch, healthy, prices>>

Modes == {"up", "down", "limited", "hanging"}
Ages == {"none", "old", "new"}

\* The requests of one fetch, each with the symbols it asks for.
Requests == IF profile.pairwise THEN {{s} : s \in Symbols} ELSE {Symbols}

\* The retry helper the current poll runs under.
Wrapper == IF looping \/ profile.wrapper = "fiat" THEN profile.wrapper ELSE "none"

Attempts == IF Wrapper = "none" THEN 1 ELSE MaxRetries

\* A request that is not answered is given up after a time.
TimesOut == profile.timeout = "all" \/ (profile.timeout = "loop" /\ looping)

StopSeen == stopped /\ profile.stopCloses

TypeOK ==
    /\ profile \in Profiles
    /\ mode \in Modes /\ listed \subseteq Symbols /\ changes \in 0..MaxChanges
    /\ ctxDone \in BOOLEAN /\ stopped \in BOOLEAN
    /\ pc \in {"checking", "fetching", "backoff", "waiting", "ended", "dropped"}
    /\ looping \in BOOLEAN
    /\ attempt \in 1..MaxRetries
    /\ todo \subseteq Requests /\ got \subseteq Symbols
    /\ erred \in BOOLEAN /\ hung \in BOOLEAN
    /\ healthy \in BOOLEAN
    /\ prices \in [Symbols -> Ages]

\* Initialize is done and Start is entered.  PancakeSwap is healthy from
\* Initialize on; SDR has no fetch before its loop.
Init ==
    /\ profile \in Profiles
    /\ mode \in Modes /\ listed \in SUBSET Symbols /\ changes = 0
    /\ ctxDone = FALSE /\ stopped = FALSE
    /\ looping = (profile.start = "none")
    /\ pc = IF profile.start = "none" THEN "waiting" ELSE "checking"
    /\ attempt = 1
    /\ todo = {} /\ got = {} /\ erred = FALSE /\ hung = FALSE
    /\ healthy = (profile.start = "must")
    /\ prices = [s \in Symbols |-> "none"]

-----------------------------------------------------------------------------
(* The loop *)

\* The ticker, or the timer of the free exchange-rate API, fires.
Tick ==
    /\ pc = "waiting"
    /\ pc' = "checking"
    /\ attempt' = 1
    /\ prices' = [s \in Symbols |-> IF prices[s] = "new" THEN "old" ELSE prices[s]]
    /\ UNCHANGED <<profile, api, ctxDone, stopped, looping, fetch, healthy>>

\* The loop of every source is expected to end by the context.
EndLoopByContext ==
    /\ pc = "waiting"
    /\ ctxDone /\ profile.heedsContext
    /\ pc' = "ended"
    /\ UNCHANGED <<profile, api, ctxDone, stopped, looping, attempt, fetch, healthy, prices>>

\* The select of the loop takes the stop channel or the context.
EndLoop ==
    /\ pc = "waiting"
    /\ (ctxDone /\ profile.heedsContext) \/ StopSeen
    /\ pc' = "ended"
    /\ UNCHANGED <<profile, api, ctxDone, stopped, looping, attempt, fetch, healthy, prices>>

-----------------------------------------------------------------------------
(* One poll: the retry helpers and what the caller makes of their result *)

\* The poll forgets to report that its retries are used up.
PollFailsQuietly(usedUp) ==
    /\ healthy' = healthy
    /\ pc' = IF ~looping /\ profile.start = "must" THEN "dropped" ELSE "waiting"
    /\ looping' = (looping \/ profile.start # "must")

\* The poll ends with an error.  FetchWithRetriesBase demotes the source only
\* when the attempts are used up; the loop of every other source does it on any
\* error, its first fetch does not.
PollFails(usedUp) ==
    /\ healthy' = (healthy /\ \/ ~profile.failureDemotes
                              \/ Wrapper = "fiat" /\ ~usedUp
                              \/ Wrapper # "fiat" /\ ~looping)
    /\ pc' = IF ~looping /\ profile.start = "must" THEN "dropped" ELSE "waiting"
    /\ looping' = (looping \/ profile.start # "must")

\* The helper finds the context or the stop channel done before an attempt or
\* in its backoff.
Abort ==
    /\ Wrapper # "none"
    /\ pc \in {"checking", "backoff"}
    /\ ctxDone \/ StopSeen
    /\ PollFails(FALSE)
    /\ UNCHANGED <<profile, api, ctxDone, stopped, attempt, fetch, prices>>

\* An attempt starts.  A request under a cancelled context fails at once, and so
\* does a basket calculation without fiat sources.
BeginFetch ==
    /\ pc = "checking"
    /\ Wrapper = "none" \/ ~(ctxDone \/ StopSeen)
    /\ pc' = "fetching"
    /\ LET fails == ctxDone \/ ~profile.hasInput
       IN /\ todo' = IF fails THEN {} ELSE Requests
          /\ erred' = (fails /\ ~profile.pairwise)
    /\ got' = {}
    /\ hung' = FALSE
    /\ UNCHANGED <<profile, api, ctxDone, stopped, looping, attempt, healthy, prices>>

\* The time between two attempts is over.
RetryAfterBackoff ==
    /\ pc = "backoff"
    /\ pc' = "checking"
    /\ attempt' = attempt + 1
    /\ UNCHANGED <<profile, api, ctxDone, stopped, looping, fetch, healthy, prices>>

-----------------------------------------------------------------------------
(* One fetch *)

\* A request of the fetch is answered.  Prices are written as the answer is
\* read, except by a source that replaces all of them at the end.
Answer ==
    /\ pc = "fetching" /\ ~hung /\ mode # "hanging"
    /\ \E r \in todo :
         LET read == IF mode = "up" THEN r \cap listed ELSE {}
         IN /\ todo' = todo \ {r}
            /\ got' = got \cup read
            /\ prices' = [s \in Symbols |->
                            IF s \in read /\ ~profile.replaces THEN "new" ELSE prices[s]]
    /\ erred' = (erred \/ (mode # "up" /\ ~profile.pairwise))
    /\ healthy' = (healthy /\ ~(mode = "limited" /\ profile.limitDemotes))
    /\ UNCHANGED <<profile, api, ctxDone, stopped, pc, looping, attempt, hung>>

\* The API accepts the request and does not answer.
Hang ==
    /\ pc = "fetching" /\ todo # {} /\ mode = "hanging" /\ ~hung
    /\ hung' = TRUE
    /\ UNCHANGED <<profile, api, ctxDone, stopped, pc, looping, attempt, todo, got, erred,
                   healthy, prices>>

\* A timeout, or the context every request carries, ends what is still open.
GiveUp ==
    /\ pc = "fetching" /\ todo # {}
    /\ (hung /\ TimesOut) \/ ctxDone
    /\ todo' = {}
    /\ erred' = ~profile.pairwise
    /\ hung' = FALSE
    /\ UNCHANGED <<profile, api, ctxDone, stopped, pc, looping, attempt, got, healthy, prices>>

\* A fetch without a price counts as a success.
FetchReturned == ~erred

FetchOK == ~erred /\ (got # {} \/ ~profile.emptyFails)

\* A source that replaces its prices adds to them instead.
SucceedMerging ==
    /\ pc = "fetching" /\ todo = {}
    /\ FetchOK
    /\ prices' = IF profile.replaces
                 THEN [s \in Symbols |-> IF s \in got THEN "new" ELSE prices[s]]
                 ELSE prices
    /\ healthy' = TRUE
    /\ pc' = "waiting"
    /\ looping' = TRUE
    /\ UNCHANGED <<profile, api, ctxDone, stopped, attempt, fetch>>

\* The fetch is over and succeeded: the poll ends, the source is healthy.
Succeed ==
    /\ pc = "fetching" /\ todo = {}
    /\ FetchOK
    /\ prices' = IF profile.replaces
                 THEN [s \in Symbols |-> IF s \in got THEN "new" ELSE "none"]
                 ELSE prices
    /\ healthy' = TRUE
    /\ pc' = "waiting"
    /\ looping' = TRUE
    /\ UNCHANGED <<profile, api, ctxDone, stopped, attempt, fetch>>

\* One attempt too many.
FailOffByOne ==
    /\ pc = "fetching" /\ todo = {}
    /\ ~FetchOK
    /\ \/ /\ attempt <= Attempts
          /\ pc' = "backoff"
          /\ UNCHANGED <<healthy, looping>>
       \/ /\ attempt > Attempts
          /\ PollFails(TRUE)
    /\ UNCHANGED <<profile, api, ctxDone, stopped, attempt, fetch, prices>>

\* A poll that runs out of attempts ends the loop instead of waiting for the tick.
FailForGood ==
    /\ pc = "fetching" /\ todo = {}
    /\ ~FetchOK
    /\ \/ /\ attempt < Attempts
          /\ pc' = "backoff"
       \/ /\ attempt = Attempts
          /\ pc' = "ended"
    /\ healthy' = FALSE
    /\ UNCHANGED <<profile, api, ctxDone, stopped, attempt, fetch, prices, looping>>

\* The fetch is over and failed: another attempt after a backoff, or none.
Fail ==
    /\ pc = "fetching" /\ todo = {}
    /\ ~FetchOK
    /\ \/ /\ attempt < Attempts
          /\ pc' = "backoff"
          /\ UNCHANGED <<healthy, looping>>
       \/ /\ attempt = Attempts
          /\ PollFails(TRUE)
    /\ UNCHANGED <<profile, api, ctxDone, stopped, attempt, fetch, prices>>

-----------------------------------------------------------------------------
(* The program and the API *)

\* A signal cancels the context.
Cancel ==
    /\ ~ctxDone
    /\ ctxDone' = TRUE
    /\ UNCHANGED <<profile, api, stopped, pc, looping, attempt, fetch, healthy, prices>>

\* The shutdown goroutine stops the sources that were started.
Stop ==
    /\ ctxDone /\ looping /\ ~stopped
    /\ stopped' = TRUE
    /\ UNCHANGED <<profile, api, ctxDone, pc, looping, attempt, fetch, healthy, prices>>

ApiChange ==
    /\ changes < MaxChanges
    /\ mode' \in Modes
    /\ listed' \in SUBSET Symbols
    /\ changes' = changes + 1
    /\ UNCHANGED <<profile, ctxDone, stopped, pc, looping, attempt, fetch, healthy, prices>>

Finished == pc \in {"ended", "dropped"} /\ UNCHANGED vars

Poll == BeginFetch \/ RetryAfterBackoff \/ Abort \/ Succeed \/ Fail
Request == Answer \/ Hang \/ GiveUp

Next == Tick \/ EndLoop \/ Poll \/ Request \/ Cancel \/ Stop \/ ApiChange \/ Finished

Spec == Init /\ [][Next]_vars

\* The goroutine of the source runs, its ticker fires, what is open on the
\* network gets its outcome, and shutdown goes through the sources.  The select
\* of the loop chooses at random among what is ready, so that it does not prefer
\* the ticker for ever.
FairSpec ==
    /\ Spec
    /\ WF_vars(Tick) /\ SF_vars(EndLoop)
    /\ WF_vars(Poll) /\ WF_vars(Request) /\ WF_vars(Stop)

-----------------------------------------------------------------------------
(* Properties *)

\* What can keep the source away from its API for good: a request without a
\* timeout that is never answered.
NeverStuck == [](hung => TimesOut)

\* A source that must have a price to start and got none.
Dropped == pc = "dropped" /\ profile.start = "must" /\ ~looping

Working == mode = "up" /\ listed = Symbols
Failing == mode # "up" \/ (listed = {} /\ profile.emptyFails)

\* A source that takes a fetch without prices for an error is, between its polls
\* and until shutdown, healthy only with a price its last poll has read: the
\* server (pkg/server/api/http.go:141) reads all prices of a healthy source
\* without a look at their time.
FreshWhenHealthy ==
    pc = "waiting" /\ healthy /\ profile.emptyFails /\ ~ctxDone =>
        \E s \in Symbols : prices[s] = "new"

\* The source that replaces its prices never offers one that is older than
\* another: what the last successful poll did not read is gone.
NoMixedAges ==
    profile.replaces => ~\E s, t \in Symbols : prices[s] = "new" /\ prices[t] = "old"

\* A source whose API fails for good is left out in the end, also when the API
\* has gone through any other behaviour before, unless one of its requests has no
\* timeout and is never answered.
FailingSourceLeft ==
    NeverStuck /\ []~ctxDone /\ <>[]Failing => <>[](Dropped \/ ~healthy)

\* A source whose API works again is used again with a price for every symbol:
\* no failure, whenever it came, ends or blocks the loop.  PancakeSwap is dropped
\* when its first fetch fails, SDR has nothing to calculate from.
RecoveredSourceUsed ==
    NeverStuck /\ []~ctxDone /\ <>[]Working /\ profile.hasInput =>
        <>[](Dropped \/ (healthy /\ \A s \in Symbols : prices[s] # "none"))

\* Once the context is cancelled the source's loop ends, wherever it is: in a
\* request, in a backoff or between polls.
ShutdownEndsLoop == ctxDone ~> pc \in {"ended", "dropped"}
=============================================================================
