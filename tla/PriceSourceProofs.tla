-------------------------- MODULE PriceSourceProofs --------------------------
(***************************************************************************)
(* What holds of every polling source, for every set of profiles, symbols  *)
(* and bounds: PriceSource's types, and that health and prices agree.      *)
(***************************************************************************)
EXTENDS PriceSource, TLAPS

\* A backoff is followed by an attempt that the poll still has.
AttemptLeft == pc = "backoff" => attempt < Attempts

\* The loop waits only after Start has returned.
WaitsInLoop == pc = "waiting" => looping

\* Sources are stopped only after the context is cancelled.
StoppedAfterCancel == stopped => ctxDone

\* What the current fetch has read is in the prices, unless it replaces them.
ReadIsWritten ==
    pc = "fetching" /\ ~profile.replaces => \A s \in got : prices[s] = "new"

\* Only PancakeSwap is healthy before its loop runs.
NotHealthyEarly == ~looping /\ profile.start # "must" => ~healthy

\* A source with nothing to fetch reads nothing and stays unhealthy.
NothingToFetch ==
    ~profile.hasInput =>
        /\ todo = {} /\ got = {}
        /\ profile.emptyFails /\ looping => ~healthy

IInv ==
    /\ TypeOK
    /\ AttemptLeft
    /\ WaitsInLoop
    /\ StoppedAfterCancel
    /\ ReadIsWritten
    /\ NotHealthyEarly
    /\ NothingToFetch
    /\ FreshWhenHealthy
    /\ NoMixedAges

-----------------------------------------------------------------------------
\* A poll has at least one attempt and at most MaxRetries.
LEMMA AttemptsRange == Attempts \in 1..MaxRetries
  BY SourceAssumption DEF Attempts

\* The invariant holds initially.
LEMMA InitInvariant == Init => IInv
  <1> SUFFICES ASSUME Init PROVE IInv
    OBVIOUS
  <1> USE DEF Init
  <1>a. looping \in BOOLEAN /\ healthy \in BOOLEAN
    <2>1. looping \in BOOLEAN
      <3>1. CASE profile.start = "none"
        BY <3>1
      <3>2. CASE profile.start # "none"
        BY <3>2
      <3> QED BY <3>1, <3>2
    <2>2. healthy \in BOOLEAN
      <3>1. CASE profile.start = "must"
        BY <3>1
      <3>2. CASE profile.start # "must"
        BY <3>2
      <3> QED BY <3>1, <3>2
    <2> QED BY <2>1, <2>2
  <1>b. prices \in [Symbols -> Ages]
    BY DEF Ages
  <1>c. pc \in {"checking", "fetching", "backoff", "waiting", "ended", "dropped"}
    OBVIOUS
  <1>d. attempt \in 1..MaxRetries /\ changes \in 0..MaxChanges
    BY SourceAssumption
  <1>e. /\ mode \in Modes /\ listed \subseteq Symbols
        /\ ctxDone \in BOOLEAN /\ stopped \in BOOLEAN
        /\ erred \in BOOLEAN /\ hung \in BOOLEAN
        /\ todo \subseteq Requests /\ got \subseteq Symbols
    OBVIOUS
  <1>1. TypeOK
    BY <1>a, <1>b, <1>c, <1>d, <1>e DEF TypeOK
  <1>2. AttemptLeft /\ WaitsInLoop /\ StoppedAfterCancel /\ ReadIsWritten
    BY DEF Init, AttemptLeft, WaitsInLoop, StoppedAfterCancel, ReadIsWritten
  <1>3. NotHealthyEarly /\ NothingToFetch /\ FreshWhenHealthy /\ NoMixedAges
    BY DEF Init, NotHealthyEarly, NothingToFetch, FreshWhenHealthy, NoMixedAges
  <1> QED BY <1>1, <1>2, <1>3 DEF IInv

\* The types are kept by every step.
LEMMA TypeStep == IInv /\ [Next]_vars => TypeOK'
  <1> SUFFICES ASSUME IInv, [Next]_vars PROVE TypeOK'
    OBVIOUS
  <1> USE SourceAssumption, AttemptsRange DEF IInv
  <1>1. CASE Tick
    BY <1>1 DEF Tick, TypeOK, Ages, Requests, api, fetch
  <1>2. CASE EndLoop
    BY <1>2 DEF EndLoop, TypeOK, Requests, api, fetch
  <1>3. CASE BeginFetch
    BY <1>3 DEF BeginFetch, TypeOK, Requests, api, fetch
  <1>4. CASE RetryAfterBackoff
    BY <1>4 DEF RetryAfterBackoff, TypeOK, AttemptLeft, Requests, api, fetch
  <1>5. CASE Abort
    BY <1>5 DEF Abort, PollFails, TypeOK, Requests, api, fetch
  <1>6. CASE Succeed
    BY <1>6 DEF Succeed, TypeOK, Ages, Requests, api, fetch
  <1>7. CASE Fail
    BY <1>7 DEF Fail, PollFails, TypeOK, Requests, api, fetch
  <1>8. CASE Answer
    <2> DEFINE Read(r) == IF mode = "up" THEN r \cap listed ELSE {}
    <2>1. PICK r \in todo :
            /\ todo' = todo \ {r}
            /\ got' = got \cup Read(r)
            /\ prices' = [s \in Symbols |->
                            IF s \in Read(r) /\ ~profile.replaces THEN "new" ELSE prices[s]]
      BY <1>8 DEF Answer
    <2>2. todo' \subseteq Requests' /\ got' \subseteq Symbols
      BY <1>8, <2>1 DEF Answer, TypeOK, Requests
    <2>3. prices' \in [Symbols -> Ages]
      BY <2>1 DEF TypeOK, Ages
    <2> QED BY <1>8, <2>2, <2>3 DEF Answer, TypeOK, api
  <1>9. CASE Hang
    BY <1>9 DEF Hang, TypeOK, Requests, api
  <1>10. CASE GiveUp
    BY <1>10 DEF GiveUp, TypeOK, Requests, api
  <1>11. CASE Cancel
    BY <1>11 DEF Cancel, TypeOK, Requests, api, fetch
  <1>12. CASE Stop
    BY <1>12 DEF Stop, TypeOK, Requests, api, fetch
  <1>13. CASE ApiChange
    BY <1>13 DEF ApiChange, TypeOK, Requests, fetch
  <1>14. CASE Finished \/ UNCHANGED vars
    BY <1>14 DEF Finished, vars, TypeOK, Requests, api, fetch
  <1> QED BY <1>1, <1>2, <1>3, <1>4, <1>5, <1>6, <1>7, <1>8, <1>9, <1>10, <1>11, <1>12,
             <1>13, <1>14 DEF Next, Poll, Request

\* The parts about where the source is are kept by every step.
LEMMA ControlStep ==
    IInv /\ [Next]_vars => AttemptLeft' /\ WaitsInLoop' /\ StoppedAfterCancel'
  <1> SUFFICES ASSUME IInv, [Next]_vars
               PROVE  AttemptLeft' /\ WaitsInLoop' /\ StoppedAfterCancel'
    OBVIOUS
  <1> USE DEF IInv, AttemptLeft, WaitsInLoop, StoppedAfterCancel
  <1>1. CASE Tick
    BY <1>1 DEF Tick
  <1>2. CASE EndLoop
    BY <1>2 DEF EndLoop
  <1>3. CASE BeginFetch
    BY <1>3 DEF BeginFetch
  <1>4. CASE RetryAfterBackoff
    BY <1>4 DEF RetryAfterBackoff
  <1>5. CASE Abort
    BY <1>5 DEF Abort, PollFails
  <1>6. CASE Succeed
    BY <1>6 DEF Succeed
  <1>7. CASE Fail
    <2>1. CASE attempt < Attempts /\ pc' = "backoff" /\ UNCHANGED <<healthy, looping>>
      <3>1. Attempts' = Attempts
        BY <1>7, <2>1 DEF Fail, Attempts, Wrapper
      <3> QED BY <1>7, <2>1, <3>1 DEF Fail
    <2>2. CASE PollFails(TRUE)
      <3>1. pc' # "backoff"
        BY <2>2 DEF PollFails
      <3>2. pc' = "waiting" => looping'
        BY <2>2 DEF PollFails
      <3> QED BY <1>7, <3>1, <3>2 DEF Fail
    <2> QED BY <1>7, <2>1, <2>2 DEF Fail
  <1>8. CASE Answer
    BY <1>8 DEF Answer, TypeOK
  <1>9. CASE Hang
    BY <1>9 DEF Hang
  <1>10. CASE GiveUp
    BY <1>10 DEF GiveUp
  <1>11. CASE Cancel
    BY <1>11 DEF Cancel, Attempts, Wrapper
  <1>12. CASE Stop
    BY <1>12 DEF Stop, Attempts, Wrapper
  <1>13. CASE ApiChange
    BY <1>13 DEF ApiChange, Attempts, Wrapper
  <1>14. CASE Finished \/ UNCHANGED vars
    BY <1>14 DEF Finished, vars, Attempts, Wrapper
  <1> QED BY <1>1, <1>2, <1>3, <1>4, <1>5, <1>6, <1>7, <1>8, <1>9, <1>10, <1>11, <1>12,
             <1>13, <1>14 DEF Next, Poll, Request

\* The parts about what a fetch has read are kept by every step.
LEMMA FetchStep ==
    IInv /\ [Next]_vars => ReadIsWritten' /\ NotHealthyEarly' /\ NothingToFetch'
  <1> SUFFICES ASSUME IInv, [Next]_vars
               PROVE  ReadIsWritten' /\ NotHealthyEarly' /\ NothingToFetch'
    OBVIOUS
  <1> USE DEF IInv, ReadIsWritten, NotHealthyEarly, NothingToFetch
  <1>1. CASE Tick
    BY <1>1 DEF Tick, fetch
  <1>2. CASE EndLoop
    BY <1>2 DEF EndLoop, fetch
  <1>3. CASE BeginFetch
    BY <1>3 DEF BeginFetch
  <1>4. CASE RetryAfterBackoff
    BY <1>4 DEF RetryAfterBackoff, fetch
  <1>5. CASE Abort
    BY <1>5 DEF Abort, PollFails, fetch
  <1>6. CASE Succeed
    BY <1>6 DEF Succeed, FetchOK, fetch
  <1>7. CASE Fail
    <2>1. profile' = profile /\ todo' = todo /\ got' = got /\ prices' = prices
      BY <1>7 DEF Fail, fetch
    <2>2. CASE pc' = "backoff" /\ UNCHANGED <<healthy, looping>>
      BY <2>1, <2>2
    <2>3. CASE PollFails(TRUE)
      <3>1. pc' # "fetching"
        BY <2>3 DEF PollFails
      <3>2. healthy' => healthy
        BY <2>3 DEF PollFails
      <3>3. ~looping' => ~looping
        BY <2>3 DEF PollFails
      <3>4. looping' /\ ~looping => profile.start # "must"
        BY <2>3 DEF PollFails
      <3> QED BY <2>1, <3>1, <3>2, <3>3, <3>4
    <2> QED BY <1>7, <2>2, <2>3 DEF Fail
  <1>8. CASE Answer
    BY <1>8 DEF Answer, TypeOK
  <1>9. CASE Hang
    BY <1>9 DEF Hang
  <1>10. CASE GiveUp
    BY <1>10 DEF GiveUp
  <1>11. CASE Cancel
    BY <1>11 DEF Cancel, fetch
  <1>12. CASE Stop
    BY <1>12 DEF Stop, fetch
  <1>13. CASE ApiChange
    BY <1>13 DEF ApiChange, fetch
  <1>14. CASE Finished \/ UNCHANGED vars
    BY <1>14 DEF Finished, vars, fetch
  <1> QED BY <1>1, <1>2, <1>3, <1>4, <1>5, <1>6, <1>7, <1>8, <1>9, <1>10, <1>11, <1>12,
             <1>13, <1>14 DEF Next, Poll, Request

\* The two properties of health and prices are kept by every step.  Waiting is
\* reached from a poll that aborted, which takes a cancelled context, that
\* succeeded, with a price, or that failed, and then the source is unhealthy.
LEMMA FreshStep == IInv /\ [Next]_vars => FreshWhenHealthy' /\ NoMixedAges'
  <1> SUFFICES ASSUME IInv, [Next]_vars PROVE FreshWhenHealthy' /\ NoMixedAges'
    OBVIOUS
  <1> USE DEF IInv, FreshWhenHealthy, NoMixedAges
  <1>1. CASE Tick
    BY <1>1 DEF Tick, TypeOK
  <1>2. CASE EndLoop
    BY <1>2 DEF EndLoop
  <1>3. CASE BeginFetch
    BY <1>3 DEF BeginFetch
  <1>4. CASE RetryAfterBackoff
    BY <1>4 DEF RetryAfterBackoff
  <1>5. CASE Abort
    BY <1>5 DEF Abort, StopSeen, StoppedAfterCancel
  <1>6. CASE Succeed
    <2>1. profile' = profile
      BY <1>6 DEF Succeed
    <2>2. FreshWhenHealthy'
      <3> SUFFICES ASSUME profile.emptyFails PROVE \E s \in Symbols : prices'[s] = "new"
        BY <2>1
      <3>1. PICK s \in got : TRUE
        BY <1>6 DEF Succeed, FetchOK
      <3>2. s \in Symbols
        BY <3>1 DEF TypeOK
      <3>3. CASE profile.replaces
        BY <1>6, <3>2, <3>3 DEF Succeed
      <3>4. CASE ~profile.replaces
        BY <1>6, <3>1, <3>2, <3>4 DEF Succeed, ReadIsWritten
      <3> QED BY <3>3, <3>4
    <2>3. NoMixedAges'
      BY <1>6, <2>1 DEF Succeed
    <2> QED BY <2>2, <2>3
  <1>7. CASE Fail
    <2>1. profile' = profile /\ prices' = prices /\ ctxDone' = ctxDone
      BY <1>7 DEF Fail
    <2>2. CASE pc' = "backoff"
      BY <2>1, <2>2
    <2>3. CASE pc' # "backoff"
      <3>1. PollFails(TRUE)
        BY <1>7, <2>3 DEF Fail
      <3>2. profile.failureDemotes \/ ~profile.hasInput
        BY SourceAssumption DEF TypeOK
      <3>3. pc' = "waiting" /\ profile.emptyFails => ~healthy'
        BY <3>1, <3>2 DEF PollFails, NotHealthyEarly, NothingToFetch
      <3> QED BY <2>1, <3>3
    <2> QED BY <2>2, <2>3
  <1>8. CASE Answer
    BY <1>8 DEF Answer, TypeOK
  <1>9. CASE Hang
    BY <1>9 DEF Hang
  <1>10. CASE GiveUp
    BY <1>10 DEF GiveUp
  <1>11. CASE Cancel
    BY <1>11 DEF Cancel
  <1>12. CASE Stop
    BY <1>12 DEF Stop
  <1>13. CASE ApiChange
    BY <1>13 DEF ApiChange
  <1>14. CASE Finished \/ UNCHANGED vars
    BY <1>14 DEF Finished, vars
  <1> QED BY <1>1, <1>2, <1>3, <1>4, <1>5, <1>6, <1>7, <1>8, <1>9, <1>10, <1>11, <1>12,
             <1>13, <1>14 DEF Next, Poll, Request

-----------------------------------------------------------------------------
\* The invariant holds in every behaviour of every source.
THEOREM SourceInvariant == Spec => []IInv
  <1>1. IInv /\ [Next]_vars => IInv'
    BY TypeStep, ControlStep, FetchStep, FreshStep DEF IInv
  <1> QED BY InitInvariant, <1>1, PTL DEF Spec

\* Every variable keeps its type; the attempt never passes MaxRetries.
THEOREM SourceTypeCorrect == Spec => []TypeOK
  <1>1. IInv => TypeOK
    BY DEF IInv
  <1> QED BY SourceInvariant, <1>1, PTL

\* A healthy source that takes empty fetches for errors has a fresh price.
THEOREM HealthyIsFresh == Spec => []FreshWhenHealthy
  <1>1. IInv => FreshWhenHealthy
    BY DEF IInv
  <1> QED BY SourceInvariant, <1>1, PTL

\* A source that replaces its prices never mixes the prices of two polls.
THEOREM PricesOfOnePoll == Spec => []NoMixedAges
  <1>1. IInv => NoMixedAges
    BY DEF IInv
  <1> QED BY SourceInvariant, <1>1, PTL
=============================================================================
