-------------------------- MODULE GrpcClientProofs ---------------------------
(***************************************************************************)
(* What holds of the gRPC client for any number of callers and endpoints,  *)
(* any answers of the endpoints, and any number of attempts.               *)
(***************************************************************************)
EXTENDS GrpcClient, TLAPS

\* An idle caller starts from nothing, and the attempts are counted up to the
\* last one.
Counted(c) ==
    /\ pc[c] = "idle" => /\ kind[c] = "failover"
                         /\ attempt[c] = 0 /\ endpointAttempts[c] = 0
    /\ endpointAttempts[c] <= attempt[c]
    /\ IF pc[c] = "failed" THEN attempt[c] = MaxAttempts(c)
                           ELSE attempt[c] < MaxAttempts(c)
    /\ pc[c] = "rotating" => attempt[c] >= 1

\* What the attempts so far may have slept; the sleep after the last of them
\* is still to come, or does not come, where the caller rotates or has given up.
SleptSoFar(c) ==
    slept[c] <= IF pc[c] \in {"rotating", "failed"} THEN MaxSleep(attempt[c])
                                                    ELSE MaxSleep(attempt[c] + 1)

\* Only an endpoint that may fail has failed.
FailedForCause(c) == \A e \in failedOn[c] : answers[e] # {"ok"}

\* failed has the n endpoints in front of last, counted in rotation from some
\* first one, or all endpoints.
FailedOnLast(failed, last, n) ==
    \/ failed = Endpoints
    \/ \E first \in Endpoints :
          \/ /\ last = first + n
             /\ first..last - 1 \subseteq failed
          \/ /\ last = first + n - NumEndpoints
             /\ last < first
             /\ first..NumEndpoints - 1 \subseteq failed
             /\ 0..last - 1 \subseteq failed

\* A call that nobody disturbs, with errors that all rotate, makes two attempts
\* on an endpoint and goes on to the next.
Undisturbed(c) ==
    /\ kind[c] = "retry" /\ ~disturbed[c]
    /\ \A e \in Endpoints : "transient" \notin answers[e]

Methodical(c) ==
    Undisturbed(c) =>
        /\ pc[c] = "waiting" => endpoint[c] = current
        /\ NumEndpoints = 1 /\ attempt[c] >= 1 => failedOn[c] = Endpoints
        /\ NumEndpoints > 1 =>
              IF pc[c] = "failed"
              THEN RetryAttempts >= 2 * NumEndpoints => failedOn[c] = Endpoints
              ELSE /\ \E n \in Nat : /\ attempt[c] = 2 * n + endpointAttempts[c]
                                     /\ FailedOnLast(failedOn[c], current, n)
                   /\ endpointAttempts[c] >= 1 => current \in failedOn[c]
                   /\ IF pc[c] = "rotating" THEN endpointAttempts[c] = 2
                                            ELSE endpointAttempts[c] \in {0, 1}

CallInv(c) == Counted(c) /\ SleptSoFar(c) /\ FailedForCause(c) /\ Methodical(c)

IInv == TypeOK /\ \A c \in Callers : CallInv(c)
-----------------------------------------------------------------------------
(* Types and arithmetic *)

LEMMA Delays ==
    /\ MaxSleep(1) = 0
    /\ \A n \in Nat \ {0} : MaxSleep(n) \in Nat
    /\ \A n \in Nat, k \in Nat :
          k <= n => /\ Backoff(k + 1) \in Nat
                    /\ MaxSleep(n + 1) + Backoff(k + 1) <= MaxSleep(n + 2)
    /\ \A n \in Nat \ {0} : MaxSleep(n) + 1 <= MaxSleep(n + 1)
    /\ \A n \in Nat \ {0}, k \in Nat \ {0} : n <= k => MaxSleep(n) <= MaxSleep(k)
  BY DEF MaxSleep, Backoff

LEMMA NextEndpoint ==
    ASSUME NEW last \in Endpoints
    PROVE  /\ (last + 1) % NumEndpoints \in Endpoints
           /\ (last + 1) % NumEndpoints
                 = IF last + 1 = NumEndpoints THEN 0 ELSE last + 1
<1>1. last \in Nat /\ last + 1 <= NumEndpoints /\ NumEndpoints \in Nat \ {0}
  BY GrpcAssumption DEF Endpoints
<1>2. CASE last + 1 = NumEndpoints
  <2>1. NumEndpoints % NumEndpoints = 0
    BY GrpcAssumption
  <2> QED
    BY <1>1, <1>2, <2>1 DEF Endpoints
<1>3. CASE last + 1 < NumEndpoints
  <2>1. (last + 1) % NumEndpoints = last + 1
    BY <1>1, <1>3
  <2> QED
    BY <1>1, <1>3, <2>1 DEF Endpoints
<1> QED
  BY <1>1, <1>2, <1>3

LEMMA AttemptTypes ==
    ASSUME TypeOK, NEW c \in Callers, Counted(c)
    PROVE  /\ attempt[c] \in Nat /\ endpointAttempts[c] \in Nat /\ slept[c] \in Nat
           /\ MaxAttempts(c) \in Nat \ {0} /\ MaxAttempts(c) <= NumEndpoints + RetryAttempts
           /\ MaxAttempts(c) \in {NumEndpoints, RetryAttempts}
           /\ attempt[c] <= MaxAttempts(c)
<1>1. /\ NumEndpoints \in Nat \ {0} /\ RetryAttempts \in Nat \ {0}
      /\ MaxAttempts(c) \in {NumEndpoints, RetryAttempts}
  BY GrpcAssumption DEF MaxAttempts
<1>2. attempt[c] \in 0..NumEndpoints + RetryAttempts
  BY DEF TypeOK
<1>3. endpointAttempts[c] \in 0..NumEndpoints + RetryAttempts /\ slept[c] \in Nat
  BY DEF TypeOK
<1>4. attempt[c] = MaxAttempts(c) \/ attempt[c] < MaxAttempts(c)
  BY DEF Counted
<1> QED
  BY <1>1, <1>2, <1>3, <1>4

\* A caller whose call a step does not touch.
Untouched(c) ==
    /\ pc'[c] = pc[c] /\ kind'[c] = kind[c] /\ attempt'[c] = attempt[c]
    /\ endpointAttempts'[c] = endpointAttempts[c] /\ endpoint'[c] = endpoint[c]
    /\ failedOn'[c] = failedOn[c] /\ slept'[c] = slept[c]

LEMMA UntouchedStays ==
    ASSUME NEW c \in Callers, CallInv(c), Untouched(c), UNCHANGED answers,
           \/ UNCHANGED current /\ disturbed'[c] = disturbed[c]
           \/ disturbed'[c]
           \/ pc[c] = "idle"
    PROVE  CallInv(c)'
<1>1. Counted(c)'
  BY DEF CallInv, Counted, Untouched, MaxAttempts
<1>2. SleptSoFar(c)' /\ FailedForCause(c)'
  BY DEF CallInv, SleptSoFar, FailedForCause, Untouched
<1>3. Methodical(c)'
  <2>1. CASE UNCHANGED current /\ disturbed'[c] = disturbed[c]
    BY <2>1 DEF CallInv, Methodical, Undisturbed, FailedOnLast, Untouched
  <2>2. CASE disturbed'[c]
    BY <2>2 DEF Methodical, Undisturbed
  <2>3. CASE pc[c] = "idle"
    BY <2>3 DEF CallInv, Counted, Methodical, Undisturbed, Untouched
  <2> QED
    BY <2>1, <2>2, <2>3
<1> QED
  BY <1>1, <1>2, <1>3 DEF CallInv
-----------------------------------------------------------------------------
(* The actions *)

LEMMA InvInit == Init => IInv
<1> SUFFICES ASSUME Init PROVE IInv
  OBVIOUS
<1>1. NumEndpoints \in Nat \ {0} /\ RetryAttempts \in Nat \ {0} /\ 0 \in Endpoints
  BY GrpcAssumption DEF Endpoints
<1>2. TypeOK
  BY <1>1 DEF Init, TypeOK
<1>3. ASSUME NEW c \in Callers PROVE CallInv(c)
  <2>1. /\ pc[c] = "idle" /\ kind[c] = "failover" /\ attempt[c] = 0
        /\ endpointAttempts[c] = 0 /\ slept[c] = 0 /\ failedOn[c] = {}
    BY DEF Init
  <2>2. Counted(c)
    BY <1>1, <2>1 DEF Counted, MaxAttempts
  <2>3. SleptSoFar(c) /\ FailedForCause(c) /\ Methodical(c)
    BY <2>1, Delays DEF SleptSoFar, FailedForCause, Methodical, Undisturbed
  <2> QED
    BY <2>2, <2>3 DEF CallInv
<1> QED
  BY <1>2, <1>3 DEF IInv

LEMMA StartCallStep ==
    ASSUME IInv, NEW c \in Callers, StartCall(c) PROVE IInv'
<1>1. TypeOK'
  BY GrpcAssumption DEF StartCall, IInv, TypeOK
<1>2. ASSUME NEW d \in Callers PROVE CallInv(d)'
  <2>1. CASE d # c
    BY <2>1, UntouchedStays DEF IInv, TypeOK, StartCall, Untouched
  <2>2. CASE d = c
    <3>1. /\ attempt'[c] = 0 /\ endpointAttempts'[c] = 0 /\ pc'[c] = "ready"
          /\ slept'[c] = slept[c] /\ failedOn'[c] = failedOn[c] /\ attempt[c] = 0
          /\ pc[c] = "idle"
      BY DEF IInv, TypeOK, StartCall, CallInv, Counted
    <3>2. Counted(c)'
      BY <3>1, GrpcAssumption DEF Counted, MaxAttempts
    <3>3. SleptSoFar(c)' /\ FailedForCause(c)'
      BY <3>1 DEF IInv, CallInv, SleptSoFar, FailedForCause, StartCall
    <3>4. Methodical(c)'
      <4>1. /\ current' = current /\ current \in Endpoints /\ current \in Nat
            /\ current = current + 0
            /\ current..current - 1 \subseteq failedOn'[c]
        BY GrpcAssumption DEF IInv, TypeOK, StartCall, Endpoints
      <4>2. FailedOnLast(failedOn[c], current, 0)'
        BY <4>1 DEF FailedOnLast
      <4> QED
        BY <3>1, <4>2 DEF Methodical
    <3> QED
      BY <2>2, <3>2, <3>3, <3>4 DEF CallInv
  <2> QED
    BY <2>1, <2>2
<1> QED
  BY <1>1, <1>2 DEF IInv

LEMMA SendStep ==
    ASSUME IInv, NEW c \in Callers, Send(c) PROVE IInv'
<1>1. TypeOK'
  BY DEF Send, IInv, TypeOK
<1>2. ASSUME NEW d \in Callers PROVE CallInv(d)'
  <2>1. CASE d # c
    BY <2>1, UntouchedStays DEF IInv, TypeOK, Send, Untouched
  <2>2. CASE d = c
    <3>1. pc[c] = "ready" /\ pc'[c] = "waiting" /\ endpoint'[c] = current
      BY DEF IInv, TypeOK, Send
    <3>2. Counted(c)' /\ SleptSoFar(c)' /\ FailedForCause(c)'
      BY <3>1 DEF IInv, CallInv, Counted, SleptSoFar, FailedForCause, MaxAttempts, Send
    <3>3. Methodical(c)'
      BY <3>1 DEF IInv, CallInv, Methodical, Undisturbed, FailedOnLast, Send
    <3> QED
      BY <2>2, <3>2, <3>3 DEF CallInv
  <2> QED
    BY <2>1, <2>2
<1> QED
  BY <1>1, <1>2 DEF IInv

LEMMA SucceedStep ==
    ASSUME IInv, NEW c \in Callers, Succeed(c) PROVE IInv'
<1>1. TypeOK'
  BY DEF Succeed, IInv, TypeOK, call
<1>2. ASSUME NEW d \in Callers PROVE CallInv(d)'
  <2>1. CASE d # c
    BY <2>1, UntouchedStays DEF IInv, TypeOK, Succeed, Untouched, call
  <2>2. CASE d = c
    <3>1. pc[c] = "waiting" /\ pc'[c] = "succeeded"
      BY DEF IInv, TypeOK, Succeed
    <3>2. Counted(c)' /\ SleptSoFar(c)' /\ FailedForCause(c)'
      BY <3>1 DEF IInv, CallInv, Counted, SleptSoFar, FailedForCause, MaxAttempts,
                  Succeed, call
    <3>3. Methodical(c)'
      BY <3>1 DEF IInv, CallInv, Methodical, Undisturbed, FailedOnLast, Succeed, call
    <3> QED
      BY <2>2, <3>2, <3>3 DEF CallInv
  <2> QED
    BY <2>1, <2>2
<1> QED
  BY <1>1, <1>2 DEF IInv

LEMMA ReturnStep ==
    ASSUME IInv, NEW c \in Callers, Return(c) PROVE IInv'
<1>1. TypeOK'
  BY GrpcAssumption DEF Return, IInv, TypeOK, Endpoints
<1>2. ASSUME NEW d \in Callers PROVE CallInv(d)'
  <2>1. CASE d # c
    BY <2>1, UntouchedStays DEF IInv, TypeOK, Return, Untouched
  <2>2. CASE d = c
    <3>1. /\ pc'[c] = "idle" /\ kind'[c] = "failover" /\ attempt'[c] = 0
          /\ endpointAttempts'[c] = 0 /\ slept'[c] = 0 /\ failedOn'[c] = {}
      BY DEF IInv, TypeOK, Return
    <3>2. Counted(c)'
      BY <3>1, GrpcAssumption DEF Counted, MaxAttempts
    <3>3. SleptSoFar(c)' /\ FailedForCause(c)' /\ Methodical(c)'
      BY <3>1, Delays DEF SleptSoFar, FailedForCause, Methodical, Undisturbed
    <3> QED
      BY <2>2, <3>2, <3>3 DEF CallInv
  <2> QED
    BY <2>1, <2>2
<1> QED
  BY <1>1, <1>2 DEF IInv
\* A call that has also failed on the current endpoint, after all the others,
\* has failed on every one.
LEMMA WentRound ==
    ASSUME NEW failed \in SUBSET Endpoints, NEW last \in failed, NEW n \in Nat,
           n + 1 >= NumEndpoints, FailedOnLast(failed, last, n)
    PROVE  failed = Endpoints
<1>1. NumEndpoints \in Nat \ {0} /\ last \in Nat /\ last < NumEndpoints
  BY GrpcAssumption DEF Endpoints
<1>2. SUFFICES ASSUME failed # Endpoints, NEW e \in Endpoints PROVE e \in failed
  OBVIOUS
<1>3. PICK first \in Endpoints :
          \/ /\ last = first + n
             /\ first..last - 1 \subseteq failed
          \/ /\ last = first + n - NumEndpoints
             /\ last < first
             /\ first..NumEndpoints - 1 \subseteq failed
             /\ 0..last - 1 \subseteq failed
  BY <1>2 DEF FailedOnLast
<1>4. first \in Nat /\ first < NumEndpoints /\ e \in Nat /\ e < NumEndpoints
  BY <1>1 DEF Endpoints
<1>5. CASE last = first + n /\ first..last - 1 \subseteq failed
  <2>1. first = 0 /\ last = NumEndpoints - 1
    BY <1>1, <1>4, <1>5
  <2>2. e = last \/ e \in first..last - 1
    BY <1>1, <1>4, <2>1
  <2> QED
    BY <1>5, <2>2
<1>6. CASE /\ last = first + n - NumEndpoints
           /\ last < first
           /\ first..NumEndpoints - 1 \subseteq failed
           /\ 0..last - 1 \subseteq failed
  <2>1. last = first - 1
    BY <1>1, <1>4, <1>6
  <2>2. e = last \/ e \in 0..last - 1 \/ e \in first..NumEndpoints - 1
    BY <1>1, <1>4, <2>1
  <2> QED
    BY <1>6, <2>2
<1> QED
  BY <1>3, <1>5, <1>6

\* After a rotation the endpoint it leaves is the last that has failed.
LEMMA MovesOn ==
    ASSUME NEW failed \in SUBSET Endpoints, NEW last \in failed, NEW n \in Nat,
           FailedOnLast(failed, last, n), NEW next, next = (last + 1) % NumEndpoints
    PROVE  FailedOnLast(failed, next, n + 1)
<1>1. /\ NumEndpoints \in Nat \ {0} /\ last \in Nat /\ last < NumEndpoints
      /\ next \in Endpoints
      /\ next = IF last + 1 = NumEndpoints THEN 0 ELSE last + 1
  BY GrpcAssumption, NextEndpoint DEF Endpoints
<1>2. SUFFICES ASSUME failed # Endpoints PROVE FailedOnLast(failed, next, n + 1)
  BY DEF FailedOnLast
<1>3. PICK first \in Endpoints :
          \/ /\ last = first + n
             /\ first..last - 1 \subseteq failed
          \/ /\ last = first + n - NumEndpoints
             /\ last < first
             /\ first..NumEndpoints - 1 \subseteq failed
             /\ 0..last - 1 \subseteq failed
  BY <1>2 DEF FailedOnLast
<1>4. first \in Nat /\ first < NumEndpoints
  BY <1>1 DEF Endpoints
<1>5. CASE last = first + n /\ first..last - 1 \subseteq failed
  <2>1. \A e \in first..last : e \in failed
    <3>1. \A e \in first..last : e = last \/ e \in first..last - 1
      BY <1>1, <1>4
    <3> QED
      BY <1>5, <3>1
  <2>2. CASE last + 1 < NumEndpoints
    <3>1. next = first + (n + 1) /\ next - 1 = last
      BY <1>1, <1>4, <1>5, <2>2
    <3>2. first..next - 1 \subseteq failed
      BY <2>1, <3>1
    <3> QED
      BY <3>1, <3>2 DEF FailedOnLast
  <2>3. CASE last + 1 = NumEndpoints
    <3>1. first # 0
      <4>1. SUFFICES ASSUME first = 0, NEW e \in Endpoints PROVE e \in failed
        BY <1>2
      <4>2. e \in first..last
        BY <1>1, <2>3, <4>1 DEF Endpoints
      <4> QED
        BY <2>1, <4>2
    <3>2. /\ next = first + (n + 1) - NumEndpoints /\ next < first
          /\ NumEndpoints - 1 = last /\ next = 0
      BY <1>1, <1>4, <1>5, <2>3, <3>1
    <3>3. /\ first..NumEndpoints - 1 \subseteq failed
          /\ 0..next - 1 \subseteq failed
      BY <2>1, <3>2
    <3> QED
      BY <3>2, <3>3 DEF FailedOnLast
  <2> QED
    BY <1>1, <2>2, <2>3
<1>6. CASE /\ last = first + n - NumEndpoints
           /\ last < first
           /\ first..NumEndpoints - 1 \subseteq failed
           /\ 0..last - 1 \subseteq failed
  <2>1. next = last + 1
    BY <1>1, <1>4, <1>6
  <2>2. \A e \in 0..last : e \in failed
    <3>1. \A e \in 0..last : e = last \/ e \in 0..last - 1
      BY <1>1
    <3> QED
      BY <1>6, <3>1
  <2>3. next # first
    <3>1. SUFFICES ASSUME next = first, NEW e \in Endpoints PROVE e \in failed
      BY <1>2
    <3>2. e \in 0..last \/ e \in first..NumEndpoints - 1
      BY <1>1, <1>4, <2>1, <3>1 DEF Endpoints
    <3> QED
      BY <1>6, <2>2, <3>2
  <2>4. /\ next = first + (n + 1) - NumEndpoints /\ next < first
        /\ next - 1 = last
    BY <1>1, <1>4, <1>6, <2>1, <2>3
  <2>5. /\ first..NumEndpoints - 1 \subseteq failed
        /\ 0..next - 1 \subseteq failed
    BY <1>6, <2>2, <2>4
  <2> QED
    BY <2>4, <2>5 DEF FailedOnLast
<1> QED
  BY <1>3, <1>5, <1>6

LEMMA FailoverStep ==
    ASSUME IInv, NEW c \in Callers, Failover(c) PROVE IInv'
<1>1. /\ current \in Endpoints /\ pc[c] = "rotating" /\ pc'[c] = "ready"
      /\ endpointAttempts'[c] = 0 /\ slept'[c] = slept[c] + 1
      /\ attempt' = attempt /\ failedOn' = failedOn /\ kind' = kind
      /\ disturbed'[c] = disturbed[c] /\ answers' = answers
  BY DEF IInv, TypeOK, Failover
<1>2. TypeOK'
  <2>1. current' \in Endpoints
    BY <1>1, NextEndpoint DEF Failover
  <2> QED
    BY <2>1, GrpcAssumption DEF Failover, IInv, TypeOK
<1>3. ASSUME NEW d \in Callers PROVE CallInv(d)'
  <2>1. CASE d # c
    <3>1. Untouched(d) /\ (disturbed'[d] \/ pc[d] = "idle")
      BY <2>1 DEF IInv, TypeOK, Failover, Untouched
    <3> QED
      BY <1>1, <3>1, UntouchedStays DEF IInv
  <2>2. CASE d = c
    <3>1. /\ attempt[c] \in Nat /\ slept[c] \in Nat
          /\ Counted(c) /\ SleptSoFar(c) /\ FailedForCause(c) /\ Methodical(c)
      BY AttemptTypes DEF IInv, CallInv
    <3>2. Counted(c)'
      BY <1>1, <3>1 DEF Counted, MaxAttempts
    <3>3. SleptSoFar(c)'
      <4>1. attempt[c] \in Nat \ {0} /\ slept[c] <= MaxSleep(attempt[c])
        BY <1>1, <3>1 DEF Counted, SleptSoFar
      <4>2. /\ MaxSleep(attempt[c]) \in Nat /\ MaxSleep(attempt[c] + 1) \in Nat
            /\ MaxSleep(attempt[c]) + 1 <= MaxSleep(attempt[c] + 1)
        BY <4>1, Delays
      <4>3. slept[c] + 1 <= MaxSleep(attempt[c] + 1)
        BY <3>1, <4>1, <4>2
      <4> QED
        BY <1>1, <4>3 DEF SleptSoFar
    <3>4. FailedForCause(c)'
      BY <1>1, <3>1 DEF FailedForCause
    <3>5. Methodical(c)'
      <4>1. SUFFICES ASSUME Undisturbed(c) PROVE Methodical(c)'
        BY <1>1 DEF Methodical, Undisturbed
      <4>2. CASE NumEndpoints = 1
        BY <1>1, <3>1, <4>1, <4>2 DEF Methodical
      <4>3. CASE NumEndpoints > 1
        <5>1. PICK n \in Nat : /\ attempt[c] = 2 * n + endpointAttempts[c]
                               /\ FailedOnLast(failedOn[c], current, n)
          BY <1>1, <3>1, <4>1, <4>3 DEF Methodical
        <5>2. endpointAttempts[c] = 2 /\ current \in failedOn[c]
          BY <1>1, <3>1, <4>1, <4>3 DEF Methodical
        <5>3. FailedOnLast(failedOn[c], current, n + 1)'
          BY <1>1, <5>1, <5>2, MovesOn DEF Failover, IInv, TypeOK
        <5>4. attempt'[c] = 2 * (n + 1) + endpointAttempts'[c] /\ n + 1 \in Nat
          BY <1>1, <5>1, <5>2
        <5> QED
          BY <1>1, <4>3, <5>3, <5>4 DEF Methodical
      <4> QED
        BY <4>2, <4>3, GrpcAssumption
    <3> QED
      BY <2>2, <3>2, <3>3, <3>4, <3>5 DEF CallInv
  <2> QED
    BY <2>1, <2>2
<1> QED
  BY <1>2, <1>3 DEF IInv
\* A failed attempt: another attempt on the same endpoint, a rotation, or the end.
LEMMA FailStep ==
    ASSUME IInv, NEW c \in Callers, NEW error \in Answers \ {"ok"}, Fail(c, error)
    PROVE  IInv'
<1>1. /\ attempt[c] \in Nat /\ endpointAttempts[c] \in Nat /\ slept[c] \in Nat
      /\ MaxAttempts(c) \in Nat \ {0} /\ MaxAttempts(c) <= NumEndpoints + RetryAttempts
      /\ NumEndpoints \in Nat \ {0} /\ RetryAttempts \in Nat \ {0}
      /\ Counted(c) /\ SleptSoFar(c) /\ FailedForCause(c) /\ Methodical(c)
  BY AttemptTypes, GrpcAssumption DEF IInv, CallInv
<1>2. /\ pc[c] = "waiting" /\ attempt'[c] = attempt[c] + 1 /\ error \in answers[endpoint[c]]
      /\ failedOn'[c] = failedOn[c] \cup {endpoint[c]} /\ endpoint[c] \in Endpoints
      /\ failedOn[c] \subseteq Endpoints /\ current \in Endpoints
      /\ UNCHANGED <<current, answers, kind, endpoint, disturbed>>
  BY DEF IInv, TypeOK, Fail
<1>3. \/ /\ attempt[c] + 1 = MaxAttempts(c) /\ pc'[c] = "failed"
         /\ endpointAttempts'[c] = endpointAttempts[c] /\ slept'[c] = slept[c]
      \/ /\ attempt[c] + 1 < MaxAttempts(c)
         /\ endpointAttempts'[c] = endpointAttempts[c] + 1
         /\ \/ /\ error = "persistent" /\ endpointAttempts[c] + 1 >= 2 /\ NumEndpoints > 1
               /\ pc'[c] = "rotating" /\ slept'[c] = slept[c]
            \/ /\ ~ (error = "persistent" /\ endpointAttempts[c] + 1 >= 2 /\ NumEndpoints > 1)
               /\ pc'[c] = "ready"
               /\ slept'[c] = slept[c] + Backoff(endpointAttempts[c] + 1)
  BY DEF IInv, TypeOK, Fail
<1>4. endpointAttempts[c] <= attempt[c] /\ attempt[c] < MaxAttempts(c)
  BY <1>1, <1>2 DEF Counted
<1>5. /\ Backoff(endpointAttempts[c] + 1) \in Nat
      /\ MaxSleep(attempt[c] + 1) + Backoff(endpointAttempts[c] + 1) <= MaxSleep(attempt[c] + 2)
      /\ MaxSleep(attempt[c] + 1) \in Nat /\ MaxSleep(attempt[c] + 2) \in Nat
  <2>1. attempt[c] + 1 \in Nat \ {0} /\ attempt[c] + 2 \in Nat \ {0}
    BY <1>1
  <2>2. MaxSleep(attempt[c] + 1) \in Nat /\ MaxSleep(attempt[c] + 2) \in Nat
    BY <2>1, Delays
  <2>3. /\ Backoff(endpointAttempts[c] + 1) \in Nat
        /\ MaxSleep(attempt[c] + 1) + Backoff(endpointAttempts[c] + 1) <= MaxSleep(attempt[c] + 2)
    BY <1>1, <1>4, Delays
  <2> QED
    BY <2>2, <2>3
<1>6. TypeOK'
  <2>1. /\ attempt[c] + 1 \in 0..NumEndpoints + RetryAttempts
        /\ endpointAttempts[c] + 1 \in 0..NumEndpoints + RetryAttempts
        /\ slept[c] + Backoff(endpointAttempts[c] + 1) \in Nat
    BY <1>1, <1>4, <1>5
  <2>2. endpointAttempts' \in [Callers -> 0..NumEndpoints + RetryAttempts]
    BY <2>1 DEF Fail, IInv, TypeOK
  <2>3. slept' \in [Callers -> Nat]
    <3>1. CASE slept' = slept
      BY <3>1 DEF IInv, TypeOK
    <3>2. CASE slept' # slept
      <4>1. slept' = [slept EXCEPT ![c] = @ + Backoff(endpointAttempts'[c])]
        BY <3>2 DEF Fail
      <4>2. endpointAttempts'[c] = endpointAttempts[c] + 1
        BY <3>2 DEF Fail, IInv, TypeOK
      <4>3. slept' = [slept EXCEPT ![c] = slept[c] + Backoff(endpointAttempts[c] + 1)]
        BY <4>1, <4>2
      <4> QED
        BY <2>1, <4>3 DEF IInv, TypeOK
    <3> QED
      BY <3>1, <3>2
  <2>4. attempt' \in [Callers -> 0..NumEndpoints + RetryAttempts]
    <3>1. attempt' = [attempt EXCEPT ![c] = attempt[c] + 1]
      BY DEF Fail
    <3> QED
      BY <2>1, <3>1 DEF IInv, TypeOK
  <2>5. failedOn' \in [Callers -> SUBSET Endpoints]
    <3>1. failedOn' = [failedOn EXCEPT ![c] = failedOn[c] \cup {endpoint[c]}]
      BY DEF Fail
    <3>2. failedOn[c] \cup {endpoint[c]} \in SUBSET Endpoints
      BY <1>2
    <3> QED
      BY <3>1, <3>2 DEF IInv, TypeOK
  <2>6. pc' \in [Callers -> {"idle", "ready", "waiting", "rotating", "succeeded", "failed"}]
    BY DEF Fail, IInv, TypeOK
  <2> QED
    BY <1>2, <2>2, <2>3, <2>4, <2>5, <2>6 DEF IInv, TypeOK
<1>7. ASSUME NEW d \in Callers, d # c PROVE CallInv(d)'
  BY <1>7, UntouchedStays DEF IInv, TypeOK, Fail, Untouched
<1>8. Counted(c)'
  BY <1>1, <1>2, <1>3, <1>4 DEF Counted, MaxAttempts
<1>9. SleptSoFar(c)'
  <2>1. slept[c] <= MaxSleep(attempt[c] + 1)
    BY <1>1, <1>2 DEF SleptSoFar
  <2>2. attempt'[c] + 1 = attempt[c] + 2
    BY <1>1, <1>2
  <2>3. slept[c] + Backoff(endpointAttempts[c] + 1) <= MaxSleep(attempt[c] + 2)
    BY <1>1, <1>5, <2>1
  <2> QED
    BY <1>2, <1>3, <2>1, <2>2, <2>3 DEF SleptSoFar
<1>10. FailedForCause(c)'
  BY <1>1, <1>2 DEF FailedForCause, Answers
<1>11. Methodical(c)'
  <2>1. SUFFICES ASSUME Undisturbed(c) PROVE Methodical(c)'
    BY <1>2 DEF Methodical, Undisturbed
  <2>2. /\ error = "persistent" /\ MaxAttempts(c) = RetryAttempts
        /\ endpoint[c] = current /\ current \in failedOn'[c]
    BY <1>1, <1>2, <2>1 DEF Methodical, Undisturbed, Answers, MaxAttempts
  <2>3. CASE NumEndpoints = 1
    <3>1. Endpoints = {0} /\ failedOn'[c] = Endpoints
      BY <1>2, <2>2, <2>3 DEF Endpoints
    <3> QED
      BY <1>2, <1>3, <2>3, <3>1 DEF Methodical
  <2>4. CASE NumEndpoints > 1
    <3>1. PICK n \in Nat : /\ attempt[c] = 2 * n + endpointAttempts[c]
                           /\ FailedOnLast(failedOn[c], current, n)
      BY <1>1, <1>2, <2>1, <2>4 DEF Methodical
    <3>2. endpointAttempts[c] \in {0, 1}
      BY <1>1, <1>2, <2>1, <2>4 DEF Methodical
    <3>3. FailedOnLast(failedOn[c], current, n)'
      BY <1>2, <3>1 DEF FailedOnLast
    <3>4. CASE attempt[c] + 1 = MaxAttempts(c) /\ pc'[c] = "failed"
      <4>1. RetryAttempts >= 2 * NumEndpoints => n + 1 >= NumEndpoints
        BY <1>1, <2>2, <3>1, <3>2, <3>4
      <4>2. RetryAttempts >= 2 * NumEndpoints => failedOn'[c] = Endpoints
        <5>1. ASSUME n + 1 >= NumEndpoints PROVE failedOn'[c] = Endpoints
          <6>1. failedOn'[c] \in SUBSET Endpoints /\ current' \in failedOn'[c]
            BY <1>2, <2>2
          <6> QED
            BY <2>2, <3>3, <5>1, <6>1, WentRound
        <5> QED
          BY <4>1, <5>1
      <4> QED
        BY <2>4, <3>4, <4>2 DEF Methodical
    <3>5. CASE attempt[c] + 1 < MaxAttempts(c)
      <4>1. endpointAttempts'[c] = endpointAttempts[c] + 1
        BY <1>1, <1>3, <3>5
      <4>2. /\ attempt'[c] = 2 * n + endpointAttempts'[c]
            /\ IF pc'[c] = "rotating" THEN endpointAttempts'[c] = 2
                                      ELSE endpointAttempts'[c] \in {0, 1}
            /\ pc'[c] \in {"rotating", "ready"}
        BY <1>1, <1>2, <1>3, <2>2, <2>4, <3>1, <3>2, <3>5, <4>1
      <4> QED
        BY <1>2, <2>2, <2>4, <3>3, <4>2 DEF Methodical
    <3> QED
      BY <1>3, <3>4, <3>5
  <2> QED
    BY <1>1, <2>3, <2>4
<1> QED
  BY <1>6, <1>7, <1>8, <1>9, <1>10, <1>11 DEF IInv, CallInv
-----------------------------------------------------------------------------
(* The theorems *)

LEMMA InvStep == IInv /\ [Next]_vars => IInv'
<1> SUFFICES ASSUME IInv, [Next]_vars PROVE IInv'
  OBVIOUS
<1>1. CASE Next
  BY <1>1, StartCallStep, SendStep, SucceedStep, FailoverStep, ReturnStep, FailStep DEF Next
<1>2. CASE UNCHANGED vars
  <2>1. \A c \in Callers : CallInv(c)'
    BY <1>2, UntouchedStays DEF IInv, vars, call, Untouched
  <2> QED
    BY <1>2, <2>1 DEF IInv, TypeOK, vars, call
<1> QED
  BY <1>1, <1>2

\* The client keeps its types, the current endpoint and every counter in their
\* ranges, for any callers, endpoints and attempts.
THEOREM ClientTypeCorrect == Spec => []TypeOK
<1>1. IInv => TypeOK
  BY DEF IInv
<1> QED
  BY <1>1, InvInit, InvStep, PTL DEF Spec

\* However the callers rotate the endpoint under each other, no call sleeps
\* longer than if it had made all its attempts on one endpoint.
THEOREM SleepIsBounded == Spec => []SleepBounded
<1>1. IInv => SleepBounded
  <2> SUFFICES ASSUME IInv, NEW c \in Callers PROVE slept[c] <= MaxSleep(MaxAttempts(c))
    BY DEF SleepBounded
  <2>1. /\ attempt[c] \in Nat /\ slept[c] \in Nat /\ MaxAttempts(c) \in Nat \ {0}
        /\ Counted(c) /\ SleptSoFar(c)
    BY AttemptTypes DEF IInv, CallInv
  <2>2. PICK n \in Nat \ {0} : slept[c] <= MaxSleep(n) /\ n <= MaxAttempts(c)
    <3>1. CASE pc[c] \in {"rotating", "failed"}
      <4>1. attempt[c] \in Nat \ {0} /\ attempt[c] <= MaxAttempts(c)
        BY <2>1, <3>1 DEF Counted
      <4> QED
        BY <2>1, <3>1, <4>1 DEF SleptSoFar
    <3>2. CASE pc[c] \notin {"rotating", "failed"}
      <4>1. attempt[c] + 1 \in Nat \ {0} /\ attempt[c] + 1 <= MaxAttempts(c)
        BY <2>1, <3>2 DEF Counted
      <4> QED
        BY <2>1, <3>2, <4>1 DEF SleptSoFar
    <3> QED
      BY <3>1, <3>2
  <2>3. /\ MaxSleep(n) \in Nat /\ MaxSleep(MaxAttempts(c)) \in Nat
        /\ MaxSleep(n) <= MaxSleep(MaxAttempts(c))
    BY <2>1, <2>2, Delays
  <2> QED
    BY <2>1, <2>2, <2>3
<1> QED
  BY <1>1, InvInit, InvStep, PTL DEF Spec

\* With two attempts per endpoint an undisturbed call whose errors all rotate
\* tries every endpoint, for any number of them, before it gives up.
THEOREM PatienceSucceeds == Spec => []PatientCallSucceeds
<1>1. IInv => PatientCallSucceeds
  <2> SUFFICES ASSUME IInv, NEW c \in Callers,
                      pc[c] = "failed" /\ kind[c] = "retry", ~disturbed[c],
                      RetryAttempts >= 2 * NumEndpoints,
                      \A e \in Endpoints : "transient" \notin answers[e],
                      NEW e \in Endpoints
               PROVE  answers[e] # {"ok"}
    BY DEF PatientCallSucceeds
  <2>1. Counted(c) /\ FailedForCause(c) /\ Methodical(c)
    BY DEF IInv, CallInv
  <2>2. attempt[c] = RetryAttempts /\ attempt[c] >= 1
    BY <2>1, GrpcAssumption DEF Counted, MaxAttempts
  <2>3. failedOn[c] = Endpoints
    BY <2>1, <2>2, GrpcAssumption DEF Methodical, Undisturbed
  <2> QED
    BY <2>1, <2>3 DEF FailedForCause
<1> QED
  BY <1>1, InvInit, InvStep, PTL DEF Spec
=============================================================================
