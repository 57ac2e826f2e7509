----------------------------- MODULE GrpcClient ------------------------------
(***************************************************************************)
(* The gRPC client with failover (pkg/feeder/client/client.go).  The       *)
(* voting goroutine and the parameter poll of the event stream share one   *)
(* client: a call reads the service client of the current endpoint, and    *)
(* after an error waits, or rotates the current endpoint for all callers.  *)
(*                                                                         *)
(* Endpoints are numbered as in the configuration.  Time counts only in    *)
(* what a call sleeps, in units of baseDelay (500 ms).                     *)
(***************************************************************************)
EXTENDS Naturals

CONSTANTS Callers,        \* goroutines that use the client
          NumEndpoints,   \* configured endpoints
          RetryAttempts,  \* attempts of a call that retries (GetTx: 10)
          Kinds           \* which calls are made: "failover", "retry"

ASSUME GrpcAssumption ==
    /\ NumEndpoints \in Nat \ {0}
    /\ RetryAttempts \in Nat \ {0}
    /\ Kinds \subseteq {"failover", "retry"}

VARIABLES current,          \* index of the endpoint in use
          answers,          \* the answers each endpoint may give
          pc,               \* where each caller is in WithFailoverRetry
          kind,             \* which wrapper it called
          attempt,          \* attempts it has made
          endpointAttempts, \* attempts since it last rotated
          endpoint,         \* endpoint of the service client it holds
          failedOn,         \* endpoints that have failed in this call
          disturbed,        \* another caller has rotated during this call
          slept             \* what it has slept in this call

call == <<kind, attempt, endpointAttempts, endpoint, failedOn, disturbed,
          slept>>
vars == <<current, answers, pc, call>>

Endpoints == 0..NumEndpoints - 1
Answers == {"ok", "transient", "persistent"}

\* Zero attempts stand for one per endpoint.
MaxAttempts(c) == IF kind[c] = "failover" THEN NumEndpoints ELSE RetryAttempts

\* Mutant of Backoff: the delay is not capped.
BackoffUncapped(n) == 2 ^ n

\* The delay after the n-th failure on one endpoint, counted from 1 when the
\* shift is made: it starts at 1 s.
Backoff(n) == CASE n = 1 -> 2 [] n = 2 -> 4 [] n = 3 -> 8 [] OTHER -> 16

TypeOK ==
    /\ current \in Endpoints
    /\ answers \in [Endpoints -> SUBSET Answers \ {{}}]
    /\ pc \in [Callers -> {"idle", "ready", "waiting", "rotating", "succeeded", "failed"}]
    /\ kind \in [Callers -> {"failover", "retry"}]
    /\ attempt \in [Callers -> 0..NumEndpoints + RetryAttempts]
    /\ endpointAttempts \in [Callers -> 0..NumEndpoints + RetryAttempts]
    /\ endpoint \in [Callers -> Endpoints]
    /\ failedOn \in [Callers -> SUBSET Endpoints]
    /\ disturbed \in [Callers -> BOOLEAN]
    /\ slept \in [Callers -> Nat]

Init ==
    /\ current = 0
    /\ answers \in [Endpoints -> SUBSET Answers \ {{}}]
    /\ pc = [c \in Callers |-> "idle"]
    /\ kind = [c \in Callers |-> "failover"]
    /\ attempt = [c \in Callers |-> 0]
    /\ endpointAttempts = [c \in Callers |-> 0]
    /\ endpoint = [c \in Callers |-> 0]
    /\ failedOn = [c \in Callers |-> {}]
    /\ disturbed = [c \in Callers |-> FALSE]
    /\ slept = [c \in Callers |-> 0]

-----------------------------------------------------------------------------
StartCall(c) ==
    /\ pc[c] = "idle"
    /\ \E k \in Kinds : kind' = [kind EXCEPT ![c] = k]
    /\ pc' = [pc EXCEPT ![c] = "ready"]
    /\ UNCHANGED <<current, answers, attempt, endpointAttempts, endpoint, failedOn,
                   disturbed, slept>>

\* The call reads the service client of the current endpoint, under the lock,
\* and sends its request on it.
Send(c) ==
    /\ pc[c] = "ready"
    /\ endpoint' = [endpoint EXCEPT ![c] = current]
    /\ pc' = [pc EXCEPT ![c] = "waiting"]
    /\ UNCHANGED <<current, answers, kind, attempt, endpointAttempts, failedOn,
                   disturbed, slept>>

Succeed(c) ==
    /\ pc[c] = "waiting"
    /\ "ok" \in answers[endpoint[c]]
    /\ pc' = [pc EXCEPT ![c] = "succeeded"]
    /\ UNCHANGED <<current, answers, call>>

\* Mutant of Fail: no error rotates.
FailWithoutRotation(c, error) ==
    /\ pc[c] = "waiting"
    /\ error \in answers[endpoint[c]]
    /\ attempt' = [attempt EXCEPT ![c] = @ + 1]
    /\ failedOn' = [failedOn EXCEPT ![c] = @ \cup {endpoint[c]}]
    /\ endpointAttempts' = [endpointAttempts EXCEPT ![c] = @ + 1]
    /\ \/ /\ attempt[c] + 1 = MaxAttempts(c)
          /\ pc' = [pc EXCEPT ![c] = "failed"]
          /\ UNCHANGED slept
       \/ /\ attempt[c] + 1 < MaxAttempts(c)
          /\ pc' = [pc EXCEPT ![c] = "ready"]
          /\ slept' = [slept EXCEPT ![c] = @ + Backoff(endpointAttempts'[c])]
    /\ UNCHANGED <<current, answers, kind, endpoint, disturbed>>

\* The attempt fails; error is "transient" or "persistent".  The last attempt
\* is not followed by anything; a persistent error rotates from the second
\* failure on an endpoint; any other waits and tries the current endpoint.
Fail(c, error) ==
    /\ pc[c] = "waiting"
    /\ error \in answers[endpoint[c]]
    /\ attempt' = [attempt EXCEPT ![c] = @ + 1]
    /\ failedOn' = [failedOn EXCEPT ![c] = @ \cup {endpoint[c]}]
    /\ \/ /\ attempt[c] + 1 = MaxAttempts(c)
          /\ pc' = [pc EXCEPT ![c] = "failed"]
          /\ UNCHANGED <<endpointAttempts, slept>>
       \/ /\ attempt[c] + 1 < MaxAttempts(c)
          /\ endpointAttempts' = [endpointAttempts EXCEPT ![c] = @ + 1]
          /\ IF error = "persistent" /\ endpointAttempts'[c] >= 2 /\ NumEndpoints > 1
             THEN /\ pc' = [pc EXCEPT ![c] = "rotating"]
                  /\ UNCHANGED slept
             ELSE /\ pc' = [pc EXCEPT ![c] = "ready"]
                  /\ slept' = [slept EXCEPT ![c] = @ + Backoff(endpointAttempts'[c])]
    /\ UNCHANGED <<current, answers, kind, endpoint, disturbed>>

\* Mutant of Failover: the index runs past the last endpoint.
FailoverPastEnd(c) ==
    /\ pc[c] = "rotating"
    /\ current' = current + 1
    /\ endpointAttempts' = [endpointAttempts EXCEPT ![c] = 0]
    /\ slept' = [slept EXCEPT ![c] = @ + 1]
    /\ pc' = [pc EXCEPT ![c] = "ready"]
    /\ disturbed' = [d \in Callers |-> disturbed[d] \/ (d # c /\ pc[d] # "idle")]
    /\ UNCHANGED <<answers, kind, attempt, endpoint, failedOn>>

\* Failover: the current endpoint moves on, from wherever it is by now.
Failover(c) ==
    /\ pc[c] = "rotating"
    /\ current' = (current + 1) % NumEndpoints
    /\ endpointAttempts' = [endpointAttempts EXCEPT ![c] = 0]
    /\ slept' = [slept EXCEPT ![c] = @ + 1]
    /\ pc' = [pc EXCEPT ![c] = "ready"]
    /\ disturbed' = [d \in Callers |-> disturbed[d] \/ (d # c /\ pc[d] # "idle")]
    /\ UNCHANGED <<answers, kind, attempt, endpoint, failedOn>>

\* The caller has its result; its next call starts from nothing.
Return(c) ==
    /\ pc[c] \in {"succeeded", "failed"}
    /\ pc' = [pc EXCEPT ![c] = "idle"]
    /\ kind' = [kind EXCEPT ![c] = "failover"]
    /\ attempt' = [attempt EXCEPT ![c] = 0]
    /\ endpointAttempts' = [endpointAttempts EXCEPT ![c] = 0]
    /\ endpoint' = [endpoint EXCEPT ![c] = 0]
    /\ failedOn' = [failedOn EXCEPT ![c] = {}]
    /\ disturbed' = [disturbed EXCEPT ![c] = FALSE]
    /\ slept' = [slept EXCEPT ![c] = 0]
    /\ UNCHANGED <<current, answers>>

Next ==
    \E c \in Callers :
        \/ StartCall(c) \/ Send(c) \/ Succeed(c) \/ Failover(c) \/ Return(c)
        \/ \E error \in Answers \ {"ok"} : Fail(c, error)

Spec == Init /\ [][Next]_vars
-----------------------------------------------------------------------------
(* Properties *)

\* A call that retries and is not disturbed by another one fails only where
\* some endpoint gives transient errors, which never rotate, or every endpoint
\* may fail: it makes two attempts on each endpoint (WithFailoverRetry; the
\* ten attempts of GetTx reach up to five endpoints).
PatientCallSucceeds ==
    \A c \in Callers :
        /\ pc[c] = "failed" /\ kind[c] = "retry"
        /\ ~disturbed[c]
        /\ RetryAttempts >= 2 * NumEndpoints
        /\ \A e \in Endpoints : "transient" \notin answers[e]
        => \A e \in Endpoints : answers[e] # {"ok"}

\* The longest sleep of a call of n attempts: all on one endpoint, with a delay
\* after each but the last.  For the ten of GetTx this is 55 s (1, 2, 4 and six
\* times 8): not the "max ~16s total" of its comment, nor what the delays from
\* 500 ms on would sum up to that WithFailoverRetry announces.
MaxSleep(n) == CASE n = 1 -> 0 [] n = 2 -> 2 [] n = 3 -> 6 [] OTHER -> 16 * n - 50

\* What a call sleeps is bounded by its attempts, and by no less than the code
\* lets it sleep: the delay doubles from 1 s to 8 s, and a rotation, which starts
\* it again, costs less than it saves.
SleepBounded == \A c \in Callers : slept[c] <= MaxSleep(MaxAttempts(c))

\* A call with failover attempts all endpoints before giving up (doc of
\* WithFailover).
TriesAllEndpoints ==
    \A c \in Callers :
        pc[c] = "failed" /\ kind[c] = "failover" => failedOn[c] = Endpoints
=============================================================================
