----------------------------- MODULE EventStream -----------------------------
(***************************************************************************)
(* The event stream (pkg/feeder/eventstream/stream.go) on top of its       *)
(* websocket: votingPeriodLoop turns blocks into voting periods and        *)
(* switches the RPC endpoint when one fails, paramsLoop polls the oracle   *)
(* parameters, and the voter takes both from two buffered channels.        *)
(*                                                                         *)
(* Oracle parameters are known by their vote period; of the whitelist only *)
(* its change counts, which is a change of the parameters like any other.  *)
(* Stream.Close is never called by the program and is left out.            *)
(***************************************************************************)
EXTENDS Websocket

CONSTANTS VotePeriods,  \* vote periods the chain may have
          PeriodCap,    \* capacity of votePeriodCh
          ParamsCap,    \* capacity of paramsCh
          MaxChanges    \* bound: changes of the chain's parameters

ASSUME StreamAssumption ==
    /\ VotePeriods \subseteq Nat \ {0} /\ VotePeriods # {}
    /\ PeriodCap \in Nat \ {0} /\ ParamsCap \in Nat \ {0}
    /\ MaxChanges \in Nat

VARIABLES currentRPC,           \* index of the endpoint in use
          consecutiveFailures,
          quiet,                \* watchdog ticks since the last message
          streamPc,             \* where votingPeriodLoop is
          pending,              \* the voting period it is about to send
          votePeriodCh,
          chainParams,          \* parameters of the chain
          changes,              \* changes of them still to come
          currentParams,        \* what paramsLoop has seen last, or NoParams
          paramsPc,             \* where paramsLoop is
          paramsCh,
          votedPeriod,          \* the last period the voter received
          voterParams           \* the last parameters the voter received

failover == <<currentRPC, consecutiveFailures, quiet>>
periods == <<streamPc, pending, votePeriodCh>>
paramsVars == <<chainParams, changes, currentParams, paramsPc, paramsCh>>
received == <<votedPeriod, voterParams>>
vars == <<socketVars, failover, periods, paramsVars, received>>

MaxConsecutiveFailures == 3
StaleTicks == 5     \* 45 s and ticks of 10 s: the fifth tick, or the sixth
NoParams == 0
VotingPeriod == [height : 0..MaxHeight + 1, period : 0..MaxHeight + 1]
NoPeriod == [height |-> 0, period |-> 0]

TypeOK ==
    /\ SocketTypeOK
    /\ currentRPC \in Endpoints
    /\ consecutiveFailures \in
          IF NumEndpoints > 1 THEN 0..MaxConsecutiveFailures - 1 ELSE {0}
    /\ quiet \in 0..StaleTicks
    /\ streamPc \in {"select", "closing", "divide", "send"}
    /\ pending \in VotingPeriod
    /\ votePeriodCh \in Seq(VotingPeriod) /\ Len(votePeriodCh) <= PeriodCap
    /\ chainParams \in VotePeriods
    /\ changes \in 0..MaxChanges
    /\ currentParams \in VotePeriods \cup {NoParams}
    /\ paramsPc \in {"poll", "send"}
    /\ paramsCh \in Seq(VotePeriods) /\ Len(paramsCh) <= ParamsCap
    /\ votedPeriod \in 0..MaxHeight + 1
    /\ voterParams \in VotePeriods \cup {NoParams}

Init ==
    /\ SocketInit
    /\ currentRPC = 0
    /\ consecutiveFailures = 0
    /\ quiet = 0
    /\ streamPc = "select"
    /\ pending = NoPeriod
    /\ votePeriodCh = <<>>
    /\ chainParams \in VotePeriods
    /\ changes = MaxChanges
    /\ currentParams = NoParams
    /\ paramsPc = "poll"
    /\ paramsCh = <<>>
    /\ votedPeriod = 0
    /\ voterParams = NoParams

-----------------------------------------------------------------------------
(* votingPeriodLoop *)

\* switchToNextEndpointLocked, up to the middle of UpdateURL.
SwitchToNextEndpoint ==
    /\ currentRPC' = (currentRPC + 1) % NumEndpoints
    /\ SetUrl(currentRPC')
    /\ consecutiveFailures' = 0
    /\ streamPc' = "closing"

\* Mutant of HandleConnectionFailure: one failure too many is waited for.
HandleConnectionFailureLate ==
    IF NumEndpoints > 1 /\ consecutiveFailures >= MaxConsecutiveFailures
    THEN SwitchToNextEndpoint
    ELSE /\ consecutiveFailures' = consecutiveFailures + 1
         /\ UNCHANGED <<currentRPC, url, streamPc>>

\* With a single endpoint the count leads to nothing and is left at 0.
HandleConnectionFailure ==
    \/ /\ NumEndpoints > 1
       /\ consecutiveFailures + 1 >= MaxConsecutiveFailures
       /\ SwitchToNextEndpoint
    \/ /\ NumEndpoints > 1
       /\ consecutiveFailures + 1 < MaxConsecutiveFailures
       /\ consecutiveFailures' = consecutiveFailures + 1
       /\ UNCHANGED <<currentRPC, url, streamPc>>
    \/ /\ NumEndpoints = 1
       /\ UNCHANGED <<currentRPC, consecutiveFailures, url, streamPc>>

\* A tick while the loop has heard nothing since the last one.  It cannot
\* fall between two blocks of a healthy endpoint that is being read, and not
\* more often into a dial or a wait than that may last.
Quiet ==
    /\ messages = <<>>
    /\ \/ /\ wsPc \in {"dialing", "backoff"}
          /\ ticksLeft > 0
          /\ ticksLeft' = ticksLeft - 1
       \/ /\ \E e \in Endpoints : Reading(e) /\ mode[e] # "healthy"
          /\ UNCHANGED ticksLeft

Watchdog ==
    /\ streamPc = "select"
    /\ Quiet
    /\ \/ /\ quiet < StaleTicks
          /\ quiet' = quiet + 1
          /\ UNCHANGED <<currentRPC, consecutiveFailures, url, streamPc>>
       \/ /\ quiet + 1 >= StaleTicks
          /\ quiet' = StaleTicks
          /\ HandleConnectionFailure
    /\ UNCHANGED <<network, conn, wsPc, dialled, delay, messages, pending,
                   votePeriodCh, paramsVars, received>>

\* The second half of UpdateURL.
FinishSwitch ==
    /\ streamPc = "closing"
    /\ CloseConnection
    /\ streamPc' = "select"
    /\ UNCHANGED <<network, url, wsPc, dialled, ticksLeft, messages, failover,
                   pending, votePeriodCh, paramsVars, received>>

\* A single message that is no block makes the loop leave the endpoint in
\* use, whichever endpoint it came from.
ParseFailure ==
    /\ streamPc = "select"
    /\ messages # <<>>
    /\ Head(messages) = Garbage
    /\ messages' = Tail(messages)
    /\ quiet' = 0
    /\ \/ /\ NumEndpoints > 1
          /\ SwitchToNextEndpoint
       \/ /\ NumEndpoints = 1
          /\ UNCHANGED <<currentRPC, consecutiveFailures, url, streamPc>>
    /\ UNCHANGED <<network, conn, wsPc, dialled, delay, ticksLeft, pending,
                   votePeriodCh, paramsVars, received>>

\* Mutant of StartsPeriod: every block counts.
EveryBlock(height) == TRUE

\* Whether the block after this height starts a voting period.
StartsPeriod(height) == (height + 1) % currentParams = 0

\* A block resets the failures; without parameters it is ignored.
HandleBlock ==
    /\ streamPc = "select"
    /\ messages # <<>>
    /\ Head(messages) # Garbage
    /\ messages' = Tail(messages)
    /\ quiet' = 0
    /\ consecutiveFailures' = 0
    /\ IF currentParams # NoParams /\ StartsPeriod(Head(messages))
       THEN /\ pending' = [height |-> Head(messages) + 1, period |-> 0]
            /\ streamPc' = "divide"
       ELSE UNCHANGED <<pending, streamPc>>
    /\ UNCHANGED <<network, url, conn, wsPc, dialled, delay, ticksLeft, currentRPC,
                   votePeriodCh, paramsVars, received>>

\* The period number is computed from the parameters read once more, without
\* a lock, while paramsLoop may replace them.
Divide ==
    /\ streamPc = "divide"
    /\ pending' = [pending EXCEPT !.period = pending.height \div currentParams]
    /\ streamPc' = "send"
    /\ UNCHANGED <<socketVars, failover, votePeriodCh, paramsVars, received>>

\* The send blocks while the channel is full.
SendPeriod ==
    /\ streamPc = "send"
    /\ Len(votePeriodCh) < PeriodCap
    /\ votePeriodCh' = Append(votePeriodCh, pending)
    /\ pending' = NoPeriod
    /\ streamPc' = "select"
    /\ UNCHANGED <<socketVars, failover, paramsVars, received>>

VotingPeriodLoop ==
    FinishSwitch \/ ParseFailure \/ HandleBlock \/ Divide \/ SendPeriod

-----------------------------------------------------------------------------
(* paramsLoop *)

ParamsChange ==
    /\ changes > 0
    /\ changes' = changes - 1
    /\ chainParams' \in VotePeriods \ {chainParams}
    /\ UNCHANGED <<socketVars, failover, periods, currentParams, paramsPc, paramsCh,
                   received>>

\* Mutant of UpdateParams: every answer is taken for news.
UpdateParamsAlways ==
    /\ paramsPc = "poll"
    /\ currentParams' = chainParams
    /\ paramsPc' = "send"
    /\ UNCHANGED <<socketVars, failover, periods, chainParams, changes, paramsCh,
                   received>>

\* updateParams.  A query that fails changes nothing; a zero vote period is
\* refused.
UpdateParams ==
    /\ paramsPc = "poll"
    /\ currentParams # chainParams
    /\ currentParams' = chainParams
    /\ paramsPc' = "send"
    /\ UNCHANGED <<socketVars, failover, periods, chainParams, changes, paramsCh,
                   received>>

\* Mutant of SendParams: the update is dropped when the channel is full.
TrySendParams ==
    /\ paramsPc = "send"
    /\ paramsCh' = IF Len(paramsCh) < ParamsCap
                   THEN Append(paramsCh, currentParams) ELSE paramsCh
    /\ paramsPc' = "poll"
    /\ UNCHANGED <<socketVars, failover, periods, chainParams, changes,
                   currentParams, received>>

\* The send blocks while the channel is full.
SendParams ==
    /\ paramsPc = "send"
    /\ Len(paramsCh) < ParamsCap
    /\ paramsCh' = Append(paramsCh, currentParams)
    /\ paramsPc' = "poll"
    /\ UNCHANGED <<socketVars, failover, periods, chainParams, changes,
                   currentParams, received>>

ParamsLoop == UpdateParams \/ SendParams

-----------------------------------------------------------------------------
(* The voter's select *)

ReceivePeriod ==
    /\ votePeriodCh # <<>>
    /\ votedPeriod' = Head(votePeriodCh).period
    /\ votePeriodCh' = Tail(votePeriodCh)
    /\ UNCHANGED <<socketVars, failover, streamPc, pending, paramsVars, voterParams>>

ReceiveParams ==
    /\ paramsCh # <<>>
    /\ voterParams' = Head(paramsCh)
    /\ paramsCh' = Tail(paramsCh)
    /\ UNCHANGED <<socketVars, failover, periods, chainParams, changes,
                   currentParams, paramsPc, votedPeriod>>

Voter == ReceivePeriod \/ ReceiveParams

Next ==
    \/ SocketNext /\ UNCHANGED <<failover, periods, paramsVars, received>>
    \/ Watchdog \/ VotingPeriodLoop
    \/ ParamsChange \/ ParamsLoop
    \/ Voter

-----------------------------------------------------------------------------
Spec == Init /\ [][Next]_vars

\* The goroutines run, and dials and waits end.  The ticker ticks: dials that
\* fail one after another cannot outrun it, for a wait of a second or more
\* follows each of them.  Blocks need not come.
Fairness ==
    /\ WF_vars(SocketLoop /\ UNCHANGED <<failover, periods, paramsVars, received>>)
    /\ SF_vars(Watchdog)
    /\ WF_vars(VotingPeriodLoop)
    /\ WF_vars(ParamsLoop)
    /\ WF_vars(ReceivePeriod) /\ WF_vars(ReceiveParams)

FairSpec == Spec /\ Fairness

-----------------------------------------------------------------------------
(* Properties *)

\* No parameter update is lost between paramsLoop and the voter, which never
\* asks for them: what the voter has and what is on the way to it end with
\* what paramsLoop holds.
ParamsDelivered ==
    paramsPc = "poll" =>
        currentParams = IF paramsCh = <<>> THEN voterParams
                        ELSE paramsCh[Len(paramsCh)]

\* After the last change of the chain's parameters the voter ends up with
\* them.
ParamsReachVoter == <>[](voterParams = chainParams)

\* What may take the stream past an endpoint that is healthy: a dial begun before
\* the switch to it ends in a connection to another one (ReadsNewUrl), the
\* watchdog loses patience while a dial or a backoff wait still lasts, or a
\* message of another endpoint is charged to it.
SkipsHealthy ==
    /\ mode[url] = "healthy"
    /\ \/ Connected /\ dialled # url
       \/ Watchdog /\ streamPc' = "closing" /\ wsPc \in {"dialing", "backoff"}
       \/ ParseFailure


\* On one endpoint, while the parameters have not changed, the voter never
\* receives a period again or an older one, however often the connection
\* fails: Voter compares a period only with the last one it voted in.
PeriodsIncrease ==
    [][ReceivePeriod /\ NumEndpoints = 1 /\ changes = MaxChanges
         => Head(votePeriodCh).period > votedPeriod]_vars

\* The stream with its websocket implements EventFeed, whatever the endpoints do:
\* no update is repeated or lost, no notice of a period is lost or doubled, and on
\* one endpoint periods are announced in order until the parameters change.  An
\* update is announced once paramsLoop holds it, a period once its number is there.
Feed == INSTANCE EventFeed
    WITH ParamValues <- VotePeriods,
         Notices <- VotingPeriod,
         steady <- NumEndpoints = 1 /\ changes = MaxChanges,
         params <- chainParams,
         updates <- IF paramsPc = "send" THEN Append(paramsCh, currentParams) ELSE paramsCh,
         told <- voterParams,
         due <- IF streamPc = "send" THEN Append(votePeriodCh, pending) ELSE votePeriodCh,
         voted <- votedPeriod
ImplementsEventFeed == Feed!Spec

\* Once UpdateURL is through, the connection that is open or opened next is
\* one to the new URL (doc of UpdateURL).
ReadsNewUrl == conn # None /\ streamPc # "closing" => conn = url
=============================================================================
