--------------------------- MODULE EventStreamProofs ---------------------------
(***************************************************************************)
(* Proofs about EventStream: type correctness of the stream with its       *)
(* websocket, that no parameter update is lost on its way to the voter,    *)
(* that periods arrive in order, and that EventStream implements EventFeed. *)
(***************************************************************************)
EXTENDS EventStream, SequenceTheorems, TLAPS

-----------------------------------------------------------------------------
(* Channels and arithmetic *)

LEMMA Send ==
    ASSUME NEW S, NEW ch \in Seq(S), NEW m \in S
    PROVE  /\ Append(ch, m) \in Seq(S)
           /\ Len(ch) \in Nat /\ Len(Append(ch, m)) = Len(ch) + 1
           /\ Append(ch, m) # <<>>
           /\ Append(ch, m)[Len(ch) + 1] = m
BY AppendProperties, LenProperties

LEMMA Receive ==
    ASSUME NEW S, NEW ch \in Seq(S), ch # <<>>
    PROVE  /\ Len(ch) \in Nat \ {0}
           /\ Head(ch) \in S /\ Head(ch) = ch[1]
           /\ Tail(ch) \in Seq(S) /\ Len(Tail(ch)) = Len(ch) - 1
           /\ \A i \in 1..Len(Tail(ch)) : Tail(ch)[i] = ch[i + 1]
           /\ Tail(ch) = <<>> <=> Len(ch) = 1
<1>1. Len(ch) \in Nat \ {0} /\ Head(ch) = ch[1] /\ Head(ch) \in S
  BY EmptySeq
<1>2. /\ Tail(ch) \in Seq(S) /\ Len(Tail(ch)) = Len(ch) - 1
      /\ \A i \in 1..Len(Tail(ch)) : Tail(ch)[i] = ch[i + 1]
  BY <1>1, HeadTailProperties
<1>3. Tail(ch) = <<>> <=> Len(Tail(ch)) = 0
  BY <1>2, EmptySeq
<1> QED
  BY <1>1, <1>2, <1>3

\* A period number is not larger than the height it is computed from.
LEMMA Quotient ==
    ASSUME NEW a \in Nat, NEW b \in Nat \ {0}
    PROVE  a \div b \in 0..a
OBVIOUS

LEMMA Rotation ==
    ASSUME NEW e \in Endpoints
    PROVE  (e + 1) % NumEndpoints \in Endpoints
BY WebsocketAssumption DEF Endpoints

\* A wait is at most the longest one.
LEMMA Wait ==
    ASSUME NEW d \in InitialReconnectBackoff..MaxReconnectBackoff
    PROVE  WaitTicks(d) \in 0..WaitTicks(MaxReconnectBackoff)
BY DEF WaitTicks, InitialReconnectBackoff, MaxReconnectBackoff

-----------------------------------------------------------------------------
(* Type correctness *)

FailoverType ==
    /\ currentRPC \in Endpoints
    /\ consecutiveFailures \in
          IF NumEndpoints > 1 THEN 0..MaxConsecutiveFailures - 1 ELSE {0}
    /\ quiet \in 0..StaleTicks
    /\ streamPc \in {"select", "closing", "divide", "send"}

PeriodsType ==
    /\ pending \in VotingPeriod
    /\ votePeriodCh \in Seq(VotingPeriod) /\ Len(votePeriodCh) <= PeriodCap
    /\ votedPeriod \in 0..MaxHeight + 1

ParamsType ==
    /\ chainParams \in VotePeriods
    /\ changes \in 0..MaxChanges
    /\ currentParams \in VotePeriods \cup {NoParams}
    /\ paramsPc \in {"poll", "send"}
    /\ paramsCh \in Seq(VotePeriods) /\ Len(paramsCh) <= ParamsCap
    /\ voterParams \in VotePeriods \cup {NoParams}

LEMMA TypeParts ==
    TypeOK <=> SocketTypeOK /\ FailoverType /\ PeriodsType /\ ParamsType
BY DEF TypeOK, FailoverType, PeriodsType, ParamsType

\* A period number is computed, and an update is sent, only after parameters came.
ParamsKnown ==
    streamPc = "divide" \/ paramsPc = "send" => currentParams # NoParams

\* The queue of messages takes one more.
LEMMA MessageArrives ==
    ASSUME SocketTypeOK, NEW m \in 0..MaxHeight, Len(messages) < MessageCap,
           messages' = Append(messages, m)
    PROVE  messages' \in Seq(0..MaxHeight) /\ Len(messages') <= MessageCap
<1>1. messages \in Seq(0..MaxHeight)
  BY DEF SocketTypeOK
<1>2. /\ Append(messages, m) \in Seq(0..MaxHeight)
      /\ Len(messages) \in Nat /\ Len(Append(messages, m)) = Len(messages) + 1
  BY <1>1, Send
<1> QED
  BY <1>2, WebsocketAssumption

LEMMA MessageHandled ==
    ASSUME SocketTypeOK, messages # <<>>, messages' = Tail(messages)
    PROVE  /\ messages' \in Seq(0..MaxHeight) /\ Len(messages') <= MessageCap
           /\ Head(messages) \in 0..MaxHeight
<1>1. messages \in Seq(0..MaxHeight) /\ Len(messages) <= MessageCap
  BY DEF SocketTypeOK
<1>2. /\ Len(messages) \in Nat /\ Head(messages) \in 0..MaxHeight
      /\ Tail(messages) \in Seq(0..MaxHeight) /\ Len(Tail(messages)) = Len(messages) - 1
  BY <1>1, Receive
<1> QED
  BY <1>1, <1>2, WebsocketAssumption

\* The steps of the websocket.
LEMMA SocketTypeStep ==
    ASSUME SocketTypeOK, SocketNext
    PROVE  SocketTypeOK'
<1> USE DEF SocketTypeOK
<1>w. /\ WaitTicks(MaxReconnectBackoff) \in Nat /\ DialTicks \in Nat
      /\ drops \in Nat /\ MaxDrops \in Nat /\ None \notin Endpoints
  BY WebsocketAssumption, Wait
     DEF InitialReconnectBackoff, MaxReconnectBackoff, WaitTicks, None, Endpoints
<1>1. CASE Dial
  BY <1>1, <1>w DEF Dial, network
<1>2. CASE Connected
  BY <1>2, <1>w DEF Connected, network, InitialReconnectBackoff, MaxReconnectBackoff
<1>3. CASE DialFailed
  <2>1. ticksLeft' \in 0..WaitTicks(MaxReconnectBackoff) + DialTicks
    <3>1. WaitTicks(delay) \in 0..WaitTicks(MaxReconnectBackoff)
      BY Wait
    <3> QED
      BY <1>3, <1>w, <3>1 DEF DialFailed
  <2>2. drops' \in 0..MaxDrops
    BY <1>3, <1>w DEF DialFailed
  <2> QED
    BY <1>3, <2>1, <2>2 DEF DialFailed
<1>4. CASE Reconnect
  <2>1. delay' \in InitialReconnectBackoff..MaxReconnectBackoff
    BY <1>4 DEF Reconnect, InitialReconnectBackoff, MaxReconnectBackoff
  <2> QED
    BY <1>4, <1>w, <2>1 DEF Reconnect, network
<1>5. CASE ReadError
  BY <1>5 DEF ReadError, network
<1>6. CASE Disconnect
  <2>1. drops' \in 0..MaxDrops
    BY <1>6, <1>w DEF Disconnect
  <2> QED
    BY <1>6, <2>1 DEF Disconnect
<1>7. CASE GarbageArrives
  <2>1. messages' \in Seq(0..MaxHeight) /\ Len(messages') <= MessageCap
    BY <1>7, MessageArrives, WebsocketAssumption DEF GarbageArrives, Garbage
  <2> QED
    BY <1>7, <2>1 DEF GarbageArrives, network
<1>8. ASSUME NEW e \in Endpoints, Block(e)
      PROVE  SocketTypeOK'
  <2>1. head[e] \in 0..MaxHeight /\ head[e] < MaxHeight
    BY <1>8 DEF Block
  <2>2. head' = [head EXCEPT ![e] = head[e] + 1] /\ head[e] + 1 \in 0..MaxHeight
    BY <1>8, <2>1, WebsocketAssumption DEF Block
  <2>3. head' \in [Endpoints -> 0..MaxHeight] /\ head'[e] \in 0..MaxHeight
    BY <2>2
  <2>4. messages' \in Seq(0..MaxHeight) /\ Len(messages') <= MessageCap
    BY <1>8, <2>3, MessageArrives DEF Block
  <2> QED
    BY <1>8, <2>3, <2>4 DEF Block
<1> QED
  BY <1>1, <1>2, <1>3, <1>4, <1>5, <1>6, <1>7, <1>8 DEF SocketNext, SocketLoop

LEMMA SwitchType ==
    ASSUME FailoverType, SwitchToNextEndpoint
    PROVE  /\ currentRPC' \in Endpoints /\ url' \in Endpoints
           /\ consecutiveFailures' \in
                 IF NumEndpoints > 1 THEN 0..MaxConsecutiveFailures - 1 ELSE {0}
           /\ streamPc' = "closing"
BY Rotation DEF FailoverType, SwitchToNextEndpoint, SetUrl, MaxConsecutiveFailures

\* The steps of the watchdog and the loop of the stream.
LEMMA StreamTypeStep ==
    ASSUME TypeOK, ParamsKnown, Watchdog \/ VotingPeriodLoop
    PROVE  SocketTypeOK' /\ FailoverType' /\ PeriodsType' /\ ParamsType'
<1> USE TypeParts
<1>1. CASE Watchdog
  <2>1. ticksLeft' \in 0..WaitTicks(MaxReconnectBackoff) + DialTicks
    <3>1. ticksLeft \in 0..WaitTicks(MaxReconnectBackoff) + DialTicks
      BY DEF SocketTypeOK
    <3>2. ticksLeft' = ticksLeft \/ (ticksLeft > 0 /\ ticksLeft' = ticksLeft - 1)
      BY <1>1 DEF Watchdog, Quiet
    <3> QED
      BY <3>1, <3>2, WebsocketAssumption DEF WaitTicks, MaxReconnectBackoff
  <2>2. /\ currentRPC' \in Endpoints /\ url' \in Endpoints
        /\ consecutiveFailures' \in
              IF NumEndpoints > 1 THEN 0..MaxConsecutiveFailures - 1 ELSE {0}
        /\ streamPc' \in {"select", "closing"}
    <3>1. CASE SwitchToNextEndpoint
      BY <3>1, SwitchType
    <3>2. CASE UNCHANGED <<currentRPC, consecutiveFailures, url, streamPc>>
      BY <1>1, <3>2 DEF FailoverType, SocketTypeOK, Watchdog
    <3>3. CASE /\ NumEndpoints > 1
               /\ consecutiveFailures + 1 < MaxConsecutiveFailures
               /\ consecutiveFailures' = consecutiveFailures + 1
               /\ UNCHANGED <<currentRPC, url, streamPc>>
      BY <1>1, <3>3 DEF FailoverType, SocketTypeOK, Watchdog, MaxConsecutiveFailures
    <3> QED
      BY <1>1, <3>1, <3>2, <3>3 DEF Watchdog, HandleConnectionFailure
  <2>3. quiet' \in 0..StaleTicks
    BY <1>1 DEF Watchdog, FailoverType, StaleTicks
  <2>4. SocketTypeOK'
    BY <1>1, <2>1, <2>2 DEF Watchdog, SocketTypeOK, network
  <2>5. FailoverType'
    BY <2>2, <2>3 DEF FailoverType
  <2> QED
    BY <1>1, <2>4, <2>5 DEF Watchdog, PeriodsType, ParamsType, paramsVars, received
<1>2. CASE FinishSwitch
  <2>1. delay' \in InitialReconnectBackoff..MaxReconnectBackoff
    BY <1>2 DEF FinishSwitch, CloseConnection, SocketTypeOK, InitialReconnectBackoff,
                MaxReconnectBackoff
  <2>2. SocketTypeOK'
    BY <1>2, <2>1 DEF FinishSwitch, CloseConnection, SocketTypeOK, network
  <2> QED
    BY <1>2, <2>2 DEF FinishSwitch, FailoverType, PeriodsType, ParamsType, failover,
                      paramsVars, received
<1>3. CASE ParseFailure
  <2>1. messages' \in Seq(0..MaxHeight) /\ Len(messages') <= MessageCap
    BY <1>3, MessageHandled DEF ParseFailure
  <2>2. /\ currentRPC' \in Endpoints /\ url' \in Endpoints
        /\ consecutiveFailures' \in
              IF NumEndpoints > 1 THEN 0..MaxConsecutiveFailures - 1 ELSE {0}
        /\ streamPc' \in {"select", "closing"}
    <3>1. CASE SwitchToNextEndpoint
      BY <3>1, SwitchType
    <3>2. CASE UNCHANGED <<currentRPC, consecutiveFailures, url, streamPc>>
      BY <1>3, <3>2 DEF FailoverType, SocketTypeOK, ParseFailure
    <3> QED
      BY <1>3, <3>1, <3>2 DEF ParseFailure
  <2>3. SocketTypeOK'
    BY <1>3, <2>1, <2>2 DEF ParseFailure, SocketTypeOK, network
  <2>4. FailoverType'
    BY <1>3, <2>2 DEF FailoverType, ParseFailure, StaleTicks
  <2> QED
    BY <1>3, <2>3, <2>4 DEF ParseFailure, PeriodsType, ParamsType, paramsVars, received
<1>4. CASE HandleBlock
  <2>1. /\ messages' \in Seq(0..MaxHeight) /\ Len(messages') <= MessageCap
        /\ Head(messages) \in 0..MaxHeight
    BY <1>4, MessageHandled DEF HandleBlock
  <2>2. [height |-> Head(messages) + 1, period |-> 0] \in VotingPeriod
    BY <2>1, WebsocketAssumption DEF VotingPeriod
  <2>3. pending' \in VotingPeriod
    BY <1>4, <2>2 DEF HandleBlock, PeriodsType
  <2>4. SocketTypeOK'
    BY <1>4, <2>1 DEF HandleBlock, SocketTypeOK, network
  <2>5. consecutiveFailures' \in
           IF NumEndpoints > 1 THEN 0..MaxConsecutiveFailures - 1 ELSE {0}
    BY <1>4 DEF HandleBlock, MaxConsecutiveFailures
  <2>6. FailoverType'
    BY <1>4, <2>5 DEF HandleBlock, FailoverType, StaleTicks
  <2> QED
    BY <1>4, <2>3, <2>4, <2>6 DEF HandleBlock, PeriodsType, ParamsType, paramsVars, received
<1>5. CASE Divide
  <2>1. currentParams \in Nat \ {0}
    BY <1>5, StreamAssumption DEF Divide, ParamsKnown, ParamsType, NoParams
  <2>2. pending.height \in 0..MaxHeight + 1 /\ pending.height \in Nat
    BY WebsocketAssumption DEF PeriodsType, VotingPeriod
  <2>3. pending.height \div currentParams \in 0..pending.height
    BY <2>1, <2>2, Quotient
  <2>4. pending.height \div currentParams \in 0..MaxHeight + 1
    BY <2>2, <2>3, WebsocketAssumption
  <2>5. pending' \in VotingPeriod
    BY <1>5, <2>4 DEF Divide, PeriodsType, VotingPeriod
  <2>6. SocketTypeOK'
    BY <1>5 DEF Divide, SocketTypeOK, socketVars, network
  <2> QED
    BY <1>5, <2>5, <2>6 DEF Divide, FailoverType, PeriodsType, ParamsType, failover,
                            paramsVars, received
<1>6. CASE SendPeriod
  <2>1. votePeriodCh' \in Seq(VotingPeriod) /\ Len(votePeriodCh') <= PeriodCap
    <3>1. /\ Append(votePeriodCh, pending) \in Seq(VotingPeriod)
          /\ Len(votePeriodCh) \in Nat
          /\ Len(Append(votePeriodCh, pending)) = Len(votePeriodCh) + 1
      BY Send DEF PeriodsType
    <3> QED
      BY <1>6, <3>1, StreamAssumption DEF SendPeriod
  <2>2. pending' \in VotingPeriod
    BY <1>6, WebsocketAssumption DEF SendPeriod, NoPeriod, VotingPeriod
  <2>3. SocketTypeOK'
    BY <1>6 DEF SendPeriod, SocketTypeOK, socketVars, network
  <2> QED
    BY <1>6, <2>1, <2>2, <2>3 DEF SendPeriod, FailoverType, PeriodsType, ParamsType,
                                  failover, paramsVars, received
<1> QED
  BY <1>1, <1>2, <1>3, <1>4, <1>5, <1>6 DEF VotingPeriodLoop

\* The steps of paramsLoop, the chain's parameters and the voter.
LEMMA ParamsTypeStep ==
    ASSUME TypeOK, ParamsKnown, ParamsChange \/ ParamsLoop \/ Voter
    PROVE  SocketTypeOK' /\ FailoverType' /\ PeriodsType' /\ ParamsType'
<1> USE TypeParts
<1>1. CASE ParamsChange
  <2>1. changes' \in 0..MaxChanges /\ chainParams' \in VotePeriods
    BY <1>1, StreamAssumption DEF ParamsChange, ParamsType
  <2> QED
    BY <1>1, <2>1 DEF ParamsChange, SocketTypeOK, FailoverType, PeriodsType, ParamsType,
                      socketVars, network, failover, periods, received
<1>2. CASE UpdateParams
  BY <1>2 DEF UpdateParams, SocketTypeOK, FailoverType, PeriodsType, ParamsType,
              socketVars, network, failover, periods, received
<1>3. CASE SendParams
  <2>1. paramsCh' \in Seq(VotePeriods) /\ Len(paramsCh') <= ParamsCap
    <3>1. currentParams \in VotePeriods
      BY <1>3 DEF SendParams, ParamsKnown, ParamsType
    <3>2. /\ Append(paramsCh, currentParams) \in Seq(VotePeriods) /\ Len(paramsCh) \in Nat
          /\ Len(Append(paramsCh, currentParams)) = Len(paramsCh) + 1
      BY <3>1, Send DEF ParamsType
    <3> QED
      BY <1>3, <3>2, StreamAssumption DEF SendParams
  <2> QED
    BY <1>3, <2>1 DEF SendParams, SocketTypeOK, FailoverType, PeriodsType, ParamsType,
                      socketVars, network, failover, periods, received
<1>4. CASE ReceivePeriod
  <2>1. /\ votePeriodCh' \in Seq(VotingPeriod) /\ Len(votePeriodCh') <= PeriodCap
        /\ votedPeriod' \in 0..MaxHeight + 1
    <3>1. /\ Tail(votePeriodCh) \in Seq(VotingPeriod) /\ Head(votePeriodCh) \in VotingPeriod
          /\ Len(votePeriodCh) \in Nat /\ Len(Tail(votePeriodCh)) = Len(votePeriodCh) - 1
      BY <1>4, Receive DEF ReceivePeriod, PeriodsType
    <3>2. Head(votePeriodCh).period \in 0..MaxHeight + 1
      BY <3>1 DEF VotingPeriod
    <3> QED
      BY <1>4, <3>1, <3>2, StreamAssumption DEF ReceivePeriod, PeriodsType
  <2> QED
    BY <1>4, <2>1 DEF ReceivePeriod, SocketTypeOK, FailoverType, PeriodsType, ParamsType,
                      socketVars, network, failover, paramsVars
<1>5. CASE ReceiveParams
  <2>1. /\ paramsCh' \in Seq(VotePeriods) /\ Len(paramsCh') <= ParamsCap
        /\ voterParams' \in VotePeriods
    <3>1. /\ Tail(paramsCh) \in Seq(VotePeriods) /\ Head(paramsCh) \in VotePeriods
          /\ Len(paramsCh) \in Nat /\ Len(Tail(paramsCh)) = Len(paramsCh) - 1
      BY <1>5, Receive DEF ReceiveParams, ParamsType
    <3> QED
      BY <1>5, <3>1, StreamAssumption DEF ReceiveParams, ParamsType
  <2> QED
    BY <1>5, <2>1 DEF ReceiveParams, SocketTypeOK, FailoverType, PeriodsType, ParamsType,
                      socketVars, network, failover, periods
<1> QED
  BY <1>1, <1>2, <1>3, <1>4, <1>5 DEF ParamsLoop, Voter

\* Parameters, once there, are only replaced by others.
LEMMA KnownStep ==
    ASSUME TypeOK, ParamsKnown, [Next]_vars
    PROVE  ParamsKnown'
<1>1. currentParams # NoParams => currentParams' # NoParams
  <2>1. NoParams \notin VotePeriods
    BY StreamAssumption DEF NoParams
  <2>2. currentParams' = currentParams \/ currentParams' = chainParams
    BY DEF Next, SocketNext, Watchdog, VotingPeriodLoop, FinishSwitch, ParseFailure,
           HandleBlock, Divide, SendPeriod, ParamsChange, ParamsLoop, UpdateParams,
           SendParams, Voter, ReceivePeriod, ReceiveParams, vars, paramsVars
  <2> QED
    BY <2>1, <2>2 DEF TypeOK
<1>2. streamPc' = "divide" => streamPc = "divide" \/ currentParams # NoParams
  BY DEF Next, SocketNext, Watchdog, HandleConnectionFailure, SwitchToNextEndpoint,
         VotingPeriodLoop, FinishSwitch, ParseFailure, HandleBlock, Divide, SendPeriod,
         ParamsChange, ParamsLoop, UpdateParams, SendParams, Voter, ReceivePeriod,
         ReceiveParams, vars, periods
<1>3. paramsPc' = "send" => paramsPc = "send" \/ currentParams' = chainParams
  BY DEF Next, SocketNext, Watchdog, VotingPeriodLoop, FinishSwitch, ParseFailure,
         HandleBlock, Divide, SendPeriod, ParamsChange, ParamsLoop, UpdateParams,
         SendParams, Voter, ReceivePeriod, ReceiveParams, vars, paramsVars
<1>4. chainParams # NoParams
  BY StreamAssumption DEF TypeOK, NoParams
<1> QED
  BY <1>1, <1>2, <1>3, <1>4 DEF ParamsKnown

LEMMA TypeStep == TypeOK /\ ParamsKnown /\ [Next]_vars => TypeOK' /\ ParamsKnown'
<1> SUFFICES ASSUME TypeOK, ParamsKnown, [Next]_vars
             PROVE  SocketTypeOK' /\ FailoverType' /\ PeriodsType' /\ ParamsType'
  BY TypeParts, KnownStep, PTL
<1>1. CASE SocketNext /\ UNCHANGED <<failover, periods, paramsVars, received>>
  <2>1. SocketTypeOK'
    BY <1>1, TypeParts, SocketTypeStep
  <2> QED
    BY <1>1, <2>1, TypeParts DEF FailoverType, PeriodsType, ParamsType, failover, periods,
                                 paramsVars, received
<1>2. CASE UNCHANGED vars
  BY <1>2, TypeParts
     DEF vars, socketVars, network, failover, periods, paramsVars, received, SocketTypeOK,
         FailoverType, PeriodsType, ParamsType
<1> QED
  BY <1>1, <1>2, StreamTypeStep, ParamsTypeStep DEF Next

LEMMA TypeInit == Init => TypeOK /\ ParamsKnown
<1> SUFFICES ASSUME Init PROVE TypeOK /\ ParamsKnown
  OBVIOUS
<1>1. 0 \in Endpoints
  BY WebsocketAssumption DEF Endpoints
<1>2. SocketTypeOK
  BY <1>1, WebsocketAssumption
     DEF Init, SocketInit, SocketTypeOK, InitialReconnectBackoff, MaxReconnectBackoff,
         WaitTicks
<1>3. FailoverType
  BY <1>1 DEF Init, FailoverType, MaxConsecutiveFailures, StaleTicks
<1>4. PeriodsType
  BY StreamAssumption, WebsocketAssumption DEF Init, PeriodsType, VotingPeriod, NoPeriod
<1>5. ParamsType
  BY StreamAssumption DEF Init, ParamsType
<1> QED
  BY <1>2, <1>3, <1>4, <1>5, TypeParts DEF Init, ParamsKnown

\* The stream, its websocket and its channels keep their types, for any number of
\* endpoints and any capacities: no channel overflows, the failure count never
\* passes its limit, and a backoff never lasts longer than the longest.
THEOREM EventTypeCorrect == Spec => []TypeOK
BY TypeInit, TypeStep, PTL DEF Spec

-----------------------------------------------------------------------------
(* Parameters *)

LEMMA DeliveredStep ==
    ASSUME TypeOK, ParamsKnown, ParamsDelivered, [Next]_vars
    PROVE  ParamsDelivered'
<1>0. paramsCh \in Seq(VotePeriods)
  BY DEF TypeOK
<1>1. CASE UpdateParams
  BY <1>1 DEF UpdateParams, ParamsDelivered
<1>2. CASE SendParams
  <2>1. currentParams \in VotePeriods
    BY <1>2 DEF SendParams, ParamsKnown, TypeOK
  <2>2. /\ paramsCh' # <<>> /\ Len(paramsCh') = Len(paramsCh) + 1
        /\ paramsCh'[Len(paramsCh) + 1] = currentParams /\ currentParams' = currentParams
    BY <1>0, <1>2, <2>1, Send DEF SendParams
  <2> QED
    BY <2>2 DEF ParamsDelivered
<1>3. CASE ReceiveParams
  <2>1. /\ paramsCh # <<>> /\ paramsCh' = Tail(paramsCh) /\ voterParams' = Head(paramsCh)
        /\ currentParams' = currentParams /\ paramsPc' = paramsPc
    BY <1>3 DEF ReceiveParams
  <2>2. /\ Len(paramsCh) \in Nat \ {0} /\ Head(paramsCh) = paramsCh[1]
        /\ Len(Tail(paramsCh)) = Len(paramsCh) - 1
        /\ \A i \in 1..Len(Tail(paramsCh)) : Tail(paramsCh)[i] = paramsCh[i + 1]
        /\ Tail(paramsCh) = <<>> <=> Len(paramsCh) = 1
    BY <1>0, <2>1, Receive
  <2>3. CASE Len(paramsCh) = 1
    BY <2>1, <2>2, <2>3 DEF ParamsDelivered
  <2>4. CASE Len(paramsCh) # 1
    <3>1. Tail(paramsCh)[Len(Tail(paramsCh))] = paramsCh[Len(paramsCh)]
      BY <2>2, <2>4
    <3> QED
      BY <2>1, <2>2, <2>4, <3>1 DEF ParamsDelivered
  <2> QED
    BY <2>3, <2>4
<1>4. CASE UNCHANGED <<paramsPc, currentParams, paramsCh, voterParams>>
  BY <1>4 DEF ParamsDelivered
<1> QED
  BY <1>1, <1>2, <1>3, <1>4
     DEF Next, SocketNext, Watchdog, VotingPeriodLoop, FinishSwitch, ParseFailure,
         HandleBlock, Divide, SendPeriod, ParamsChange, ParamsLoop, Voter, ReceivePeriod,
         vars, paramsVars, received

\* No parameter update is lost between paramsLoop and the voter, whatever the
\* capacity of the channel and however long the voter does not listen.
THEOREM UpdatesDelivered == Spec => []ParamsDelivered
<1>1. Init => ParamsDelivered
  BY DEF Init, ParamsDelivered
<1>2. TypeOK /\ ParamsKnown /\ ParamsDelivered /\ [Next]_vars => ParamsDelivered'
  BY DeliveredStep
<1> QED
  BY <1>1, <1>2, TypeInit, TypeStep, PTL DEF Spec

-----------------------------------------------------------------------------
(* Periods in order *)

\* One endpoint, and parameters that have not changed yet.
Steady == NumEndpoints = 1 /\ changes = MaxChanges

Sending == streamPc \in {"divide", "send"}

\* Every period received, sent or about to be sent starts below a height.
StartedBelow(height) ==
    /\ votedPeriod * chainParams < height
    /\ \A i \in 1..Len(votePeriodCh) : votePeriodCh[i].height < height
    /\ Sending => pending.height < height

\* Blocks wait in the order in which the endpoint has had them.
BlocksInOrder ==
    /\ \A i, j \in 1..Len(messages) :
          i < j /\ messages[j] # Garbage => messages[i] < messages[j]
    /\ \A i \in 1..Len(messages) : messages[i] <= head[0]

\* A block that is not handled yet, or is still to come, starts no period at or
\* below one that was started.
BlocksAhead ==
    /\ StartedBelow(head[0] + 2)
    /\ \A i \in 1..Len(messages) :
          messages[i] # Garbage => StartedBelow(messages[i] + 1)

\* Periods wait in order, each with the number of its height.
PeriodsInOrder ==
    /\ \A i \in 1..Len(votePeriodCh) :
          /\ votedPeriod * chainParams < votePeriodCh[i].height
          /\ votePeriodCh[i].height = votePeriodCh[i].period * chainParams
    /\ \A i, j \in 1..Len(votePeriodCh) :
          i < j => votePeriodCh[i].height < votePeriodCh[j].height

\* The period about to be sent comes after all of them.
NextInOrder ==
    /\ Sending =>
          /\ votedPeriod * chainParams < pending.height
          /\ \A i \in 1..Len(votePeriodCh) : votePeriodCh[i].height < pending.height
    /\ streamPc = "divide" => /\ pending.height % chainParams = 0
                              /\ currentParams = chainParams
    /\ streamPc = "send" => pending.height = pending.period * chainParams

InOrder ==
    Steady => /\ currentParams \in {NoParams, chainParams}
              /\ BlocksInOrder
              /\ BlocksAhead
              /\ PeriodsInOrder
              /\ NextInOrder

\* A number and its multiples.
LEMMA Multiple ==
    ASSUME NEW a \in Nat, NEW b \in Nat \ {0}, a % b = 0
    PROVE  (a \div b) * b = a
OBVIOUS

LEMMA SmallerFactor ==
    ASSUME NEW a \in Nat, NEW b \in Nat, NEW p \in Nat \ {0}, a * p < b * p
    PROVE  a < b
<1> SUFFICES ASSUME b <= a PROVE b * p <= a * p
  OBVIOUS
<1>1. a = b + (a - b) /\ a - b \in Nat
  OBVIOUS
<1>2. a * p = b * p + (a - b) * p
  BY <1>1
<1>3. (a - b) * p >= 0
  BY <1>1
<1>4. a * p \in Int /\ b * p \in Int /\ (a - b) * p \in Int
  BY <1>1
<1> QED
  BY <1>2, <1>3, <1>4

\* What the steps below use of the types, while there is one endpoint.
LEMMA SteadyTypes ==
    ASSUME TypeOK, Steady
    PROVE  /\ Endpoints = {0} /\ head \in [Endpoints -> Nat] /\ head[0] \in Nat
           /\ messages \in Seq(Nat) /\ Len(messages) \in Nat
           /\ \A i \in 1..Len(messages) : messages[i] \in Nat
           /\ votePeriodCh \in Seq(VotingPeriod) /\ Len(votePeriodCh) \in Nat
           /\ \A i \in 1..Len(votePeriodCh) :
                 votePeriodCh[i].height \in Nat /\ votePeriodCh[i].period \in Nat
           /\ pending.height \in Nat /\ pending.period \in Nat
           /\ chainParams \in Nat \ {0} /\ votedPeriod \in Nat
           /\ votedPeriod * chainParams \in Nat
<1>1. Endpoints = {0} /\ MaxHeight \in Nat
  BY WebsocketAssumption DEF Steady, Endpoints
<1>2. head \in [Endpoints -> 0..MaxHeight] /\ messages \in Seq(0..MaxHeight)
  BY DEF TypeOK, SocketTypeOK
<1>3. /\ votePeriodCh \in Seq(VotingPeriod) /\ pending \in VotingPeriod
      /\ votedPeriod \in 0..MaxHeight + 1 /\ chainParams \in VotePeriods
  BY DEF TypeOK
<1>4. Len(messages) \in Nat /\ \A i \in 1..Len(messages) : messages[i] \in 0..MaxHeight
  BY <1>2, ElementOfSeq, LenProperties
<1>5. /\ Len(votePeriodCh) \in Nat
      /\ \A i \in 1..Len(votePeriodCh) : votePeriodCh[i] \in VotingPeriod
  BY <1>3, ElementOfSeq, LenProperties
<1>6. \A v \in VotingPeriod : v.height \in Nat /\ v.period \in Nat
  BY <1>1 DEF VotingPeriod
<1>7. chainParams \in Nat \ {0} /\ votedPeriod \in Nat
  BY <1>1, <1>3, StreamAssumption
<1>8. votedPeriod * chainParams \in Nat
  BY <1>7
<1>9. head \in [Endpoints -> Nat] /\ head[0] \in Nat /\ messages \in Seq(Nat)
  BY <1>1, <1>2, <1>4
<1> QED
  BY <1>1, <1>3, <1>4, <1>5, <1>6, <1>7, <1>8, <1>9

\* The endpoint has one more block, and it may arrive.
LEMMA BlockInOrder ==
    ASSUME TypeOK, Steady, InOrder, NEW e \in Endpoints, Block(e),
           UNCHANGED <<failover, periods, paramsVars, received>>
    PROVE  InOrder'
<1>1. /\ head'[0] = head[0] + 1 /\ head[0] \in Nat
      /\ \/ messages' = Append(messages, head'[0])
         \/ messages' = messages
  BY SteadyTypes DEF Block
<1>2. /\ messages \in Seq(Nat) /\ Len(messages) \in Nat
      /\ \A i \in 1..Len(messages) : messages[i] \in Nat
  BY SteadyTypes
<1>3. /\ Len(messages') \in {Len(messages), Len(messages) + 1}
      /\ \A i \in 1..Len(messages) : messages'[i] = messages[i]
      /\ Len(messages') = Len(messages) + 1 => messages'[Len(messages) + 1] = head'[0]
  BY <1>1, <1>2, AppendProperties
<1>4. /\ BlocksInOrder
      /\ StartedBelow(head[0] + 2)
      /\ \A i \in 1..Len(messages) : messages[i] # Garbage => StartedBelow(messages[i] + 1)
      /\ PeriodsInOrder /\ NextInOrder /\ currentParams \in {NoParams, chainParams}
  BY DEF InOrder, BlocksAhead
<1>5. \A i \in 1..Len(messages') :
         \/ i \in 1..Len(messages) /\ messages'[i] = messages[i]
         \/ i = Len(messages) + 1 /\ messages'[i] = head[0] + 1
  BY <1>1, <1>2, <1>3
<1>7. BlocksInOrder'
  <2>1. \A i \in 1..Len(messages) : messages[i] <= head[0]
    BY <1>4 DEF BlocksInOrder
  <2>2. \A i \in 1..Len(messages') : messages'[i] <= head[0] + 1
    BY <1>1, <1>2, <1>5, <2>1
  <2>3. ASSUME NEW i \in 1..Len(messages'), NEW j \in 1..Len(messages'), i < j,
               messages'[j] # Garbage
        PROVE  messages'[i] < messages'[j]
    <3>1. i \in 1..Len(messages) /\ messages'[i] = messages[i]
      BY <1>2, <1>3, <1>5, <2>3
    <3>2. CASE j \in 1..Len(messages) /\ messages'[j] = messages[j]
      BY <1>4, <2>3, <3>1, <3>2 DEF BlocksInOrder
    <3>3. CASE j = Len(messages) + 1 /\ messages'[j] = head[0] + 1
      BY <1>1, <1>2, <2>1, <3>1, <3>3
    <3> QED
      BY <1>5, <3>2, <3>3
  <2> QED
    BY <1>1, <2>2, <2>3 DEF BlocksInOrder
<1>6. UNCHANGED <<votedPeriod, chainParams, votePeriodCh, streamPc, pending, currentParams>>
  BY DEF failover, periods, paramsVars, received
<1>8. StartedBelow(head[0] + 3)
  <2>1. /\ head[0] \in Nat /\ votedPeriod * chainParams \in Nat /\ pending.height \in Nat
        /\ \A i \in 1..Len(votePeriodCh) : votePeriodCh[i].height \in Nat
    BY SteadyTypes
  <2>2. \A n \in Nat : n < head[0] + 2 => n < head[0] + 3
    BY <2>1
  <2> QED
    BY <1>4, <2>1, <2>2 DEF StartedBelow
<1>9. BlocksAhead'
  <2>1. StartedBelow(head[0] + 3) /\ head'[0] + 2 = head[0] + 3 /\ (head[0] + 1) + 1 = head[0] + 2
    BY <1>1, <1>8
  <2>2. ASSUME NEW i \in 1..Len(messages'), messages'[i] # Garbage
        PROVE  StartedBelow(messages'[i] + 1)
    BY <1>4, <1>5, <2>1, <2>2
  <2>3. ASSUME NEW h, StartedBelow(h)
        PROVE  /\ votedPeriod' * chainParams' < h
               /\ \A i \in 1..Len(votePeriodCh') : votePeriodCh'[i].height < h
               /\ Sending' => pending'.height < h
    BY <1>6, <2>3 DEF StartedBelow, Sending
  <2>4. StartedBelow(head[0] + 2)'
    BY <2>1, <2>3 DEF StartedBelow
  <2>5. ASSUME NEW i \in 1..Len(messages'), messages'[i] # Garbage
        PROVE  StartedBelow(messages[i] + 1)'
    BY <2>2, <2>3, <2>5 DEF StartedBelow
  <2> QED
    BY <2>4, <2>5 DEF BlocksAhead
<1>10. PeriodsInOrder' /\ NextInOrder' /\ currentParams' \in {NoParams, chainParams'}
  BY <1>4, <1>6 DEF PeriodsInOrder, NextInOrder, Sending
<1> QED
  BY <1>7, <1>9, <1>10 DEF InOrder

\* The queue of messages loses its first.
LEMMA MessageTaken ==
    ASSUME TypeOK, Steady, BlocksInOrder, messages # <<>>, messages' = Tail(messages),
           head' = head
    PROVE  /\ BlocksInOrder'
           /\ Len(messages) \in Nat \ {0} /\ Head(messages) = messages[1]
           /\ \A i \in 1..Len(messages') :
                 /\ i + 1 \in 1..Len(messages) /\ messages'[i] = messages[i + 1]
                 /\ messages[i + 1] # Garbage => Head(messages) < messages[i + 1]
<1>1. /\ Len(messages) \in Nat \ {0} /\ Head(messages) = messages[1]
      /\ Len(messages') = Len(messages) - 1
      /\ \A i \in 1..Len(messages') : messages'[i] = messages[i + 1]
  BY SteadyTypes, Receive
<1>2. \A i \in 1..Len(messages') : i + 1 \in 1..Len(messages)
  BY <1>1
<1>3. BlocksInOrder'
  BY <1>1, <1>2 DEF BlocksInOrder
<1>4. ASSUME NEW i \in 1..Len(messages'), messages[i + 1] # Garbage
      PROVE  Head(messages) < messages[i + 1]
  <2>1. 1 \in 1..Len(messages) /\ i + 1 \in 1..Len(messages) /\ 1 < i + 1
    BY <1>1, <1>2
  <2> QED
    BY <1>1, <1>4, <2>1 DEF BlocksInOrder
<1> QED
  BY <1>1, <1>2, <1>3, <1>4

\* A message that is no block, and steps that leave the blocks and the periods as
\* they are.
LEMMA ParseFailureInOrder ==
    ASSUME TypeOK, Steady, InOrder, ParseFailure
    PROVE  InOrder'
<1>1. /\ messages # <<>> /\ messages' = Tail(messages) /\ head' = head
      /\ streamPc = "select" /\ streamPc' \in {"select", "closing"}
      /\ UNCHANGED <<votedPeriod, chainParams, votePeriodCh, pending, currentParams>>
  BY DEF ParseFailure, SwitchToNextEndpoint, network, paramsVars, received
<1>2. /\ BlocksInOrder'
      /\ \A i \in 1..Len(messages') :
            i + 1 \in 1..Len(messages) /\ messages'[i] = messages[i + 1]
  BY <1>1, MessageTaken DEF InOrder
<1>3. BlocksAhead'
  BY <1>1, <1>2 DEF InOrder, BlocksAhead, StartedBelow, Sending
<1> QED
  BY <1>1, <1>2, <1>3 DEF InOrder, PeriodsInOrder, NextInOrder, Sending

LEMMA BlockHandledInOrder ==
    ASSUME TypeOK, Steady, InOrder, HandleBlock
    PROVE  InOrder'
<1> DEFINE next == Head(messages) + 1
<1>1. /\ messages # <<>> /\ Head(messages) # Garbage /\ messages' = Tail(messages)
      /\ head' = head /\ streamPc = "select"
      /\ UNCHANGED <<votedPeriod, chainParams, votePeriodCh, currentParams>>
      /\ \/ UNCHANGED <<pending, streamPc>>
         \/ /\ currentParams # NoParams /\ next % currentParams = 0
            /\ pending' = [height |-> next, period |-> 0] /\ streamPc' = "divide"
  BY DEF HandleBlock, StartsPeriod, network, paramsVars, received
<1>2. /\ BlocksInOrder' /\ Len(messages) \in Nat \ {0} /\ Head(messages) = messages[1]
      /\ \A i \in 1..Len(messages') :
            /\ i + 1 \in 1..Len(messages) /\ messages'[i] = messages[i + 1]
            /\ messages[i + 1] # Garbage => Head(messages) < messages[i + 1]
  BY <1>1, MessageTaken DEF InOrder
<1>3. CASE UNCHANGED <<pending, streamPc>>
  <2>1. BlocksAhead'
    BY <1>1, <1>2, <1>3 DEF InOrder, BlocksAhead, StartedBelow, Sending
  <2> QED
    BY <1>1, <1>2, <1>3, <2>1 DEF InOrder, PeriodsInOrder, NextInOrder, Sending
<1>4. CASE /\ currentParams # NoParams /\ next % currentParams = 0
           /\ pending' = [height |-> next, period |-> 0] /\ streamPc' = "divide"
  <2>1. currentParams = chainParams
    BY <1>4 DEF InOrder
  <2>2. /\ votedPeriod * chainParams < next
        /\ \A i \in 1..Len(votePeriodCh) : votePeriodCh[i].height < next
    BY <1>1, <1>2 DEF InOrder, BlocksAhead, StartedBelow
  <2>3. NextInOrder'
    BY <1>1, <1>4, <2>1, <2>2 DEF NextInOrder, Sending
  <2>4. /\ head[0] \in Nat /\ Head(messages) <= head[0] /\ Head(messages) \in Nat
        /\ \A i \in 1..Len(messages) : messages[i] \in Nat
    BY <1>2, SteadyTypes DEF InOrder, BlocksInOrder
  <2>5. next < head[0] + 2
    BY <2>4
  <2>6. \A i \in 1..Len(messages') : messages'[i] # Garbage => next < messages'[i] + 1
    BY <1>2, <2>4
  <2>7. BlocksAhead'
    BY <1>1, <1>2, <1>4, <2>5, <2>6 DEF InOrder, BlocksAhead, StartedBelow, Sending
  <2> QED
    BY <1>1, <1>2, <2>1, <2>3, <2>7 DEF InOrder, PeriodsInOrder
<1> QED
  BY <1>1, <1>3, <1>4

LEMMA DivideInOrder ==
    ASSUME TypeOK, Steady, InOrder, Divide
    PROVE  InOrder'
<1>1. /\ streamPc = "divide" /\ streamPc' = "send"
      /\ pending' = [pending EXCEPT !.period = pending.height \div currentParams]
      /\ UNCHANGED <<messages, head, votedPeriod, chainParams, votePeriodCh, currentParams>>
  BY DEF Divide, socketVars, network, paramsVars, received
<1>2. pending.height % chainParams = 0 /\ currentParams = chainParams
  BY <1>1 DEF InOrder, NextInOrder
<1>3. /\ pending'.height = pending.height
      /\ pending'.period = pending.height \div chainParams
  BY <1>1, <1>2 DEF TypeOK, VotingPeriod
<1>4. pending'.period * chainParams = pending'.height
  BY <1>2, <1>3, Multiple, SteadyTypes
<1>5. NextInOrder'
  BY <1>1, <1>3, <1>4 DEF InOrder, NextInOrder, Sending
<1>6. BlocksAhead'
  BY <1>1, <1>3 DEF InOrder, BlocksAhead, StartedBelow, Sending
<1> QED
  BY <1>1, <1>5, <1>6 DEF InOrder, BlocksInOrder, PeriodsInOrder

LEMMA SendInOrder ==
    ASSUME TypeOK, Steady, InOrder, SendPeriod
    PROVE  InOrder'
<1>1. /\ streamPc = "send" /\ streamPc' = "select"
      /\ votePeriodCh' = Append(votePeriodCh, pending)
      /\ UNCHANGED <<messages, head, votedPeriod, chainParams, currentParams>>
  BY DEF SendPeriod, socketVars, network, paramsVars, received
<1>2. /\ Len(votePeriodCh) \in Nat /\ Len(votePeriodCh') = Len(votePeriodCh) + 1
      /\ \A i \in 1..Len(votePeriodCh) : votePeriodCh'[i] = votePeriodCh[i]
      /\ votePeriodCh'[Len(votePeriodCh) + 1] = pending
  BY <1>1, SteadyTypes, AppendProperties DEF TypeOK
<1>3. \A i \in 1..Len(votePeriodCh') :
         \/ i \in 1..Len(votePeriodCh) /\ votePeriodCh'[i] = votePeriodCh[i]
         \/ i = Len(votePeriodCh) + 1 /\ votePeriodCh'[i] = pending
  BY <1>2
<1>4. /\ votedPeriod * chainParams < pending.height
      /\ \A i \in 1..Len(votePeriodCh) : votePeriodCh[i].height < pending.height
      /\ pending.height = pending.period * chainParams
  BY <1>1 DEF InOrder, NextInOrder, Sending
<1>5. PeriodsInOrder'
  <2>1. ASSUME NEW i \in 1..Len(votePeriodCh'), NEW j \in 1..Len(votePeriodCh'), i < j
        PROVE  votePeriodCh'[i].height < votePeriodCh'[j].height
    <3>1. i \in 1..Len(votePeriodCh) /\ votePeriodCh'[i] = votePeriodCh[i]
      BY <1>2, <1>3, <2>1
    <3> QED
      BY <1>3, <1>4, <2>1, <3>1 DEF InOrder, PeriodsInOrder
  <2>2. \A i \in 1..Len(votePeriodCh') :
           /\ votedPeriod * chainParams < votePeriodCh'[i].height
           /\ votePeriodCh'[i].height = votePeriodCh'[i].period * chainParams
    BY <1>3, <1>4 DEF InOrder, PeriodsInOrder
  <2> QED
    BY <1>1, <2>1, <2>2 DEF PeriodsInOrder
<1>6. BlocksAhead'
  BY <1>1, <1>3 DEF InOrder, BlocksAhead, StartedBelow, Sending
<1> QED
  BY <1>1, <1>5, <1>6 DEF InOrder, BlocksInOrder, NextInOrder, Sending

LEMMA ReceiveInOrder ==
    ASSUME TypeOK, Steady, InOrder, ReceivePeriod
    PROVE  InOrder' /\ Head(votePeriodCh).period > votedPeriod
<1>1. /\ votePeriodCh # <<>> /\ votePeriodCh' = Tail(votePeriodCh)
      /\ votedPeriod' = Head(votePeriodCh).period
      /\ UNCHANGED <<messages, head, streamPc, pending, chainParams, currentParams>>
  BY DEF ReceivePeriod, socketVars, network, paramsVars
<1>2. /\ Len(votePeriodCh) \in Nat \ {0} /\ Head(votePeriodCh) = votePeriodCh[1]
      /\ Len(votePeriodCh') = Len(votePeriodCh) - 1
      /\ \A i \in 1..Len(votePeriodCh') : votePeriodCh'[i] = votePeriodCh[i + 1]
  BY <1>1, SteadyTypes, Receive
<1>3. \A i \in 1..Len(votePeriodCh') : i + 1 \in 1..Len(votePeriodCh) /\ 1 < i + 1
  BY <1>2
<1>4. /\ 1 \in 1..Len(votePeriodCh)
      /\ votedPeriod' * chainParams = votePeriodCh[1].height
      /\ votedPeriod * chainParams < votePeriodCh[1].height
  BY <1>1, <1>2 DEF InOrder, PeriodsInOrder
<1>5. PeriodsInOrder'
  BY <1>1, <1>2, <1>3, <1>4 DEF InOrder, PeriodsInOrder
<1>6. NextInOrder'
  BY <1>1, <1>2, <1>3, <1>4 DEF InOrder, NextInOrder, Sending
<1>7. BlocksAhead'
  BY <1>1, <1>2, <1>3, <1>4 DEF InOrder, BlocksAhead, StartedBelow, Sending
<1>8. Head(votePeriodCh).period > votedPeriod
  <2>1. votePeriodCh[1].period \in Nat /\ votedPeriod \in Nat /\ chainParams \in Nat \ {0}
    BY <1>4, SteadyTypes
  <2>2. votedPeriod * chainParams < votePeriodCh[1].period * chainParams
    BY <1>1, <1>2, <1>4
  <2> QED
    BY <1>2, <2>1, <2>2, SmallerFactor
<1> QED
  BY <1>1, <1>5, <1>6, <1>7, <1>8 DEF InOrder, BlocksInOrder

LEMMA InOrderStep ==
    ASSUME TypeOK, InOrder, [Next]_vars
    PROVE  InOrder'
<1> SUFFICES ASSUME Steady' PROVE InOrder'
  BY DEF InOrder
<1>1. Steady /\ ~ParamsChange
  <2>1. changes \in 0..MaxChanges
    BY DEF TypeOK
  <2>2. CASE ParamsChange
    BY <2>1, <2>2, StreamAssumption DEF ParamsChange, Steady
  <2>3. CASE ~ParamsChange
    <3>1. changes' = changes
      BY <2>3 DEF Next, Watchdog, VotingPeriodLoop, FinishSwitch, ParseFailure, HandleBlock,
                  Divide, SendPeriod, ParamsLoop, UpdateParams, SendParams, Voter,
                  ReceivePeriod, ReceiveParams, vars, paramsVars
    <3> QED
      BY <2>3, <3>1 DEF Steady
  <2> QED
    BY <2>2, <2>3
<1>2. CASE SocketNext /\ UNCHANGED <<failover, periods, paramsVars, received>>
  <2>1. ASSUME NEW e \in Endpoints, Block(e) PROVE InOrder'
    BY <1>1, <1>2, <2>1, BlockInOrder
  <2>2. CASE GarbageArrives
    <3>1. /\ messages' = Append(messages, Garbage) /\ head' = head
          /\ UNCHANGED <<votedPeriod, chainParams, votePeriodCh, streamPc, pending,
                         currentParams>>
      BY <1>2, <2>2 DEF GarbageArrives, network, failover, periods, paramsVars, received
    <3>2. /\ messages \in Seq(Nat) /\ Len(messages) \in Nat /\ Garbage \in Nat
          /\ head[0] \in Nat /\ Garbage <= head[0]
      BY <1>1, SteadyTypes DEF Garbage
    <3>3. \A i \in 1..Len(messages') :
             \/ i \in 1..Len(messages) /\ messages'[i] = messages[i]
             \/ i = Len(messages) + 1 /\ messages'[i] = Garbage
      BY <3>1, <3>2, AppendProperties
    <3>4. BlocksInOrder'
      BY <1>1, <3>1, <3>2, <3>3 DEF InOrder, BlocksInOrder
    <3>5. BlocksAhead'
      BY <1>1, <3>1, <3>3 DEF InOrder, BlocksAhead, StartedBelow, Sending
    <3> QED
      BY <1>1, <3>1, <3>4, <3>5 DEF InOrder, PeriodsInOrder, NextInOrder, Sending
  <2>3. CASE SocketLoop \/ Disconnect
    <3>1. UNCHANGED <<messages, head, votedPeriod, chainParams, votePeriodCh, streamPc,
                      pending, currentParams>>
      BY <1>2, <2>3 DEF SocketLoop, Dial, Connected, DialFailed, Reconnect, ReadError,
                        Disconnect, network, failover, periods, paramsVars, received
    <3> QED
      BY <1>1, <3>1 DEF InOrder, BlocksInOrder, BlocksAhead, StartedBelow, PeriodsInOrder,
                        NextInOrder, Sending
  <2> QED
    BY <1>2, <2>1, <2>2, <2>3 DEF SocketNext
<1>3. CASE Watchdog \/ FinishSwitch \/ SendParams \/ ReceiveParams \/ UNCHANGED vars
  <2>1. UNCHANGED <<messages, head, votedPeriod, chainParams, votePeriodCh, pending,
                    currentParams>>
    BY <1>3 DEF Watchdog, FinishSwitch, SendParams, ReceiveParams, vars, socketVars, network,
                failover, periods, paramsVars, received
  <2>2. streamPc' = streamPc \/ streamPc' \in {"select", "closing"}
    BY <1>3 DEF Watchdog, HandleConnectionFailure, SwitchToNextEndpoint, FinishSwitch,
                SendParams, ReceiveParams, vars, periods
  <2> QED
    BY <1>1, <2>1, <2>2 DEF InOrder, BlocksInOrder, BlocksAhead, StartedBelow,
                            PeriodsInOrder, NextInOrder, Sending
<1>4. CASE UpdateParams
  <2>1. /\ currentParams' = chainParams
        /\ UNCHANGED <<messages, head, votedPeriod, chainParams, votePeriodCh, streamPc,
                       pending>>
    BY <1>4 DEF UpdateParams, socketVars, network, periods, received
  <2> QED
    BY <1>1, <2>1 DEF InOrder, BlocksInOrder, BlocksAhead, StartedBelow, PeriodsInOrder,
                      NextInOrder, Sending
<1> QED
  BY <1>1, <1>2, <1>3, <1>4, ParseFailureInOrder, BlockHandledInOrder, DivideInOrder,
     SendInOrder, ReceiveInOrder DEF Next, VotingPeriodLoop, ParamsLoop, Voter

LEMMA InOrderInit == Init => InOrder
<1> SUFFICES ASSUME Init, NumEndpoints = 1 PROVE InOrder
  BY DEF InOrder, Steady
<1>1. /\ messages = <<>> /\ votePeriodCh = <<>> /\ streamPc = "select"
      /\ currentParams = NoParams /\ votedPeriod = 0 /\ chainParams \in Nat
  BY StreamAssumption DEF Init, SocketInit
<1>2. head[0] = 0 /\ 0 * chainParams = 0
  BY <1>1 DEF Init, SocketInit, Endpoints
<1> QED
  BY <1>1, <1>2 DEF InOrder, BlocksInOrder, BlocksAhead, StartedBelow, PeriodsInOrder,
                    NextInOrder, Sending

\* On one endpoint, until the parameters change, the voter receives no period
\* twice and none out of order, for any vote period, any number of blocks and failures of the
\* connection, and any capacity of the channels.
THEOREM PeriodsInOrderReceived == Spec => PeriodsIncrease
<1>1. TypeOK /\ InOrder /\ [Next]_vars => InOrder'
  BY InOrderStep
<1>2. TypeOK /\ InOrder =>
         [ReceivePeriod /\ NumEndpoints = 1 /\ changes = MaxChanges
             => Head(votePeriodCh).period > votedPeriod]_vars
  BY ReceiveInOrder DEF Steady
<1> QED
  BY <1>1, <1>2, InOrderInit, TypeInit, TypeStep, PTL DEF Spec, PeriodsIncrease

-----------------------------------------------------------------------------
(* EventStream implements EventFeed *)

\* EventFeed's variables.
FeedSteady == NumEndpoints = 1 /\ changes = MaxChanges
FeedUpdates == IF paramsPc = "send" THEN Append(paramsCh, currentParams) ELSE paramsCh
FeedDue == IF streamPc = "send" THEN Append(votePeriodCh, pending) ELSE votePeriodCh

LEMMA FeedVars ==
    Feed!vars = <<FeedSteady, chainParams, FeedUpdates, voterParams, FeedDue, votedPeriod>>
BY DEF Feed!vars, FeedSteady, FeedUpdates, FeedDue

\* Nothing that the voter or the chain has to do with happens.
LEMMA FeedRests ==
    ASSUME FeedSteady' = FeedSteady, FeedUpdates' = FeedUpdates, FeedDue' = FeedDue,
           UNCHANGED <<chainParams, voterParams, votedPeriod>>
    PROVE  [Feed!Next]_(Feed!vars)
<1>1. UNCHANGED Feed!vars
  BY DEF Feed!vars, FeedSteady, FeedUpdates, FeedDue
<1> QED
  BY <1>1

\* A queue that is sent to and received from at both ends.
LEMMA ReceiveBehind ==
    ASSUME NEW S, NEW ch \in Seq(S), ch # <<>>, NEW m \in S
    PROVE  /\ Head(Append(ch, m)) = Head(ch)
           /\ Tail(Append(ch, m)) = Append(Tail(ch), m)
           /\ Append(ch, m) # <<>>
  OBVIOUS

\* What the voter will know is what paramsLoop holds.
LEMMA LatestIsCurrent ==
    ASSUME TypeOK, ParamsKnown, ParamsDelivered
    PROVE  Feed!Latest = currentParams
<1>1. CASE paramsPc = "poll"
  BY <1>1 DEF ParamsDelivered, Feed!Latest
<1>2. CASE paramsPc = "send"
  <2>1. paramsCh \in Seq(VotePeriods) /\ currentParams \in VotePeriods
    BY <1>2 DEF TypeOK, ParamsKnown
  <2>2. /\ Append(paramsCh, currentParams) # <<>>
        /\ Len(Append(paramsCh, currentParams)) = Len(paramsCh) + 1
        /\ Append(paramsCh, currentParams)[Len(paramsCh) + 1] = currentParams
    BY <2>1, Send
  <2> QED
    BY <1>2, <2>2 DEF Feed!Latest
<1> QED
  BY <1>1, <1>2 DEF TypeOK

\* The steps between a block and the computation of its period, and those
\* between that and the channel, are none of the feed's.
LEMMA SilentSteps ==
    ASSUME \/ SocketNext /\ UNCHANGED <<failover, periods, paramsVars, received>>
           \/ Watchdog \/ FinishSwitch \/ ParseFailure \/ HandleBlock
           \/ SendPeriod \/ SendParams \/ UNCHANGED vars
    PROVE  [Feed!Next]_(Feed!vars)
<1>1. CASE SocketNext /\ UNCHANGED <<failover, periods, paramsVars, received>>
  BY <1>1, FeedRests DEF periods, paramsVars, received, FeedSteady, FeedUpdates, FeedDue
<1>2. CASE Watchdog \/ FinishSwitch \/ ParseFailure \/ HandleBlock
  <2>1. UNCHANGED <<votePeriodCh, paramsVars, received>>
    BY <1>2 DEF Watchdog, FinishSwitch, ParseFailure, HandleBlock
  <2>2. streamPc # "send" /\ streamPc' # "send"
    BY <1>2 DEF Watchdog, HandleConnectionFailure, SwitchToNextEndpoint, FinishSwitch,
                ParseFailure, HandleBlock
  <2> QED
    BY <2>1, <2>2, FeedRests DEF paramsVars, received, FeedSteady, FeedUpdates, FeedDue
<1>3. CASE SendPeriod
  BY <1>3, FeedRests
     DEF SendPeriod, paramsVars, received, FeedSteady, FeedUpdates, FeedDue
<1>4. CASE SendParams
  BY <1>4, FeedRests
     DEF SendParams, periods, received, FeedSteady, FeedUpdates, FeedDue
<1>5. CASE UNCHANGED vars
  BY <1>5, FeedRests
     DEF vars, periods, paramsVars, received, FeedSteady, FeedUpdates, FeedDue
<1> QED
  BY <1>1, <1>2, <1>3, <1>4, <1>5

\* A period is announced when its number is computed: behind all that were
\* announced, while the feed is steady.
LEMMA DivideAnnounces ==
    ASSUME TypeOK, ParamsKnown, ParamsDelivered, InOrder, Divide, TypeOK', InOrder'
    PROVE  [Feed!Next]_(Feed!vars)
<1>1. /\ streamPc = "divide" /\ streamPc' = "send"
      /\ UNCHANGED <<votePeriodCh, paramsVars, received>>
  BY DEF Divide
<1>2. FeedDue = votePeriodCh /\ FeedDue' = Append(votePeriodCh, pending')
  BY <1>1 DEF FeedDue
<1>3. /\ FeedSteady' = FeedSteady /\ FeedUpdates' = FeedUpdates
      /\ UNCHANGED <<chainParams, voterParams, votedPeriod>>
  BY <1>1 DEF FeedSteady, FeedUpdates, paramsVars, received
<1>4. Feed!Latest # NoParams
  BY <1>1, LatestIsCurrent DEF ParamsKnown
<1>5. pending' \in VotingPeriod
  BY DEF TypeOK
<1>6. ASSUME FeedSteady
      PROVE  /\ pending'.period > votedPeriod
             /\ \A i \in 1..Len(votePeriodCh) : pending'.period > votePeriodCh[i].period
  <2>1. Steady'
    BY <1>3, <1>6 DEF FeedSteady, Steady
  <2>2. Steady
    BY <1>6 DEF FeedSteady, Steady
  <2>3. /\ votedPeriod * chainParams < pending'.height
        /\ \A i \in 1..Len(votePeriodCh) : votePeriodCh[i].height < pending'.height
        /\ pending'.height = pending'.period * chainParams
    BY <1>1, <1>3, <2>1 DEF InOrder, NextInOrder, Sending
  <2>4. \A i \in 1..Len(votePeriodCh) :
           votePeriodCh[i].height = votePeriodCh[i].period * chainParams
    BY <2>2 DEF InOrder, PeriodsInOrder
  <2>5. /\ chainParams \in Nat \ {0} /\ votedPeriod \in Nat
        /\ \A i \in 1..Len(votePeriodCh) : votePeriodCh[i].period \in Nat
    BY <2>2, SteadyTypes
  <2>6. pending'.period \in Nat
    BY <1>5, WebsocketAssumption DEF VotingPeriod
  <2> QED
    BY <2>3, <2>4, <2>5, <2>6, SmallerFactor
<1>7. Feed!Announce(pending')
  BY <1>2, <1>3, <1>4, <1>6 DEF Feed!Announce, FeedSteady, FeedUpdates, FeedDue
<1> QED
  BY <1>5, <1>7 DEF Feed!Next

\* The parameters: a change on the chain, news of it, and the voter's receipt.
LEMMA ParamsSteps ==
    ASSUME TypeOK, ParamsKnown, ParamsDelivered, ParamsChange \/ UpdateParams \/ ReceiveParams
    PROVE  [Feed!Next]_(Feed!vars)
<1>1. CASE ParamsChange
  <2>1. /\ changes' = changes - 1 /\ chainParams' \in VotePeriods \ {chainParams}
        /\ UNCHANGED <<periods, currentParams, paramsPc, paramsCh, received>>
    BY <1>1 DEF ParamsChange
  <2>2. ~FeedSteady'
    BY <2>1, StreamAssumption DEF TypeOK, FeedSteady
  <2>3. Feed!Change
    BY <2>1, <2>2 DEF Feed!Change, FeedSteady, periods, received
  <2> QED
    BY <2>3 DEF Feed!Next
<1>2. CASE UpdateParams
  <2>1. /\ paramsPc = "poll" /\ paramsPc' = "send" /\ currentParams # chainParams
        /\ currentParams' = chainParams
        /\ UNCHANGED <<periods, chainParams, changes, paramsCh, received>>
    BY <1>2 DEF UpdateParams
  <2>2. Feed!Latest # chainParams
    BY <2>1, LatestIsCurrent
  <2>3. Feed!Update
    BY <2>1, <2>2 DEF Feed!Update, periods, received
  <2> QED
    BY <2>3 DEF Feed!Next
<1>3. CASE ReceiveParams
  <2>1. /\ paramsCh # <<>> /\ voterParams' = Head(paramsCh) /\ paramsCh' = Tail(paramsCh)
        /\ UNCHANGED <<periods, chainParams, changes, currentParams, paramsPc, votedPeriod>>
    BY <1>3 DEF ReceiveParams
  <2>2. FeedUpdates # <<>> /\ voterParams' = Head(FeedUpdates) /\ FeedUpdates' = Tail(FeedUpdates)
    <3>1. CASE paramsPc = "send"
      <4>1. paramsCh \in Seq(VotePeriods) /\ currentParams \in VotePeriods
        BY <3>1 DEF TypeOK, ParamsKnown
      <4> QED
        BY <2>1, <3>1, <4>1, ReceiveBehind DEF FeedUpdates
    <3>2. CASE paramsPc # "send"
      BY <2>1, <3>2 DEF FeedUpdates
    <3> QED
      BY <3>1, <3>2
  <2>3. Feed!Learn
    BY <2>1, <2>2 DEF Feed!Learn, FeedUpdates, periods
  <2> QED
    BY <2>3 DEF Feed!Next
<1> QED
  BY <1>1, <1>2, <1>3

\* The voter takes a period.
LEMMA PeriodTaken ==
    ASSUME TypeOK, ReceivePeriod
    PROVE  [Feed!Next]_(Feed!vars)
<1>1. /\ votePeriodCh # <<>> /\ votedPeriod' = Head(votePeriodCh).period
      /\ votePeriodCh' = Tail(votePeriodCh)
      /\ UNCHANGED <<streamPc, pending, paramsVars, voterParams>>
  BY DEF ReceivePeriod
<1>2. votePeriodCh \in Seq(VotingPeriod) /\ pending \in VotingPeriod
  BY DEF TypeOK
<1>3. /\ FeedDue # <<>> /\ votedPeriod' = Head(FeedDue).period
      /\ FeedDue' = Tail(FeedDue)
  <2>1. CASE streamPc = "send"
    BY <1>1, <1>2, <2>1, ReceiveBehind DEF FeedDue
  <2>2. CASE streamPc # "send"
    BY <1>1, <2>2 DEF FeedDue
  <2> QED
    BY <2>1, <2>2
<1>4. Feed!Take
  BY <1>1, <1>3 DEF Feed!Take, FeedDue, paramsVars
<1> QED
  BY <1>4 DEF Feed!Next

LEMMA FeedStep ==
    ASSUME TypeOK, ParamsKnown, ParamsDelivered, InOrder, [Next]_vars, TypeOK', InOrder'
    PROVE  [Feed!Next]_(Feed!vars)
BY SilentSteps, DivideAnnounces, ParamsSteps, PeriodTaken
   DEF Next, VotingPeriodLoop, ParamsLoop, Voter

LEMMA FeedInit == Init => Feed!Init
BY DEF Init, Feed!Init

\* The stream implements EventFeed, for any endpoints that behave in any way, any
\* failures, changes and blocks, and any capacity of the channels: nothing on the way
\* loses or doubles an update or a notice, and on one endpoint the network can only
\* delay periods or leave them out.
THEOREM ImplementsFeed == Spec => ImplementsEventFeed
<1>1. Init => ParamsDelivered
  BY DEF Init, ParamsDelivered
<1>2. TypeOK /\ ParamsKnown /\ ParamsDelivered /\ [Next]_vars => ParamsDelivered'
  BY DeliveredStep
<1>3. TypeOK /\ InOrder /\ [Next]_vars => InOrder'
  BY InOrderStep
<1>4. TypeOK /\ ParamsKnown /\ ParamsDelivered /\ InOrder /\ [Next]_vars /\ TypeOK' /\ InOrder'
         => [Feed!Next]_(Feed!vars)
  BY FeedStep
<1> QED
  BY <1>1, <1>2, <1>3, <1>4, FeedInit, InOrderInit, TypeInit, TypeStep, PTL
     DEF Spec, ImplementsEventFeed, Feed!Spec
\* Every update is news to the voter when it takes it: an answer like the last one is
\* not passed on (stream.go:230), however long the updates wait in the channel.
NewsOnly == [][ReceiveParams => Head(paramsCh) # voterParams]_vars

\* No update on its way is the same as the one before it.
AllNews ==
    /\ FeedUpdates # <<>> => FeedUpdates[1] # voterParams
    /\ \A i \in 1..Len(FeedUpdates) - 1 : FeedUpdates[i] # FeedUpdates[i + 1]

LEMMA UpdatesTyped ==
    ASSUME TypeOK, ParamsKnown
    PROVE  FeedUpdates \in Seq(VotePeriods) /\ chainParams \in VotePeriods
<1>1. paramsCh \in Seq(VotePeriods) /\ chainParams \in VotePeriods
  BY DEF TypeOK
<1>2. paramsPc = "send" => currentParams \in VotePeriods
  BY DEF TypeOK, ParamsKnown
<1> QED
  BY <1>1, <1>2 DEF FeedUpdates

\* That is a matter of EventFeed's steps alone.
LEMMA NewsStep ==
    ASSUME TypeOK, ParamsKnown, AllNews, [Feed!Next]_(Feed!vars)
    PROVE  AllNews'
<1>1. CASE UNCHANGED <<FeedUpdates, voterParams>>
  BY <1>1 DEF AllNews
<1>2. CASE Feed!Change \/ Feed!Take \/ (\E n \in VotingPeriod : Feed!Announce(n)) \/ UNCHANGED Feed!vars
  <2>1. UNCHANGED <<FeedUpdates, voterParams>>
    BY <1>2, FeedVars DEF Feed!Change, Feed!Take, Feed!Announce, Feed!vars, FeedUpdates
  <2> QED
    BY <1>1, <2>1
<1>3. CASE Feed!Update
  <2>1. /\ FeedUpdates' = Append(FeedUpdates, chainParams) /\ voterParams' = voterParams
        /\ chainParams # IF FeedUpdates = <<>> THEN voterParams
                         ELSE FeedUpdates[Len(FeedUpdates)]
    BY <1>3 DEF Feed!Update, Feed!Latest, FeedUpdates
  <2>2. FeedUpdates \in Seq(VotePeriods) /\ chainParams \in VotePeriods
    BY UpdatesTyped
  <2> HIDE DEF FeedUpdates
  <2>3. /\ Len(FeedUpdates) \in Nat /\ Len(FeedUpdates') = Len(FeedUpdates) + 1
        /\ \A i \in 1..Len(FeedUpdates) : FeedUpdates'[i] = FeedUpdates[i]
        /\ FeedUpdates'[Len(FeedUpdates) + 1] = chainParams
        /\ FeedUpdates = <<>> <=> Len(FeedUpdates) = 0
    BY <2>1, <2>2
  <2>4. FeedUpdates'[1] # voterParams'
    <3>1. CASE Len(FeedUpdates) = 0
      BY <2>1, <2>3, <3>1
    <3>2. CASE Len(FeedUpdates) # 0
      BY <2>1, <2>3, <3>2 DEF AllNews
    <3> QED
      BY <3>1, <3>2
  <2>5. ASSUME NEW i \in 1..Len(FeedUpdates') - 1
        PROVE  FeedUpdates'[i] # FeedUpdates'[i + 1]
    <3>1. CASE i = Len(FeedUpdates)
      BY <2>1, <2>3, <3>1
    <3>2. CASE i # Len(FeedUpdates)
      <4>1. i \in 1..Len(FeedUpdates) - 1 /\ i + 1 \in 1..Len(FeedUpdates) /\ i \in 1..Len(FeedUpdates)
        BY <2>3, <3>2
      <4> QED
        BY <2>3, <4>1 DEF AllNews
    <3> QED
      BY <3>1, <3>2
  <2> QED
    BY <2>4, <2>5 DEF AllNews
<1>4. CASE Feed!Learn
  <2>1. /\ FeedUpdates # <<>> /\ voterParams' = Head(FeedUpdates)
        /\ FeedUpdates' = Tail(FeedUpdates)
    BY <1>4 DEF Feed!Learn, FeedUpdates
  <2>2. FeedUpdates \in Seq(VotePeriods)
    BY UpdatesTyped
  <2> HIDE DEF FeedUpdates
  <2>3. /\ Len(FeedUpdates) \in Nat \ {0} /\ Head(FeedUpdates) = FeedUpdates[1]
        /\ Len(FeedUpdates') = Len(FeedUpdates) - 1
        /\ \A i \in 1..Len(FeedUpdates') : FeedUpdates'[i] = FeedUpdates[i + 1]
        /\ FeedUpdates' # <<>> => Len(FeedUpdates') # 0
    BY <2>1, <2>2
  <2>4. FeedUpdates' # <<>> => FeedUpdates'[1] # voterParams'
    <3> SUFFICES ASSUME Len(FeedUpdates') # 0 PROVE FeedUpdates'[1] # voterParams'
      BY <2>3
    <3>1. 1 \in 1..Len(FeedUpdates) - 1 /\ 1 \in 1..Len(FeedUpdates')
      BY <2>3
    <3> QED
      BY <2>1, <2>3, <3>1 DEF AllNews
  <2>5. ASSUME NEW i \in 1..Len(FeedUpdates') - 1
        PROVE  FeedUpdates'[i] # FeedUpdates'[i + 1]
    <3>1. /\ i \in 1..Len(FeedUpdates') /\ i + 1 \in 1..Len(FeedUpdates')
          /\ i + 1 \in 1..Len(FeedUpdates) - 1
      BY <2>3
    <3> QED
      BY <2>3, <3>1 DEF AllNews
  <2> QED
    BY <2>4, <2>5 DEF AllNews
<1> QED
  BY <1>2, <1>3, <1>4 DEF Feed!Next

\* An update tells the voter something new, for any changes of the chain, any polls
\* and any capacity of the channel.
THEOREM UpdatesAreNews == Spec => NewsOnly
<1>1. Init => ParamsDelivered /\ AllNews
  BY DEF Init, ParamsDelivered, AllNews, FeedUpdates
<1>2. TypeOK /\ ParamsKnown /\ ParamsDelivered /\ [Next]_vars => ParamsDelivered'
  BY DeliveredStep
<1>3. TypeOK /\ InOrder /\ [Next]_vars => InOrder'
  BY InOrderStep
<1>4. TypeOK /\ ParamsKnown /\ ParamsDelivered /\ InOrder /\ AllNews /\ [Next]_vars
          /\ TypeOK' /\ InOrder' => AllNews'
  BY FeedStep, NewsStep
<1>5. TypeOK /\ ParamsKnown /\ AllNews => [ReceiveParams => Head(paramsCh) # voterParams]_vars
  <2> SUFFICES ASSUME TypeOK, ParamsKnown, AllNews, ReceiveParams
               PROVE  Head(paramsCh) # voterParams
    OBVIOUS
  <2>1. paramsCh # <<>> /\ paramsCh \in Seq(VotePeriods)
    BY DEF ReceiveParams, TypeOK
  <2>2. paramsPc = "send" => currentParams \in VotePeriods
    BY DEF TypeOK, ParamsKnown
  <2>3. FeedUpdates # <<>> /\ Head(FeedUpdates) = Head(paramsCh)
    BY <2>1, <2>2, ReceiveBehind DEF FeedUpdates
  <2>4. Head(FeedUpdates) = FeedUpdates[1]
    BY <2>3, UpdatesTyped
  <2> QED
    BY <2>3, <2>4 DEF AllNews
<1> QED
  BY <1>1, <1>2, <1>3, <1>4, <1>5, InOrderInit, TypeInit, TypeStep, PTL
     DEF Spec, NewsOnly
=============================================================================
