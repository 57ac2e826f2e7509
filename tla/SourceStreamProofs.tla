-------------------------- MODULE SourceStreamProofs --------------------------
(***************************************************************************)
(* Proofs about SourceStream: type correctness, that no block of the       *)
(* stream, however many connections are made, leads to two polling loops,  *)
(* and that a healthy source in a client that is not closed has a pump     *)
(* behind it.                                                              *)
(***************************************************************************)
EXTENDS SourceStream, TLAPS

-----------------------------------------------------------------------------
(* Type correctness *)

\* A connection that is made, and a Close, keep the types of the client.
LEMMA ConnectedType ==
    ASSUME TypeOK, NEW c \in {"program", "background"}, Connected(c)
    PROVE  /\ ctx' \in {"none", "program", "background", "cancelled"}
           /\ closes' \in 0..1 /\ healthy' \in BOOLEAN
           /\ made' \in 0..MaxConnections /\ conn' \in 0..made' /\ open' \subseteq 1..made'
           /\ reader' \in [Connections -> {"unused", "ready", "reading", "exiting",
                                           "redialing", "gone"}]
<1>1. made \in Nat /\ made < MaxConnections /\ MaxConnections \in Nat
  BY StreamAssumption DEF TypeOK, Connected
<1>2. made' \in 0..MaxConnections /\ conn' \in 0..made' /\ open' \subseteq 1..made'
  BY <1>1 DEF TypeOK, Connected
<1>3. reader' \in [Connections -> {"unused", "ready", "reading", "exiting",
                                   "redialing", "gone"}]
  BY <1>1 DEF TypeOK, Connected, Connections
<1>4. closes' \in 0..1 /\ ctx' \in {"none", "program", "background", "cancelled"}
  BY DEF TypeOK, Connected
<1>5. healthy' \in BOOLEAN
  BY Zenon DEF Connected
<1> QED
  BY <1>2, <1>3, <1>4, <1>5

LEMMA CloseType ==
    ASSUME TypeOK, Close
    PROVE  closes' \in 0..1 /\ conn' \in 0..made /\ open' \subseteq 1..made
<1>1. /\ closes \in 0..1 /\ made \in 0..MaxConnections /\ conn \in 0..made
      /\ open \subseteq 1..made
  BY DEF TypeOK
<1>2. 0 \in 0..made /\ open \ {conn} \subseteq 1..made /\ 1 \in 0..1
  BY <1>1, StreamAssumption
<1>3. CASE closes' = 1 /\ open' = open \ {conn} /\ conn' = 0
  BY <1>2, <1>3
<1>4. CASE UNCHANGED <<closes, open, conn>>
  BY <1>1, <1>4
<1> QED
  BY <1>3, <1>4, Zenon DEF Close

\* What the parts of TypeOK are about.
EnvironmentType ==
    /\ kind \in Kinds
    /\ server \in ServerModes /\ changes \in 0..MaxChanges
    /\ ctxDone \in BOOLEAN /\ stopped \in BOOLEAN
    /\ starter \in {"connecting", "started", "failed"}

ClientType ==
    /\ ctx \in {"none", "program", "background", "cancelled"}
    /\ closes \in 0..1
    /\ made \in 0..MaxConnections /\ conn \in 0..made /\ open \subseteq 1..made
    /\ reader \in [Connections -> {"unused", "ready", "reading", "exiting", "redialing",
                                    "gone"}]

SourceType ==
    /\ healthy \in BOOLEAN /\ wsBlocked \in BOOLEAN
    /\ polling \in Nat /\ retrying \in Nat

LEMMA TypeParts == TypeOK <=> EnvironmentType /\ ClientType /\ SourceType
BY DEF TypeOK, EnvironmentType, ClientType, SourceType

LEMMA TypeStep ==
    ASSUME TypeOK, [Next]_vars
    PROVE  TypeOK'
<1> SUFFICES EnvironmentType' /\ ClientType' /\ SourceType'
  BY TypeParts, PTL
<1> USE TypeParts
<1>1. CASE StartConnects
  <2>1. Connected("program")
    BY <1>1 DEF StartConnects
  <2>2. ClientType' /\ healthy' \in BOOLEAN
    BY <2>1, ConnectedType DEF ClientType
  <2> QED
    BY <1>1, <2>2 DEF StartConnects, EnvironmentType, SourceType, environment
<1>2. CASE StartRetries \/ StartAborts
  BY <1>2 DEF StartRetries, StartAborts, EnvironmentType, ClientType, SourceType,
              environment, source
<1>3. CASE Stop
  <2>1. closes' \in 0..1 /\ conn' \in 0..made /\ open' \subseteq 1..made
    BY <1>3, CloseType DEF Stop
  <2> QED
    BY <1>3, <2>1 DEF Stop, EnvironmentType, ClientType, SourceType, source
<1>4. CASE RetryTime
  <2>1. wsBlocked' = FALSE /\ healthy' = healthy
    BY <1>4, Zenon DEF RetryTime
  <2>2. polling' \in Nat /\ retrying' \in Nat
    BY <1>4 DEF RetryTime, SourceType
  <2>3. SourceType'
    BY <2>1, <2>2 DEF SourceType
  <2> QED
    BY <1>4, <2>3 DEF RetryTime, EnvironmentType, ClientType, environment, client
<1>5. CASE StreamAgain
  <2>1. Connected("background") /\ retrying > 0 /\ retrying' = retrying - 1
    BY <1>5 DEF StreamAgain
  <2>2. ClientType' /\ healthy' \in BOOLEAN
    BY <2>1, ConnectedType DEF ClientType
  <2> QED
    BY <1>5, <2>1, <2>2 DEF StreamAgain, EnvironmentType, SourceType, environment
<1>6. CASE Cancel \/ ServerChange
  <2>1. changes' \in 0..MaxChanges
    BY <1>6, StreamAssumption DEF Cancel, ServerChange, EnvironmentType
  <2> QED
    BY <1>6, <2>1 DEF Cancel, ServerChange, EnvironmentType, ClientType, SourceType,
                      client, source
<1>7. ASSUME NEW i \in Connections, Pump(i) PROVE EnvironmentType' /\ ClientType' /\ SourceType'
  <2>1. EnvironmentType'
    BY <1>7 DEF Pump, Read, ReadFails, Reconnect, Redial, EnvironmentType, environment
  <2>2. ClientType'
    <3>1. \/ reader' = [reader EXCEPT ![i] = "exiting"]
          \/ reader' = [reader EXCEPT ![i] = "reading"]
          \/ reader' = [reader EXCEPT ![i] = "redialing"]
          \/ reader' = [reader EXCEPT ![i] = "gone"]
      BY <1>7 DEF Pump, Read, ReadFails, Reconnect, Redial
    <3>2. /\ ctx' \in {ctx, "cancelled"} /\ open' \in {open, open \ {i}}
          /\ UNCHANGED <<closes, made, conn>>
      BY <1>7 DEF Pump, Read, ReadFails, Reconnect, Redial
    <3> QED
      BY <3>1, <3>2 DEF ClientType
  <2>3. SourceType'
    <3>1. healthy' = healthy \/ healthy' = FALSE
      BY <1>7, Zenon DEF Pump, Read, ReadFails, Reconnect, Redial, source
    <3>2. UNCHANGED <<wsBlocked, polling, retrying>>
      BY <1>7 DEF Pump, Read, ReadFails, Reconnect, Redial, source
    <3> QED
      BY <3>1, <3>2 DEF SourceType
  <2> QED
    BY <2>1, <2>2, <2>3
<1>8. ASSUME NEW i \in Connections, ReceivePrices(i)
      PROVE  EnvironmentType' /\ ClientType' /\ SourceType'
  <2>1. healthy' \in BOOLEAN
    BY <1>8, Zenon DEF ReceivePrices
  <2> QED
    BY <1>8, <2>1 DEF ReceivePrices, Arrives, EnvironmentType, ClientType, SourceType,
                      environment
<1>9. ASSUME NEW i \in Connections, ReceiveBlocked(i)
      PROVE  EnvironmentType' /\ ClientType' /\ SourceType'
  <2>1. closes' \in 0..1 /\ conn' \in 0..made /\ open' \subseteq 1..made
    BY <1>9, CloseType DEF ReceiveBlocked
  <2> QED
    BY <1>9, <2>1 DEF ReceiveBlocked, Arrives, EnvironmentType, ClientType, SourceType,
                      environment
<1>10. ASSUME NEW i \in Connections, Lose(i)
       PROVE  EnvironmentType' /\ ClientType' /\ SourceType'
  <2>1. changes' \in 0..MaxChanges
    BY <1>10, StreamAssumption DEF Lose, EnvironmentType
  <2> QED
    BY <1>10, <2>1 DEF Lose, EnvironmentType, ClientType, SourceType, source
<1>11. CASE UNCHANGED vars
  BY <1>11 DEF vars, environment, client, source, EnvironmentType, ClientType, SourceType
<1> QED
  BY <1>1, <1>2, <1>3, <1>4, <1>5, <1>6, <1>7, <1>8, <1>9, <1>10, <1>11
     DEF Next, Start, Poller, Message

LEMMA TypeInit == Init => TypeOK
<1> SUFFICES ASSUME Init PROVE TypeOK
  OBVIOUS
<1>1. ctxDone \in BOOLEAN /\ stopped \in BOOLEAN /\ wsBlocked \in BOOLEAN
  BY Zenon DEF Init
<1> QED
  BY <1>1, StreamAssumption DEF Init, TypeOK, ServerModes

\* Every variable keeps its type, for any number of connections: in particular
\* the closed channel of the client is never closed again, which would panic.
THEOREM StreamTypeCorrect == Spec => []TypeOK
BY TypeInit, TypeStep, PTL DEF Spec

-----------------------------------------------------------------------------
(* The inductive invariant behind OnePoller *)

\* Until the client is closed nothing polls, and only the connection it has
\* installed is read.
OpenClient ==
    closes = 0 =>
        /\ polling = 0 /\ retrying = 0
        /\ \A i \in Connections : reader[i] \in {"ready", "reading"} => i = conn

\* Start connects a client that was never connected and never closed.
Unstarted == starter = "connecting" => made = 0 /\ closes = 0 /\ conn = 0
                                       /\ \A i \in Connections : reader[i] = "unused"

\* After it is closed, a pump that still waits for a message waits on a dead
\* connection.
ClosedClient ==
    closes > 0 => \A i \in Connections : reader[i] = "reading" => i \notin open

IInv ==
    /\ TypeOK
    /\ OpenClient
    /\ Unstarted
    /\ ClosedClient
    /\ OnePoller


LEMMA InvInit == Init => IInv
BY TypeInit DEF Init, IInv, OpenClient, Unstarted, ClosedClient, OnePoller

\* What the steps below use of the types.
LEMMA Numbers ==
    ASSUME TypeOK
    PROVE  /\ closes \in 0..1 /\ made \in Nat /\ polling \in Nat /\ retrying \in Nat
           /\ reader \in [Connections -> {"unused", "ready", "reading", "exiting",
                                          "redialing", "gone"}]
BY StreamAssumption DEF TypeOK

\* A new connection, in a client that has none or is closed, is not read yet.
LEMMA ConnectedStep ==
    ASSUME IInv, NEW c \in {"program", "background"}, Connected(c),
           starter = "connecting" \/ closes > 0,
           \/ UNCHANGED <<polling, retrying>>
           \/ polling' = polling /\ retrying > 0 /\ retrying' = retrying - 1
    PROVE  OpenClient' /\ ClosedClient' /\ OnePoller'
<1>1. \A i \in Connections : reader'[i] = "reading" => reader[i] = "reading" /\ i # made + 1
  BY Numbers DEF IInv, Connected
<1>2. closes' = closes /\ open' = open \cup {made + 1} /\ conn' = made + 1
  BY DEF Connected
<1>3. ASSUME closes = 0
      PROVE  /\ polling' = 0 /\ retrying' = 0
             /\ \A i \in Connections : reader'[i] \in {"ready", "reading"} => i = conn'
  <2>1. \A i \in Connections : reader[i] = "unused"
    BY <1>3 DEF IInv, Unstarted
  <2>2. \A i \in Connections : i # made + 1 => reader'[i] = reader[i]
    BY Numbers DEF IInv, Connected
  <2>3. polling = 0 /\ retrying = 0
    BY <1>3 DEF IInv, OpenClient
  <2> QED
    BY <1>2, <2>1, <2>2, <2>3
<1>6. OpenClient'
  BY <1>2, <1>3 DEF OpenClient
<1>4. ClosedClient'
  BY <1>1, <1>2 DEF IInv, ClosedClient
<1>5. OnePoller'
  BY Numbers DEF IInv, OnePoller
<1> QED
  BY <1>6, <1>4, <1>5

\* Closing the client leaves no pump that waits on a live connection.
LEMMA CloseStep ==
    ASSUME IInv, Close,
           \A i \in Connections : reader'[i] = "reading" => reader[i] = "reading"
    PROVE  OpenClient' /\ ClosedClient' /\ closes' > 0
<1>1. closes' > 0
  BY Numbers DEF IInv, Close
<1>2. \A i \in Connections : reader'[i] = "reading" => i \notin open'
  BY Numbers DEF IInv, Close, OpenClient, ClosedClient
<1> QED
  BY <1>1, <1>2 DEF OpenClient, ClosedClient

\* A step that neither closes nor connects, nor starts to read in a closed client.
LEMMA QuietStep ==
    ASSUME IInv, UNCHANGED <<closes, conn, polling, retrying>>, open' \subseteq open,
           \A i \in Connections :
              /\ reader'[i] \in {"ready", "reading"} => reader[i] \in {"ready", "reading"}
              /\ reader'[i] = "reading" => reader[i] = "reading" \/ closes = 0
    PROVE  OpenClient' /\ ClosedClient' /\ OnePoller'
<1>1. OpenClient' /\ OnePoller'
  BY DEF IInv, OpenClient, OnePoller
<1>2. ClosedClient'
  BY Numbers DEF IInv, ClosedClient
<1> QED
  BY <1>1, <1>2

LEMMA PollerStep ==
    ASSUME IInv, [Next]_vars
    PROVE  OpenClient' /\ ClosedClient' /\ OnePoller'
<1> USE Numbers DEF IInv
<1>1. CASE StartConnects
  <2>1. Connected("program") /\ starter = "connecting" /\ UNCHANGED <<polling, retrying>>
    BY <1>1 DEF StartConnects
  <2> QED
    BY <2>1, ConnectedStep
<1>2. CASE StreamAgain
  <2>1. Connected("background") /\ retrying > 0 /\ polling' = polling /\ retrying' = retrying - 1
    BY <1>2 DEF StreamAgain
  <2>2. closes > 0
    BY <2>1 DEF OpenClient
  <2> QED
    BY <2>1, <2>2, ConnectedStep
<1>3. CASE Stop
  <2>1. Close /\ UNCHANGED <<reader, polling, retrying>>
    BY <1>3 DEF Stop, source
  <2> QED
    BY <2>1, CloseStep DEF OnePoller
<1>4. ASSUME NEW i \in Connections, ReceiveBlocked(i)
      PROVE  OpenClient' /\ ClosedClient' /\ OnePoller'
  <2>1. /\ Close /\ reader' = [reader EXCEPT ![i] = "ready"]
        /\ polling' = polling + 1 /\ retrying' = retrying
        /\ reader[i] = "reading" /\ i \in open
    BY <1>4 DEF ReceiveBlocked, Arrives
  <2>2. closes = 0
    BY <2>1 DEF ClosedClient
  <2>3. OnePoller'
    BY <2>1, <2>2 DEF OpenClient, OnePoller
  <2>4. \A j \in Connections : reader'[j] = "reading" => reader[j] = "reading"
    BY <2>1
  <2> QED
    BY <2>1, <2>3, <2>4, CloseStep
<1>5. CASE RetryTime
  <2>1. /\ UNCHANGED <<closes, conn, open, reader>>
        /\ polling > 0 /\ polling' = polling - 1 /\ retrying' = retrying + 1
    BY <1>5 DEF RetryTime, client
  <2> QED
    BY <2>1 DEF OpenClient, ClosedClient, OnePoller
<1>6. ASSUME NEW i \in Connections, Pump(i)
      PROVE  OpenClient' /\ ClosedClient' /\ OnePoller'
  BY <1>6, QuietStep DEF Pump, Read, ReadFails, Reconnect, Redial, source
<1>7. ASSUME NEW i \in Connections, ReceivePrices(i)
      PROVE  OpenClient' /\ ClosedClient' /\ OnePoller'
  BY <1>7, QuietStep DEF ReceivePrices, Arrives
<1>8. ASSUME NEW i \in Connections, Lose(i)
      PROVE  OpenClient' /\ ClosedClient' /\ OnePoller'
  BY <1>8, QuietStep DEF Lose, source
<1>9. CASE StartRetries \/ StartAborts \/ Cancel \/ ServerChange \/ UNCHANGED vars
  BY <1>9, QuietStep
     DEF StartRetries, StartAborts, Cancel, ServerChange, vars, client, source
<1> QED
  BY <1>1, <1>2, <1>3, <1>4, <1>5, <1>6, <1>7, <1>8, <1>9
     DEF Next, Start, Poller, Message

LEMMA UnstartedStep ==
    ASSUME IInv, [Next]_vars
    PROVE  Unstarted'
<1> SUFFICES ASSUME starter' = "connecting" PROVE Unstarted'
  BY DEF Unstarted
<1>1. starter = "connecting"
  BY DEF Next, Start, StartConnects, StartRetries, StartAborts, Stop, Poller, RetryTime,
         StreamAgain, Cancel, ServerChange, Pump, Read, ReadFails, Reconnect, Redial,
         Message, ReceivePrices, ReceiveBlocked, Arrives, Lose, vars
<1>2. /\ made = 0 /\ closes = 0 /\ conn = 0 /\ polling = 0 /\ retrying = 0
      /\ \A i \in Connections : reader[i] = "unused"
  BY <1>1 DEF IInv, Unstarted, OpenClient
<1>3. UNCHANGED <<made, closes, conn, reader>>
  <2>1. CASE StartConnects \/ Stop
    BY <1>1, <2>1 DEF StartConnects, Stop
  <2>2. CASE StartRetries \/ StartAborts \/ Cancel \/ ServerChange \/ UNCHANGED vars
    BY <2>2 DEF StartRetries, StartAborts, Cancel, ServerChange, client, vars
  <2>3. CASE Poller
    BY <1>2, <2>3 DEF Poller, RetryTime, StreamAgain
  <2>4. ASSUME NEW i \in Connections, Pump(i) \/ Message(i) \/ Lose(i)
        PROVE  UNCHANGED <<made, closes, conn, reader>>
    BY <1>2, <2>4 DEF Pump, Read, ReadFails, Reconnect, Redial, Message, ReceivePrices,
                      ReceiveBlocked, Arrives, Lose
  <2> QED
    BY <2>1, <2>2, <2>3, <2>4 DEF Next, Start
<1> QED
  BY <1>2, <1>3 DEF Unstarted

LEMMA InvStep == IInv /\ [Next]_vars => IInv'
BY TypeStep, PollerStep, UnstartedStep DEF IInv

-----------------------------------------------------------------------------
\* However often the server blocks the client, drops connections or is restarted,
\* at most one goroutine polls or connects in the place of the stream.
THEOREM PollsOnce == Spec => []OnePoller
<1>1. IInv => OnePoller
  BY DEF IInv
<1> QED
  BY <1>1, InvInit, InvStep, PTL DEF Spec

\* A running source that is healthy, in a client that is not closed, has a pump
\* that reads or is about to report the loss of its connection.
THEOREM HealthIsWatched == Spec => []HealthyIsWatched
<1>1. Init => HealthyIsWatched
  BY DEF Init, HealthyIsWatched
<1>2. ASSUME IInv, HealthyIsWatched, [Next]_vars
      PROVE  HealthyIsWatched'
  <2> DEFINE Watched(i) == reader[i] \in {"ready", "reading", "exiting"}
  <2> SUFFICES ASSUME healthy', starter' = "started", closes' = 0
               PROVE  \E i \in Connections : Watched(i)'
    BY DEF HealthyIsWatched
  <2> USE <1>2, Numbers DEF IInv
  <2>1. CASE StartConnects \/ StreamAgain
    <3>1. PICK c \in {"program", "background"} : Connected(c)
      BY <2>1 DEF StartConnects, StreamAgain
    <3>2. reader' = [reader EXCEPT ![made + 1] = "ready"] /\ made + 1 \in Connections
      BY <3>1, StreamAssumption DEF Connected, Connections
    <3> QED
      BY <3>2
  <2>2. CASE Stop
    BY <2>2 DEF Stop, Close
  <2>3. ASSUME NEW i \in Connections, Reconnect(i)
        PROVE  \E j \in Connections : Watched(j)'
    BY <2>3 DEF Reconnect
  <2>4. ASSUME NEW i \in Connections, ReceivePrices(i) \/ ReceiveBlocked(i)
        PROVE  \E j \in Connections : Watched(j)'
    BY <2>4 DEF ReceivePrices, ReceiveBlocked, Arrives
  <2>5. ASSUME NEW i \in Connections, Read(i) \/ ReadFails(i)
        PROVE  \E j \in Connections : Watched(j)'
    BY <2>5 DEF Read, ReadFails
  <2>6. ASSUME NEW i \in Connections, Redial(i)
        PROVE  \E j \in Connections : Watched(j)'
    <3>1. PICK j \in Connections : Watched(j)
      BY <1>2, <2>6 DEF Redial, source, HealthyIsWatched
    <3>2. j # i
      BY <2>6, <3>1 DEF Redial
    <3> QED
      BY <2>6, <3>1, <3>2 DEF Redial
  <2>7. CASE \/ StartRetries \/ StartAborts \/ RetryTime \/ Cancel \/ ServerChange
             \/ UNCHANGED vars \/ \E i \in Connections : Lose(i)
    <3>1. reader' = reader /\ healthy' = healthy /\ closes' = closes
      BY <2>7 DEF StartRetries, StartAborts, RetryTime, Cancel, ServerChange, Lose,
                  client, source, vars
    <3>2. starter = "started"
      BY <2>7 DEF StartRetries, StartAborts, RetryTime, Cancel, ServerChange, Lose, vars
    <3> QED
      BY <3>1, <3>2 DEF HealthyIsWatched
  <2> QED
    BY <2>1, <2>2, <2>3, <2>4, <2>5, <2>6, <2>7
       DEF Next, Start, Poller, Pump, Message
<1> QED
  BY <1>1, <1>2, InvInit, InvStep, PTL DEF Spec
=============================================================================
