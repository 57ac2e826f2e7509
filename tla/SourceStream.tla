----------------------------- MODULE SourceStream -----------------------------
(***************************************************************************)
(* A price source in websocket mode: the websocket client of the sources   *)
(* (pkg/server/sources/websocket/client.go) with Binance or MEXC on top of *)
(* it (cex/binance.go, cex/mexc.go).  Start connects and retries until it  *)
(* succeeds; a read pump reads until the connection is lost and then calls *)
(* reconnect; MEXC leaves the stream for REST polling when its server      *)
(* blocks it.                                                              *)
(*                                                                         *)
(* Prices are left out: what the server API sees of the source is its      *)
(* health, and the question is who keeps its prices current.  The write    *)
(* and ping pumps only make a dead connection fail, and the waits between  *)
(* two attempts are time.                                                  *)
(***************************************************************************)
EXTENDS Naturals

CONSTANTS Kinds,            \* the sources to consider: "binance", "mexc"
          MaxConnections,   \* bound: connections ever made
          MaxChanges        \* bound: how often the server changes its behaviour

ASSUME StreamAssumption ==
    /\ Kinds \subseteq {"binance", "mexc"}
    /\ MaxConnections \in Nat \ {0}
    /\ MaxChanges \in Nat

VARIABLES kind,         \* which source this is
          server,       \* behaviour of its websocket server
          changes,      \* how often the server has changed
          ctxDone,      \* the program's context is cancelled
          stopped,      \* Stop has been called
          starter,      \* where Start is
          ctx,          \* what c.ctx is derived from
          closes,       \* how often Close has closed the channel done
          made,         \* connections made so far
          conn,         \* c.conn: the number of a connection, 0 for nil
          open,         \* connections that neither side has closed
          reader,       \* the read pump of every connection
          healthy,      \* BaseSource.healthy
          wsBlocked,    \* MEXC: the stream is blocked
          polling,      \* goroutines that poll while it is blocked ...
          retrying      \* ... and that connect again

environment == <<kind, server, changes, ctxDone, stopped>>
client == <<ctx, closes, made, conn, open, reader>>
source == <<healthy, wsBlocked, polling, retrying>>
vars == <<environment, starter, client, source>>

Connections == 1..MaxConnections

\* The server sends prices; only answers pings; sends a message that the
\* client is blocked; accepts connections and is silent; refuses connections.
ServerModes == {"delivers", "idle", "blocks", "dead", "down"}

TypeOK ==
    /\ kind \in Kinds
    /\ server \in ServerModes /\ changes \in 0..MaxChanges
    /\ ctxDone \in BOOLEAN /\ stopped \in BOOLEAN
    /\ starter \in {"connecting", "started", "failed"}
    /\ ctx \in {"none", "program", "background", "cancelled"}
    /\ closes \in 0..1
    /\ made \in 0..MaxConnections /\ conn \in 0..made /\ open \subseteq 1..made
    /\ reader \in [Connections -> {"unused", "ready", "reading", "exiting", "redialing",
                                    "gone"}]
    /\ healthy \in BOOLEAN /\ wsBlocked \in BOOLEAN
    /\ polling \in Nat /\ retrying \in Nat

\* The first REST fetch is done, with or without success, and Start is about
\* to connect.
Init ==
    /\ kind \in Kinds
    /\ server \in ServerModes /\ changes = 0
    /\ ctxDone = FALSE /\ stopped = FALSE
    /\ starter = "connecting"
    /\ ctx = "none" /\ closes = 0
    /\ made = 0 /\ conn = 0 /\ open = {}
    /\ reader = [i \in Connections |-> "unused"]
    /\ healthy \in BOOLEAN
    /\ wsBlocked = FALSE /\ polling = 0 /\ retrying = 0

-----------------------------------------------------------------------------
(* The websocket client *)

Live(c) == c = "background" \/ (c = "program" /\ ~ctxDone)

\* Connect succeeds under the given context: the connection is installed, also
\* in a client that is closed, the source is healthy, and a pump starts.
Connected(given) ==
    /\ Live(given) /\ server # "down"
    /\ made < MaxConnections
    /\ ctx' = given
    /\ made' = made + 1
    /\ conn' = made + 1
    /\ open' = open \cup {made + 1}
    /\ reader' = [reader EXCEPT ![made + 1] = "ready"]
    /\ healthy' = TRUE
    /\ UNCHANGED closes

\* The flag against a second Close is missing.
CloseAgain ==
    /\ closes' = closes + 1
    /\ open' = open \ {conn}
    /\ conn' = 0

\* The connection itself is forgotten.
CloseDoneOnly ==
    /\ closes' = 1
    /\ UNCHANGED <<open, conn>>

\* Only the first call does anything; done stays closed for good.
Close ==
    \/ /\ closes = 0
       /\ closes' = 1
       /\ open' = open \ {conn}
       /\ conn' = 0
    \/ /\ closes > 0
       /\ UNCHANGED <<closes, open, conn>>

\* The server or the network ends a connection.
Lose(i) ==
    /\ i \in open
    /\ changes < MaxChanges
    /\ changes' = changes + 1
    /\ open' = open \ {i}
    /\ UNCHANGED <<kind, server, ctxDone, stopped, starter, ctx, closes, made, conn, reader,
                   source>>

\* Before every read the pump looks at done.
Read(i) ==
    /\ reader[i] = "ready"
    /\ reader' = [reader EXCEPT ![i] = IF closes > 0 THEN "exiting" ELSE "reading"]
    /\ UNCHANGED <<environment, starter, ctx, closes, made, conn, open, source>>

\* There is no read deadline.
ReadFailsWithoutDeadline(i) ==
    /\ reader[i] = "reading"
    /\ i \notin open \/ server = "down"
    /\ open' = open \ {i}
    /\ reader' = [reader EXCEPT ![i] = "exiting"]
    /\ UNCHANGED <<environment, starter, ctx, closes, made, conn, source>>

\* A read fails: the connection is gone, or the deadline that pongs extend has
\* passed.
ReadFails(i) ==
    /\ reader[i] = "reading"
    /\ i \notin open \/ server \in {"dead", "down"}
    /\ open' = open \ {i}
    /\ reader' = [reader EXCEPT ![i] = "exiting"]
    /\ UNCHANGED <<environment, starter, ctx, closes, made, conn, source>>

\* The handler of a lost connection is not called.
ReconnectQuietly(i) ==
    /\ reader[i] = "exiting"
    /\ reader' = [reader EXCEPT ![i] = IF closes > 0 THEN "gone" ELSE "redialing"]
    /\ UNCHANGED <<environment, starter, ctx, closes, made, conn, open, source>>

\* The pump has ended and calls reconnect, which does nothing when the client
\* is closed and otherwise tells the source that the connection is lost.
Reconnect(i) ==
    /\ reader[i] = "exiting"
    /\ \/ /\ closes > 0
          /\ reader' = [reader EXCEPT ![i] = "gone"]
          /\ UNCHANGED healthy
       \/ /\ closes = 0
          /\ reader' = [reader EXCEPT ![i] = "redialing"]
          /\ healthy' = FALSE
    /\ UNCHANGED <<environment, starter, ctx, closes, made, conn, open, wsBlocked, polling,
                   retrying>>

\* reconnect hands the client's own context to ConnectWithRetry; Connect first
\* cancels that context, dials with it, fails, and the retry loop sees it done.
Redial(i) ==
    /\ reader[i] = "redialing"
    /\ ctx' = "cancelled"
    /\ reader' = [reader EXCEPT ![i] = "gone"]
    /\ UNCHANGED <<environment, starter, closes, made, conn, open, source>>

-----------------------------------------------------------------------------
(* Start and Stop of the source *)

StartConnects ==
    /\ starter = "connecting"
    /\ Connected("program")
    /\ starter' = "started"
    /\ UNCHANGED <<environment, wsBlocked, polling, retrying>>

\* The first failure is the last.
StartGivesUp ==
    /\ starter = "connecting"
    /\ server = "down"
    /\ ctx' = "program"
    /\ starter' = "failed"
    /\ UNCHANGED <<environment, closes, made, conn, open, reader, source>>

\* The dial fails: Start waits and tries again, without end.
StartRetries ==
    /\ starter = "connecting"
    /\ server = "down"
    /\ ctx' = "program"
    /\ UNCHANGED <<environment, starter, closes, made, conn, open, reader, source>>

StartAborts ==
    /\ starter = "connecting"
    /\ ctxDone
    /\ ctx' = "program"
    /\ starter' = "failed"
    /\ UNCHANGED <<environment, closes, made, conn, open, reader, source>>

\* Only sources that have started are stopped.
Stop ==
    /\ ctxDone /\ starter = "started" /\ ~stopped
    /\ stopped' = TRUE
    /\ Close
    /\ UNCHANGED <<kind, server, changes, ctxDone, starter, ctx, made, reader, source>>

-----------------------------------------------------------------------------
(* Messages *)

\* A message is read and handled, and the pump goes on.
Arrives(i, message) ==
    /\ reader[i] = "reading" /\ i \in open
    /\ server = message
    /\ reader' = [reader EXCEPT ![i] = "ready"]

\* A trade makes MEXC healthy; Binance sets prices only.
ReceivePrices(i) ==
    /\ Arrives(i, "delivers")
    /\ healthy' = (healthy \/ kind = "mexc")
    /\ UNCHANGED <<environment, starter, ctx, closes, made, conn, open, wsBlocked, polling,
                   retrying>>

\* The stream stays open while it is blocked.
ReceiveBlockedOpen(i) ==
    /\ Arrives(i, "blocks")
    /\ kind = "mexc"
    /\ wsBlocked' = TRUE
    /\ polling < MaxConnections /\ polling' = polling + 1
    /\ UNCHANGED <<environment, starter, ctx, closes, made, conn, open, healthy, retrying>>

\* MEXC is blocked: the client is closed, and a goroutine polls instead.  The
\* health stays as it is.  Binance has no such message.
ReceiveBlocked(i) ==
    /\ Arrives(i, "blocks")
    /\ kind = "mexc"
    /\ wsBlocked' = TRUE
    /\ Close
    /\ polling' = polling + 1
    /\ UNCHANGED <<environment, starter, ctx, made, healthy, retrying>>

\* The retry time has come.  Until then the loop polls, without a look at what
\* comes of it.
RetryTime ==
    /\ polling > 0 /\ wsBlocked
    /\ wsBlocked' = FALSE
    /\ polling' = polling - 1
    /\ retrying' = retrying + 1
    /\ UNCHANGED <<environment, starter, client, healthy>>

\* The connection is made, under a context that never ends, and the polling
\* loop returns.
StreamAgain ==
    /\ retrying > 0
    /\ Connected("background")
    /\ retrying' = retrying - 1
    /\ UNCHANGED <<environment, starter, wsBlocked, polling>>

-----------------------------------------------------------------------------
Cancel ==
    /\ ~ctxDone
    /\ ctxDone' = TRUE
    /\ UNCHANGED <<kind, server, changes, stopped, starter, client, source>>

ServerChange ==
    /\ changes < MaxChanges
    /\ server' \in ServerModes
    /\ changes' = changes + 1
    /\ UNCHANGED <<kind, ctxDone, stopped, starter, client, source>>

Start == StartConnects \/ StartRetries \/ StartAborts
Pump(i) == Read(i) \/ ReadFails(i) \/ Reconnect(i) \/ Redial(i)
Message(i) == ReceivePrices(i) \/ ReceiveBlocked(i)
Poller == RetryTime \/ StreamAgain

Next ==
    \/ Start \/ Stop \/ Poller \/ Cancel \/ ServerChange
    \/ \E i \in Connections : Pump(i) \/ Message(i) \/ Lose(i)

Spec == Init /\ [][Next]_vars

\* Goroutines run, a dial has an outcome (it times out after 10 s), and the
\* shutdown goes through the sources.  Nothing is assumed of the server.
FairSpec ==
    /\ Spec
    /\ WF_vars(StartConnects \/ StartAborts) /\ WF_vars(Stop)
    /\ WF_vars(Poller)
    /\ \A i \in Connections : WF_vars(Pump(i))

-----------------------------------------------------------------------------
(* Properties *)

\* At most one goroutine stands in for the stream: although every block message
\* starts one, under a context that nobody cancels, the pump that reads such a
\* message never reads another (mexc.go:536 closes the client first).
OnePoller == polling + retrying <= 1

\* Until the client is closed, a running source that is healthy has a pump that
\* reads a connection or is about to report its loss: health never outlives the
\* stream behind it, wherever the loss falls.
HealthyIsWatched ==
    healthy /\ starter = "started" /\ closes = 0 =>
        \E i \in Connections : reader[i] \in {"ready", "reading", "exiting"}

\* A server that falls silent, pings included, or goes away for good makes a
\* running source unhealthy, whatever it did before, unless the client was
\* closed by a block or by Stop.
FailingStreamLeft ==
    [](closes = 0) /\ <>[](server \in {"dead", "down"}) =>
        <>[](starter = "started" => ~healthy)

\* A server that is down when the program starts delays Start, and with it every
\* later source (main.go:255), but once it accepts connections Start returns.
StartCompletes ==
    []~ctxDone /\ <>[](server # "down") => <>(starter = "started")

\* Stop ends the pump, also one that waits for a message that never comes.
StopEndsReaders ==
    stopped ~> \A i \in Connections : reader[i] \in {"unused", "gone"}

\* The client is one "with reconnection support" (client.go:14): when the server
\* delivers for good, somebody keeps the prices current in the end.
Served ==
    \/ polling > 0
    \/ \E i \in open : reader[i] \in {"ready", "reading"} /\ closes = 0

StreamRecovers ==
    []~ctxDone /\ <>[](server = "delivers") => <>[]Served
=============================================================================
