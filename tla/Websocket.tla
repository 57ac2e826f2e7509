------------------------------ MODULE Websocket ------------------------------
(***************************************************************************)
(* The connection to a Tendermint RPC endpoint                             *)
(* (pkg/feeder/eventstream/websocket.go): a loop that dials the current    *)
(* URL, reads until the connection fails and dials again, while the event  *)
(* stream may change the URL under it at any moment.                       *)
(*                                                                         *)
(* An endpoint behaves in one way for good: it delivers blocks, accepts    *)
(* connections and stays silent, sends what is no block, or is down.  A    *)
(* message is the height of its block, or Garbage.  Delays are seconds.    *)
(***************************************************************************)
EXTENDS Naturals, Sequences

CONSTANTS NumEndpoints,   \* configured RPC endpoints
          Modes,          \* the ways an endpoint may behave
          DialTicks,      \* watchdog ticks (10 s) one dial may last: 5 in 45 s
          MessageCap,     \* capacity of the messages channel
          MaxHeight,      \* bound: the last block
          MaxDrops        \* bound: failures of working connections

ASSUME WebsocketAssumption ==
    /\ NumEndpoints \in Nat \ {0}
    /\ Modes \subseteq {"healthy", "silent", "garbage", "down"}
    /\ DialTicks \in Nat /\ MessageCap \in Nat \ {0}
    /\ MaxHeight \in Nat /\ MaxDrops \in Nat

VARIABLES mode,       \* how every endpoint behaves
          head,       \* the last block every endpoint has
          drops,      \* failures of working connections still to come
          url,        \* the endpoint to dial next
          conn,       \* the endpoint of the open connection, or None
          wsPc,       \* where loop is
          dialled,    \* the endpoint of the dial in progress or just failed
          delay,      \* reconnectDelay
          ticksLeft,  \* watchdog ticks the dial or the wait may still last
          messages    \* received and not yet handled

network == <<mode, head, drops>>
socketVars == <<network, url, conn, wsPc, dialled, delay, ticksLeft, messages>>

Endpoints == 0..NumEndpoints - 1
None == NumEndpoints
Garbage == 0

InitialReconnectBackoff == 1
MaxReconnectBackoff == 30

\* The wait is longer than the delay by a jitter of up to half of it; a tick
\* may fall on its first second.
WaitTicks(d) == (d + d \div 2) \div 10 + 1

SocketTypeOK ==
    /\ mode \in [Endpoints -> Modes]
    /\ head \in [Endpoints -> 0..MaxHeight]
    /\ drops \in 0..MaxDrops
    /\ url \in Endpoints
    /\ conn \in Endpoints \cup {None}
    /\ wsPc \in {"connect", "dialing", "backoff", "reading"}
    /\ conn # None => wsPc = "reading" /\ mode[conn] # "down"
    /\ dialled \in Endpoints
    /\ delay \in InitialReconnectBackoff..MaxReconnectBackoff
    /\ ticksLeft \in 0..WaitTicks(MaxReconnectBackoff) + DialTicks
    /\ messages \in Seq(0..MaxHeight) /\ Len(messages) <= MessageCap

SocketInit ==
    /\ mode \in [Endpoints -> Modes]
    /\ head = [e \in Endpoints |-> 0]
    /\ drops = MaxDrops
    /\ url = 0
    /\ conn = None
    /\ wsPc = "connect"
    /\ dialled = 0
    /\ delay = InitialReconnectBackoff
    /\ ticksLeft = 0
    /\ messages = <<>>

Reading(e) == wsPc = "reading" /\ conn = e

-----------------------------------------------------------------------------
(* loop, connect and readLoop *)

\* connect reads the URL, without the lock, and dials it.
Dial ==
    /\ wsPc = "connect"
    /\ dialled' = url
    /\ ticksLeft' = DialTicks
    /\ wsPc' = "dialing"
    /\ UNCHANGED <<network, url, conn, delay, messages>>

\* The dial and the subscription succeed: the connection is kept, to whatever
\* URL it was dialled, and readLoop starts.
Connected ==
    /\ wsPc = "dialing"
    /\ mode[dialled] # "down"
    /\ conn' = dialled
    /\ delay' = InitialReconnectBackoff
    /\ ticksLeft' = 0
    /\ wsPc' = "reading"
    /\ UNCHANGED <<network, url, dialled, messages>>

\* The dial or the subscription fails; loop waits.
DialFailed ==
    /\ wsPc = "dialing"
    /\ \/ mode[dialled] = "down" /\ UNCHANGED drops
       \/ mode[dialled] # "down" /\ drops > 0 /\ drops' = drops - 1
    /\ ticksLeft' = WaitTicks(delay)
    /\ wsPc' = "backoff"
    /\ UNCHANGED <<mode, head, url, conn, dialled, delay, messages>>

Reconnect ==
    /\ wsPc = "backoff"
    /\ delay' = IF 2 * delay > MaxReconnectBackoff THEN MaxReconnectBackoff
                ELSE 2 * delay
    /\ ticksLeft' = 0
    /\ wsPc' = "connect"
    /\ UNCHANGED <<network, url, conn, dialled, messages>>

\* readLoop finds its connection closed by UpdateURL; loop dials at once.
ReadError ==
    /\ wsPc = "reading"
    /\ conn = None
    /\ wsPc' = "connect"
    /\ UNCHANGED <<network, url, conn, dialled, delay, ticksLeft, messages>>

\* The connection fails: it is closed, a ping cannot be sent, or no pong
\* comes.
Disconnect ==
    /\ wsPc = "reading"
    /\ conn # None
    /\ drops > 0
    /\ drops' = drops - 1
    /\ conn' = None
    /\ wsPc' = "connect"
    /\ UNCHANGED <<mode, head, url, dialled, delay, ticksLeft, messages>>

\* An endpoint has the next block.  It comes through the open connection, if
\* there is one to that endpoint; otherwise nobody hears of it.
Block(e) ==
    /\ mode[e] = "healthy"
    /\ head[e] < MaxHeight
    /\ head' = [head EXCEPT ![e] = @ + 1]
    /\ \/ /\ Reading(e)
          /\ Len(messages) < MessageCap
          /\ messages' = Append(messages, head'[e])
       \/ /\ ~Reading(e)
          /\ UNCHANGED messages
    /\ UNCHANGED <<mode, drops, url, conn, wsPc, dialled, delay, ticksLeft>>

\* A message that is no block: an error answer, a proxy's page.
GarbageArrives ==
    /\ \E e \in Endpoints : Reading(e) /\ mode[e] = "garbage"
    /\ Len(messages) < MessageCap
    /\ messages' = Append(messages, Garbage)
    /\ UNCHANGED <<network, url, conn, wsPc, dialled, delay, ticksLeft>>

SocketLoop == Dial \/ Connected \/ DialFailed \/ Reconnect \/ ReadError

SocketNext ==
    SocketLoop \/ Disconnect \/ GarbageArrives \/ \E e \in Endpoints : Block(e)

-----------------------------------------------------------------------------
(* UpdateURL: two critical sections, the second of which finds what the loop *)
(* has made of the first                                                     *)

SetUrl(e) == url' = e


\* The delay is reset without the lock; while loop doubles it, the reset may
\* be lost.
CloseConnection ==
    /\ conn' = None
    /\ \/ delay' = InitialReconnectBackoff
       \/ wsPc = "backoff" /\ UNCHANGED delay
=============================================================================
