---------------------------- MODULE PriceStream ----------------------------
(***************************************************************************)
(* Price updates on their way to consumers: the subscriber channels of an  *)
(* oracle (oracle.go: Subscribe, Unsubscribe, notifySubscribers, Stop) and *)
(* the WebSocket API that subscribes for its clients (api.go).             *)
(*                                                                         *)
(* notifySubscribers holds subMu for reading while it goes through the     *)
(* channels, and consumers receive meanwhile; Subscribe, Unsubscribe and   *)
(* Stop take subMu for writing, so they run between two notifications.     *)
(* Updates are numbered; a channel is named by the subscriber it was made  *)
(* for and is closed once.                                                 *)
(***************************************************************************)
EXTENDS Integers, Sequences, FiniteSets, Functions

CONSTANTS
    Clients,        \* subscribers that read their channel themselves
    Api,            \* the subscriber broadcastPriceUpdatesFromOracle is
    Conns,          \* WebSocket connections
    BufferSize,     \* subscriberBufferSize
    \* bounds of the model
    MaxUpdates, MaxPings

ASSUME BufferAssumption == BufferSize \in Nat \ {0}
ASSUME ClientsAssumption == IsFiniteSet(Clients) /\ Api \notin Clients

Subscribers == Clients \cup {Api}

VARIABLES
    \* Oracle
    subscribers, chan, closed, stopped, dropCount,
    \* notifySubscribers: its update, the channels left, the one that was full
    update, todo, full,
    \* the consumers: who has a channel, the newest update received and, as
    \* history, how many were skipped
    made, last, skipped,
    \* OracleAPI: connections, sockets closed, finished read loops
    wsConns, socketClosed, handled, apiStop,
    \* broadcastPriceUpdatesFromOracle and pingLoop: connections still to be
    \* written to, those that failed, and where the broadcaster is
    caster, toWrite, failedWrites, pings, toPing, failedPings

oracleVars == <<subscribers, chan, closed, stopped, dropCount, update, todo,
                full, made, last, skipped>>
connVars   == <<wsConns, socketClosed, handled, apiStop>>
casterVars == <<caster, toWrite, failedWrites>>
pingVars   == <<pings, toPing, failedPings>>
vars == <<oracleVars, connVars, casterVars, pingVars>>

Init ==
    /\ subscribers = {} /\ closed = {} /\ stopped = FALSE /\ dropCount = 0
    /\ chan = [c \in Subscribers |-> <<>>]
    /\ update = 0 /\ todo = {} /\ full = {}
    /\ made = {}
    /\ last = [c \in Subscribers |-> 0]
    /\ skipped = [c \in Subscribers |-> 0]
    /\ wsConns = {} /\ socketClosed = {} /\ handled = {} /\ apiStop = "running"
    /\ caster = "starting" /\ toWrite = {} /\ failedWrites = {}
    /\ pings = 0 /\ toPing = {} /\ failedPings = {}

-----------------------------------------------------------------------------
(* Oracle: subscriptions                                                   *)

\* subMu can be taken for writing.
Unlocked == todo = {}

\* A stopped oracle returns a channel that is closed already.
SubscribeAs(c) ==
    /\ Unlocked
    /\ c \notin made
    /\ made' = made \cup {c}
    /\ last' = [last EXCEPT ![c] = update]
    /\ IF stopped
       THEN closed' = closed \cup {c} /\ UNCHANGED subscribers
       ELSE subscribers' = subscribers \cup {c} /\ UNCHANGED closed
    /\ UNCHANGED <<chan, stopped, dropCount, update, todo, full, skipped>>

Subscribe(c) == SubscribeAs(c) /\ UNCHANGED <<connVars, casterVars, pingVars>>

\* Removes and closes the channel if the oracle still has it.
Drop_racing(c) ==    \* mutant: without the lock
    /\ subscribers' = subscribers \ {c}
    /\ closed' = closed \cup ({c} \cap subscribers)
Drop(c) ==
    /\ Unlocked
    /\ subscribers' = subscribers \ {c}
    /\ closed' = closed \cup ({c} \cap subscribers)

Unsubscribe(c) ==
    /\ c \in subscribers
    /\ Drop(c)
    /\ UNCHANGED <<chan, stopped, dropCount, update, todo, full, made, last,
                   skipped, connVars, casterVars, pingVars>>

StopOracle ==
    /\ Unlocked
    /\ ~stopped
    /\ stopped' = TRUE
    /\ closed' = closed \cup subscribers
    /\ subscribers' = {}
    /\ UNCHANGED <<chan, dropCount, update, todo, full, made, last, skipped,
                   connVars, casterVars, pingVars>>

-----------------------------------------------------------------------------
(* Oracle: notifySubscribers                                               *)

Notify ==
    /\ Unlocked
    /\ update < MaxUpdates
    /\ update' = update + 1
    /\ todo' = subscribers
    /\ UNCHANGED <<subscribers, chan, closed, stopped, dropCount, full, made,
                   last, skipped, connVars, casterVars, pingVars>>

\* The first, non-blocking send.
Send_unbounded(c) ==    \* mutant: a buffer without a limit
    /\ full = {}
    /\ chan' = [chan EXCEPT ![c] = Append(@, update)]
    /\ todo' = todo \ {c}
    /\ UNCHANGED <<full, subscribers, closed, stopped, dropCount, update, made,
                   last, skipped, connVars, casterVars, pingVars>>
Send(c) ==
    /\ full = {}
    /\ IF Len(chan[c]) < BufferSize
       THEN /\ chan' = [chan EXCEPT ![c] = Append(@, update)]
            /\ todo' = todo \ {c}
            /\ UNCHANGED full
       ELSE /\ full' = {<<c, "drop">>}
            /\ UNCHANGED <<chan, todo>>
    /\ UNCHANGED <<subscribers, closed, stopped, dropCount, update, made, last,
                   skipped, connVars, casterVars, pingVars>>

\* The channel was full: the oldest update makes room, unless the consumer
\* emptied the channel meanwhile.
DropOldest_silent(c) ==    \* mutant: recordDrop is forgotten
    /\ full = {<<c, "drop">>}
    /\ IF chan[c] # <<>>
       THEN chan' = [chan EXCEPT ![c] = Tail(@)] /\ UNCHANGED dropCount
       ELSE UNCHANGED <<chan, dropCount>>
    /\ full' = {<<c, "resend">>}
    /\ UNCHANGED <<subscribers, closed, stopped, update, todo, made, last,
                   skipped, connVars, casterVars, pingVars>>
DropOldest(c) ==
    /\ full = {<<c, "drop">>}
    /\ IF chan[c] # <<>>
       THEN /\ chan' = [chan EXCEPT ![c] = Tail(@)]
            /\ dropCount' = dropCount + 1
       ELSE UNCHANGED <<chan, dropCount>>
    /\ full' = {<<c, "resend">>}
    /\ UNCHANGED <<subscribers, closed, stopped, update, todo, made, last,
                   skipped, connVars, casterVars, pingVars>>

\* The second send, or the drop of the update itself.
SendAgain_not(c) ==    \* mutant: the newest update is the one dropped
    /\ full = {<<c, "resend">>}
    /\ dropCount' = dropCount + 1
    /\ UNCHANGED chan
    /\ full' = {}
    /\ todo' = todo \ {c}
    /\ UNCHANGED <<subscribers, closed, stopped, update, made, last, skipped,
                   connVars, casterVars, pingVars>>
SendAgain(c) ==
    /\ full = {<<c, "resend">>}
    /\ IF Len(chan[c]) < BufferSize
       THEN chan' = [chan EXCEPT ![c] = Append(@, update)] /\ UNCHANGED dropCount
       ELSE dropCount' = dropCount + 1 /\ UNCHANGED chan
    /\ full' = {}
    /\ todo' = todo \ {c}
    /\ UNCHANGED <<subscribers, closed, stopped, update, made, last, skipped,
                   connVars, casterVars, pingVars>>

\* A consumer takes the oldest update of its channel; a closed channel is
\* drained first.
Take(c) ==
    /\ chan[c] # <<>>
    /\ chan' = [chan EXCEPT ![c] = Tail(@)]
    /\ last' = [last EXCEPT ![c] = Head(chan[c])]
    /\ skipped' = [skipped EXCEPT ![c] = @ + Head(chan[c]) - last[c] - 1]
    /\ UNCHANGED <<subscribers, closed, stopped, dropCount, update, todo, full, made>>

Receive(c) == Take(c) /\ UNCHANGED <<connVars, casterVars, pingVars>>

-----------------------------------------------------------------------------
(* OracleAPI: the broadcaster                                              *)

BroadcastStart ==
    /\ caster = "starting"
    /\ SubscribeAs(Api)
    /\ caster' = "waiting"
    /\ UNCHANGED <<toWrite, failedWrites, connVars, pingVars>>

\* An update arrives; the connections are copied under wsMu.
BroadcastUpdate ==
    /\ caster = "waiting"
    /\ Take(Api)
    /\ caster' = "writing"
    /\ toWrite' = wsConns
    /\ UNCHANGED <<failedWrites, connVars, pingVars>>

\* writeJSON to one of them.  It fails on a closed socket, and it may time out.
BroadcastWrite(k) ==
    /\ caster = "writing"
    /\ toWrite' = toWrite \ {k}
    /\ \/ k \notin socketClosed /\ UNCHANGED failedWrites
       \/ failedWrites' = failedWrites \cup {k}
    /\ UNCHANGED <<caster, oracleVars, connVars, pingVars>>

\* removeConns, for the broadcaster and for pingLoop.
RemoveConns(failed) ==
    /\ wsConns' = wsConns \ failed
    /\ socketClosed' = socketClosed \cup failed
    /\ UNCHANGED <<handled, apiStop>>

BroadcastWritten ==
    /\ caster = "writing"
    /\ toWrite = {}
    /\ RemoveConns(failedWrites)
    /\ failedWrites' = {}
    /\ caster' = "waiting"
    /\ UNCHANGED <<toWrite, oracleVars, pingVars>>

\* The API stopped, or the channel is closed and drained; the deferred
\* Unsubscribe runs.
CasterStops_api == apiStop = "stopped"    \* mutant: ignores the closed channel
CasterStops == apiStop = "stopped" \/ (Api \in closed /\ chan[Api] = <<>>)

BroadcastEnds ==
    /\ caster = "waiting"
    /\ CasterStops
    /\ Drop(Api)
    /\ caster' = "ended"
    /\ UNCHANGED <<chan, stopped, dropCount, update, todo, full, made, last,
                   skipped, toWrite, failedWrites, connVars, pingVars>>

-----------------------------------------------------------------------------
(* OracleAPI: connections                                                  *)

\* HandlePriceStream, up to its read loop.
Connect(k) ==
    /\ k \notin handled \cup wsConns \cup socketClosed
    /\ wsConns' = wsConns \cup {k}
    /\ UNCHANGED <<socketClosed, handled, apiStop, oracleVars, casterVars, pingVars>>

\* The read loop of a registered or closed connection ends: the client left,
\* its pongs stopped, or the socket was closed by somebody else.
Connected(k) == k \in (wsConns \cup socketClosed) \ handled

ReadLoopEnds_leaks(k) ==    \* mutant: the deferred delete is missing
    /\ Connected(k)
    /\ handled' = handled \cup {k}
    /\ socketClosed' = socketClosed \cup {k}
    /\ UNCHANGED <<wsConns, apiStop, oracleVars, casterVars, pingVars>>
ReadLoopEnds(k) ==
    /\ Connected(k)
    /\ handled' = handled \cup {k}
    /\ wsConns' = wsConns \ {k}
    /\ socketClosed' = socketClosed \cup {k}
    /\ UNCHANGED <<apiStop, oracleVars, casterVars, pingVars>>

\* A tick of pingLoop, its pings, and the removal of what failed.
PingTick ==
    /\ apiStop # "stopped"
    /\ pings < MaxPings
    /\ toPing = {} /\ failedPings = {} /\ wsConns # {}
    /\ pings' = pings + 1
    /\ toPing' = wsConns
    /\ UNCHANGED <<failedPings, oracleVars, connVars, casterVars>>

Ping(k) ==
    /\ toPing' = toPing \ {k}
    /\ \/ k \notin socketClosed /\ UNCHANGED failedPings
       \/ failedPings' = failedPings \cup {k}
    /\ UNCHANGED <<pings, oracleVars, connVars, casterVars>>

PingDone ==
    /\ toPing = {} /\ failedPings # {}
    /\ RemoveConns(failedPings)
    /\ failedPings' = {}
    /\ UNCHANGED <<pings, toPing, oracleVars, casterVars>>

\* Stop: the connections first, then stopChan.
StopConns ==
    /\ apiStop = "running"
    /\ apiStop' = "stopping"
    /\ socketClosed' = socketClosed \cup wsConns
    /\ wsConns' = {}
    /\ UNCHANGED <<handled, oracleVars, casterVars, pingVars>>

CloseStopChan ==
    /\ apiStop = "stopping"
    /\ apiStop' = "stopped"
    /\ UNCHANGED <<wsConns, socketClosed, handled, oracleVars, casterVars, pingVars>>

-----------------------------------------------------------------------------

Notifying == \E c \in todo : Send(c) \/ DropOldest(c) \/ SendAgain(c)

Broadcasting ==
    \/ BroadcastStart \/ BroadcastUpdate \/ BroadcastWritten \/ BroadcastEnds
    \/ \E k \in toWrite : BroadcastWrite(k)

Pinging == (\E k \in toPing : Ping(k)) \/ PingDone

Next ==
    \/ \E c \in Clients : Subscribe(c) \/ Unsubscribe(c) \/ Receive(c)
    \/ StopOracle
    \/ Notify \/ Notifying
    \/ Broadcasting
    \/ PingTick \/ Pinging
    \/ \E k \in Conns : Connect(k) \/ ReadLoopEnds(k)
    \/ StopConns \/ CloseStopChan

Spec == Init /\ [][Next]_vars

\* Goroutines that can run do; a client reads what it subscribed to; a read
\* loop notices that its socket was closed.  Nobody has to send updates,
\* connect, leave or stop anything.
Fairness ==
    /\ WF_vars(Notifying)
    /\ WF_vars(Broadcasting)
    /\ WF_vars(Pinging)
    /\ WF_vars(CloseStopChan)
    /\ \A c \in Clients : WF_vars(Receive(c))
    /\ \A k \in Conns : WF_vars(k \in socketClosed /\ ReadLoopEnds(k))

LiveSpec == Spec /\ Fairness

-----------------------------------------------------------------------------
(* Properties                                                              *)

\* Type invariant of the channels, the API's tables and its goroutines.
TypeOK ==
    /\ subscribers \subseteq Subscribers /\ closed \subseteq Subscribers
    /\ made \subseteq Subscribers /\ todo \subseteq Subscribers
    /\ chan \in [Subscribers -> Seq(1..update)]
    /\ \A c \in Subscribers : Len(chan[c]) <= BufferSize
    /\ update \in Nat /\ dropCount \in Nat /\ stopped \in BOOLEAN
    /\ full \subseteq todo \X {"drop", "resend"}
    /\ last \in [Subscribers -> 0..update] /\ skipped \in [Subscribers -> Nat]
    /\ wsConns \subseteq Conns /\ socketClosed \subseteq Conns /\ handled \subseteq Conns
    /\ apiStop \in {"running", "stopping", "stopped"}
    /\ caster \in {"starting", "waiting", "writing", "ended"}
    /\ toWrite \subseteq Conns /\ failedWrites \subseteq Conns
    /\ toPing \subseteq Conns /\ failedPings \subseteq Conns /\ pings \in Nat

\* No update is sent on a closed channel, which would panic: subscribers leave
\* and the oracle stops only between two notifications.
NoSendOnClosed == todo \cap closed = {}

\* After every notification the newest update is the last one in the channel,
\* or was received: a full channel loses old updates and never the newest
\* ("slow subscribers receive fresher data").
NewestIsKept ==
    Unlocked =>
        \A c \in subscribers :
            IF chan[c] = <<>> THEN last[c] = update
            ELSE chan[c][Len(chan[c])] = update

\* DroppedNotifications is exactly the number of updates that subscribers never
\* receive, also when they receive while updates are dropped.
Missing(c) ==
    skipped[c] + (IF chan[c] = <<>> THEN 0 ELSE Head(chan[c]) - last[c] - 1)
DropsAreCounted ==
    Unlocked => dropCount = SumFunction([c \in Subscribers |-> Missing(c)])

\* A connection whose handler has returned is not in the API's table, although
\* the broadcaster and pingLoop work on copies of it.
NoStaleConns == wsConns \cap handled = {}

\* Every update reaches each subscriber it was sent to, or a newer one does,
\* unless the channel is closed.
UpdatesArrive ==
    \A c \in Clients : \A n \in 1..MaxUpdates :
        (c \in todo /\ update = n) ~> (last[c] >= n \/ c \in closed)

\* The broadcaster ends once the API or the oracle was stopped.
BroadcasterEnds == (apiStop = "stopped" \/ stopped) ~> (caster = "ended")

=============================================================================
