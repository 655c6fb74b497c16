------------------------------ MODULE TxRelay ------------------------------
(***************************************************************************)
(* Transactions on their way through the node: the mempool the peers and   *)
(* the local client feed (txsubmission.go, localtxsubmission.go), the swap *)
(* filler it calls with the mempool lock held, the submission queue        *)
(* (txsubmit), and the outbound connections the result is relayed to       *)
(* (node.go, txsubmission.go).                                             *)
(*                                                                         *)
(* The transaction that fills an order is named by the transaction with    *)
(* the order.  Outbound connections are dialled from the node's own        *)
(* listening port, so the connections to one peer, one after the other,    *)
(* have one ConnectionId, and so has the connection the peer opens to us   *)
(* from its own listening port: the peer stands for it, and has one of     *)
(* them at a time.  Critical sections that                                 *)
(* call nothing are one step; connTransactionChansMutex is held across the *)
(* sends of AddOutboundTransaction, outboundConnsMutex while               *)
(* connectionManagerConnClosed waits for it, and the mempool lock while a  *)
(* handler submits.                                                        *)
(***************************************************************************)
EXTENDS Integers, Sequences

CONSTANTS
    Peers,        \* nodes to connect to
    Topologies,   \* the values of cfg.Topology.Hosts
    Txs,          \* pending transactions
    Unparsable,   \* fills that AddOutboundTransaction or startApi cannot parse
    Dividing,     \* orders that may meet a pool for which OutputForInput divides
                  \* by zero
    ChanCap,      \* maxOutboundTransactions, of a connection's channel
    QueueCap,     \* maxOutboundTransactions, of transactionChan
    None,
    \* bounds of the model, by the hosts
    MaxFills, MaxCloses, MaxInbounds

ASSUME RelayAssumption ==
    /\ ChanCap \in Nat \ {0} /\ QueueCap \in Nat \ {0}
    /\ Unparsable \subseteq Txs /\ Dividing \subseteq Txs
    /\ Topologies \subseteq SUBSET Peers

VARIABLES
    \* txsubmissionMempool: Transactions, and the new one its handlers are
    \* called with while the lock is held
    mempool, adding,
    \* cfg.Topology.Hosts; TxSubmit: how it submits, transactionChan, where its
    \* goroutine is
    hosts, mode, queue, submitter,
    \* Node: outboundConns, connTransactionChans (the peers that have one and
    \* the buffers), connTransactionCache
    outboundConns, registered, chan, cached, cache,
    \* createOutboundConnection and reconnectOutboundConnection of each peer
    setup, sleeping, up, started,
    \* acceptConnections: peers connected to us under the same ConnectionId
    inbound,
    \* connectionManagerConnClosed and txsubmissionClientRequestTxIds
    callback, handler,
    \* the peer's side: ids announced to it and not acknowledged
    outstanding,
    panicked,
    \* history: what was sent on the current channel, announced on the current
    \* connection and since its last acknowledgement, and the peers with a
    \* connection that closed without a channel: an outbound one that was still
    \* being registered, or an inbound one, which never has a channel
    relayed, announced, sinceAck, early, fills, closes, inbounds

mempoolVars == <<mempool, adding>>
queueVars   == <<hosts, mode, queue, submitter>>
connVars    == <<outboundConns, registered, chan, cached, cache>>
dialVars    == <<setup, sleeping, up, started, inbound>>
peerVars    == <<handler, outstanding, announced, sinceAck>>
boundVars   == <<early, fills, closes, inbounds>>
vars == <<mempoolVars, queueVars, connVars, dialVars, callback, peerVars,
          panicked, relayed, boundVars>>

IdleHandler == [pc |-> "idle", blocking |-> FALSE, batch |-> <<>>]
IdleSubmitter == [pc |-> "take", tx |-> None, todo |-> {}]

Init ==
    /\ mempool = {} /\ adding = None
    /\ hosts \in Topologies
    /\ mode \in IF hosts = {} THEN {"ntn", "api"} ELSE {"ntn"}
    /\ queue = <<>> /\ submitter = [IdleSubmitter EXCEPT !.pc = "unset"]
    /\ outboundConns = {} /\ registered = {} /\ cached = {}
    /\ chan = [p \in Peers |-> <<>>]
    /\ cache = [p \in Peers |-> {}]
    /\ setup = [p \in Peers |-> IF p \in hosts THEN "dial" ELSE "none"]
    /\ sleeping = {} /\ up = {} /\ started = {} /\ inbound = {}
    /\ callback = [p \in Peers |-> "none"]
    /\ handler = [p \in Peers |-> IdleHandler]
    /\ outstanding = [p \in Peers |-> <<>>]
    /\ announced = [p \in Peers |-> <<>>]
    /\ sinceAck = [p \in Peers |-> {}]
    /\ relayed = [p \in Peers |-> <<>>]
    /\ panicked = FALSE
    /\ early = {} /\ fills = 0 /\ closes = 0 /\ inbounds = 0

\* The lock of the mempool, connTransactionChansMutex and outboundConnsMutex
\* can be taken.
MempoolUnlocked == adding = None
ChansUnlocked == submitter.pc # "send"
ConnsUnlocked == \A p \in Peers : callback[p] # "holding"

-----------------------------------------------------------------------------
(* The mempool                                                             *)

\* A transaction already there only has its LastSeen updated, a new one goes
\* to the handlers while the lock is held.
AddTransaction(t) ==
    /\ MempoolUnlocked
    /\ mempool' = mempool \cup {t}
    /\ IF t \in mempool
       THEN UNCHANGED <<adding, fills>>
       ELSE /\ fills < MaxFills[hosts]
            /\ fills' = fills + 1
            /\ adding' = t
    /\ UNCHANGED <<queueVars, connVars, dialVars, callback, peerVars, panicked,
                   relayed, early, closes, inbounds>>

\* The loop of txsubmissionServerInit for a connected peer, and
\* localTxsubmissionServerSubmitTx for a local client: either adds what it can
\* parse.  Any number of them wait for the lock, where they have no state.
PeerDelivers == \E t \in Txs : AddTransaction(t)
ClientSubmits == \E t \in Txs : AddTransaction(t)

\* handleMempoolNewTransaction: the fill is built and SubmitTx waits for room
\* in transactionChan.
SubmitTx ==
    /\ ~MempoolUnlocked /\ submitter.pc # "unset"
    /\ Len(queue) < QueueCap
    /\ queue' = Append(queue, adding)
    /\ adding' = None
    /\ UNCHANGED <<mempool, hosts, mode, submitter, connVars, dialVars,
                   callback, peerVars, panicked, relayed, boundVars>>

\* main starts the node before TxSubmit, and SubmitTx before Start panics.
SubmitTxTooEarly ==
    /\ ~MempoolUnlocked /\ submitter.pc = "unset"
    /\ panicked' = TRUE
    /\ UNCHANGED <<mempoolVars, queueVars, connVars, dialVars, callback,
                   peerVars, relayed, boundVars>>

\* Building the fill divides by zero: OutputForInput and the callers of
\* createSwapTx do not check for it and nothing recovers.
FillDivides ==
    /\ ~MempoolUnlocked /\ adding \in Dividing
    /\ panicked' = TRUE
    /\ UNCHANGED <<mempoolVars, queueVars, connVars, dialVars, callback,
                   peerVars, relayed, boundVars>>

\* The transaction has no order, no pool is known for it, or createSwapTx
\* returns an error, which is logged.
NothingToSubmit ==
    /\ ~MempoolUnlocked
    /\ adding' = None
    /\ UNCHANGED <<mempool, queueVars, connVars, dialVars, callback,
                   peerVars, panicked, relayed, boundVars>>

\* removeTransaction, called for every transaction the indexer delivers.
RemoveTransaction(t) ==
    /\ MempoolUnlocked
    /\ t \in mempool
    /\ mempool' = mempool \ {t}
    /\ UNCHANGED <<adding, queueVars, connVars, dialVars,
                   callback, peerVars, panicked, relayed, boundVars>>

\* The timer runs removeExpired; which transactions were last seen more than
\* txsubmissionMempoolExpiration ago is a matter of time.
RemoveExpired ==
    /\ MempoolUnlocked
    /\ mempool' \in (SUBSET mempool) \ {mempool}
    /\ UNCHANGED <<adding, queueVars, connVars, dialVars,
                   callback, peerVars, panicked, relayed, boundVars>>

-----------------------------------------------------------------------------
(* TxSubmit and AddOutboundTransaction                                     *)

\* txsubmit.Start.  Without hosts and a URL it adds a bootstrap peer to the
\* topology, which node.Start has read already: nothing is dialled.
StartTxSubmit ==
    /\ submitter.pc = "unset"
    /\ submitter' = IdleSubmitter
    /\ UNCHANGED <<mempoolVars, hosts, mode, queue, connVars, dialVars,
                   callback, peerVars, panicked, relayed, boundVars>>

\* startNtn takes the next transaction; one that cannot be parsed is dropped.
TakeNtn ==
    /\ mode = "ntn"
    /\ submitter.pc = "take" /\ queue # <<>>
    /\ queue' = Tail(queue)
    /\ submitter' = IF Head(queue) \in Unparsable
                    THEN IdleSubmitter
                    ELSE [pc |-> "lock", tx |-> Head(queue), todo |-> {}]
    /\ UNCHANGED <<mempoolVars, hosts, mode, connVars, dialVars, callback,
                   peerVars, panicked, relayed, boundVars>>

LockChans_leaking ==    \* mutant: unlocked only after a send
    /\ submitter.pc = "lock"
    /\ submitter' = [submitter EXCEPT !.pc = "send", !.todo = registered]
    /\ UNCHANGED <<mempoolVars, hosts, mode, queue, connVars, dialVars,
                   callback, peerVars, panicked, relayed, boundVars>>
LockChans ==
    /\ submitter.pc = "lock"
    /\ submitter' = IF registered = {} THEN IdleSubmitter
                    ELSE [submitter EXCEPT !.pc = "send", !.todo = registered]
    /\ UNCHANGED <<mempoolVars, hosts, mode, queue, connVars, dialVars,
                   callback, peerVars, panicked, relayed, boundVars>>

\* One channel after the other; the lock is released after the last.  To send
\* on a closed channel panics.
SendOutbound(p) ==
    /\ submitter.pc = "send"
    /\ p \in submitter.todo
    /\ p \in registered => Len(chan[p]) < ChanCap
    /\ panicked' = (p \notin registered)
    /\ chan' = [chan EXCEPT ![p] = Append(@, submitter.tx)]
    /\ relayed' = [relayed EXCEPT ![p] = Append(@, submitter.tx)]
    /\ submitter' = IF submitter.todo = {p} THEN IdleSubmitter
                    ELSE [submitter EXCEPT !.todo = @ \ {p}]
    /\ UNCHANGED <<mempoolVars, hosts, mode, queue, outboundConns, registered,
                   cached, cache, dialVars, callback, peerVars, boundVars>>

\* startApi posts the next transaction; one that cannot be parsed ends its
\* goroutine.
TakeApi ==
    /\ mode = "api"
    /\ submitter.pc = "take" /\ queue # <<>>
    /\ queue' = Tail(queue)
    /\ submitter' = [submitter EXCEPT
                       !.pc = IF Head(queue) \in Unparsable THEN "ended" ELSE "post"]
    /\ UNCHANGED <<mempoolVars, hosts, mode, connVars, dialVars, callback,
                   peerVars, panicked, relayed, boundVars>>

\* The server answers, or the connection to it fails; either outcome is only
\* logged.  http.DefaultClient has no timeout: there may be neither.
ApiAnswers ==
    /\ submitter.pc = "post"
    /\ submitter' = IdleSubmitter
    /\ UNCHANGED <<mempoolVars, hosts, mode, queue, connVars, dialVars,
                   callback, peerVars, panicked, relayed, boundVars>>

-----------------------------------------------------------------------------
(* Connections                                                             *)

DialFails(p) ==
    /\ setup[p] = "dial"
    /\ setup' = [setup EXCEPT ![p] = "none"]
    /\ sleeping' = sleeping \cup {p}
    /\ UNCHANGED <<mempoolVars, queueVars, connVars, up, started, inbound,
                   callback, peerVars, panicked, relayed, boundVars>>

\* AddConnection: from here on the connection may close.  The peer has no other
\* connection, and the goroutines of the last one are done.
AddConnection(p) ==
    /\ setup[p] = "dial"
    /\ p \notin up \cup inbound /\ handler[p].pc = "idle"
    /\ setup' = [setup EXCEPT ![p] = "added"]
    /\ up' = up \cup {p}
    /\ started' = started \ {p}
    /\ UNCHANGED <<mempoolVars, queueVars, connVars, sleeping, inbound,
                   callback, peerVars, panicked, relayed, boundVars>>

\* acceptConnections adds the connection a host opens; that of another peer is
\* not in outboundConns when it closes, and changes nothing here.
AcceptInbound(p) ==
    /\ p \in hosts \ (up \cup inbound)
    /\ inbounds < MaxInbounds[hosts]
    /\ inbounds' = inbounds + 1
    /\ inbound' = inbound \cup {p}
    /\ UNCHANGED <<mempoolVars, queueVars, connVars, setup, sleeping, up,
                   started, callback, peerVars, panicked, relayed, early, fills,
                   closes>>

TrackConnection_skipping(p) ==    \* mutant: the channel is never registered
    /\ setup[p] = "added"
    /\ ConnsUnlocked
    /\ setup' = [setup EXCEPT ![p] = "channel"]
    /\ outboundConns' = outboundConns \cup {p}
    /\ UNCHANGED <<mempoolVars, queueVars, registered, chan, cached, cache,
                   sleeping, up, started, inbound, callback, peerVars, panicked,
                   relayed, boundVars>>
TrackConnection(p) ==
    /\ setup[p] = "added"
    /\ ConnsUnlocked
    /\ setup' = [setup EXCEPT ![p] = "tracked"]
    /\ outboundConns' = outboundConns \cup {p}
    /\ UNCHANGED <<mempoolVars, queueVars, registered, chan, cached, cache,
                   sleeping, up, started, inbound, callback, peerVars, panicked,
                   relayed, boundVars>>

RegisterChan(p) ==
    /\ setup[p] = "tracked"
    /\ ChansUnlocked
    /\ setup' = [setup EXCEPT ![p] = "channel"]
    /\ registered' = registered \cup {p}
    /\ chan' = [chan EXCEPT ![p] = <<>>]
    /\ relayed' = [relayed EXCEPT ![p] = <<>>]
    /\ UNCHANGED <<mempoolVars, queueVars, outboundConns, cached, cache,
                   sleeping, up, started, inbound, callback, peerVars, panicked,
                   boundVars>>

\* The cache is made and the client starts: the peer may ask for ids.
StartClient(p) ==
    /\ setup[p] = "channel"
    /\ setup' = [setup EXCEPT ![p] = "none"]
    /\ started' = started \cup {p}
    /\ cached' = cached \cup {p}
    /\ cache' = [cache EXCEPT ![p] = {}]
    /\ outstanding' = [outstanding EXCEPT ![p] = <<>>]
    /\ announced' = [announced EXCEPT ![p] = <<>>]
    /\ sinceAck' = [sinceAck EXCEPT ![p] = {}]
    /\ UNCHANGED <<mempoolVars, queueVars, outboundConns, registered, chan,
                   sleeping, up, inbound, callback, handler, panicked, relayed,
                   boundVars>>

\* The connection fails; the connection manager forgets it and calls
\* connectionManagerConnClosed, here for one connection of a peer at a time.
CloseConnection(p) ==
    /\ p \in up
    /\ callback[p] = "none" /\ closes < MaxCloses[hosts]
    /\ closes' = closes + 1
    /\ up' = up \ {p}
    /\ callback' = [callback EXCEPT ![p] = "called"]
    /\ early' = IF setup[p] \in {"added", "tracked"} THEN early \cup {p}
                ELSE early
    /\ UNCHANGED <<mempoolVars, queueVars, connVars, setup, sleeping, started,
                   inbound, peerVars, panicked, relayed, fills, inbounds>>

\* The callback does not tell an inbound connection from an outbound one.
CloseInbound(p) ==
    /\ p \in inbound
    /\ callback[p] = "none" /\ closes < MaxCloses[hosts]
    /\ closes' = closes + 1
    /\ inbound' = inbound \ {p}
    /\ callback' = [callback EXCEPT ![p] = "called"]
    /\ early' = early \cup {p}
    /\ UNCHANGED <<mempoolVars, queueVars, connVars, setup, sleeping, up,
                   started, peerVars, panicked, relayed, fills, inbounds>>

\* connectionManagerConnClosed: an entry of outboundConns is never removed, so
\* it is found again when a later connection of the peer closes.
ConnClosed(p) ==
    /\ callback[p] = "called"
    /\ ConnsUnlocked
    /\ callback' = [callback EXCEPT
                     ![p] = IF p \in outboundConns THEN "holding" ELSE "none"]
    /\ UNCHANGED <<mempoolVars, queueVars, connVars, dialVars, peerVars,
                   panicked, relayed, boundVars>>

\* Closing a channel that is not there panics.
CleanUp_forgetful(p) ==    \* mutant: no reconnect
    /\ callback[p] = "holding"
    /\ ChansUnlocked
    /\ callback' = [callback EXCEPT ![p] = "none"]
    /\ panicked' = (p \notin registered)
    /\ registered' = registered \ {p}
    /\ cached' = cached \ {p}
    /\ UNCHANGED <<mempoolVars, queueVars, outboundConns, chan, cache,
                   dialVars, peerVars, relayed, boundVars>>
CleanUp(p) ==
    /\ callback[p] = "holding"
    /\ ChansUnlocked
    /\ callback' = [callback EXCEPT ![p] = "none"]
    /\ panicked' = (p \notin registered)
    /\ registered' = registered \ {p}
    /\ cached' = cached \ {p}
    /\ sleeping' = sleeping \cup {p}
    /\ UNCHANGED <<mempoolVars, queueVars, outboundConns, chan, cache, setup,
                   up, started, inbound, peerVars, relayed, boundVars>>

\* reconnectOutboundConnection after its delay of a second or more, by when
\* the goroutines of the closed connection are done.  The callback of another
\* connection may have started it while the peer is connected.
Reconnect(p) ==
    /\ p \in sleeping
    /\ setup[p] = "none" /\ (p \in up \/ handler[p].pc = "idle")
    /\ sleeping' = sleeping \ {p}
    /\ setup' = [setup EXCEPT ![p] = "dial"]
    /\ started' = IF p \in up THEN started ELSE started \ {p}
    /\ UNCHANGED <<mempoolVars, queueVars, connVars, up, inbound, callback,
                   peerVars, panicked, relayed, boundVars>>

-----------------------------------------------------------------------------
(* The peer asks for transactions                                          *)

\* The peer acknowledges some of the ids it was told; it asks for more with a
\* blocking request when none are left, as the protocol demands.
RequestTxIds_clearing(p, ack) ==    \* mutant: the cache is always cleared
    /\ p \in started /\ handler[p].pc = "idle"
    /\ handler' = [handler EXCEPT
                    ![p] = [pc |-> "lookup", batch |-> <<>>,
                            blocking |-> ack = Len(outstanding[p])]]
    /\ outstanding' = [outstanding EXCEPT
                        ![p] = SubSeq(@, ack + 1, Len(@))]
    /\ cache' = [cache EXCEPT ![p] = {}]
    /\ cached' = cached \cup {p}
    /\ sinceAck' = [sinceAck EXCEPT ![p] = IF ack > 0 THEN {} ELSE @]
    /\ UNCHANGED <<mempoolVars, queueVars, outboundConns, registered, chan,
                   dialVars, callback, announced, panicked, relayed, boundVars>>
RequestTxIds(p, ack) ==
    /\ p \in started /\ handler[p].pc = "idle"
    /\ handler' = [handler EXCEPT
                    ![p] = [pc |-> "lookup", batch |-> <<>>,
                            blocking |-> ack = Len(outstanding[p])]]
    /\ outstanding' = [outstanding EXCEPT
                        ![p] = SubSeq(@, ack + 1, Len(@))]
    /\ IF ack > 0
       THEN /\ cache' = [cache EXCEPT ![p] = {}]
            /\ cached' = cached \cup {p}
            /\ sinceAck' = [sinceAck EXCEPT ![p] = {}]
       ELSE UNCHANGED <<cache, cached, sinceAck>>
    /\ UNCHANGED <<mempoolVars, queueVars, outboundConns, registered, chan,
                   dialVars, callback, announced, panicked, relayed, boundVars>>

\* A connection that is gone has no channel: nothing to announce.
LookupChan(p) ==
    /\ handler[p].pc = "lookup"
    /\ ChansUnlocked
    /\ handler' = [handler EXCEPT
                    ![p] = IF p \in registered THEN [@ EXCEPT !.pc = "receive"]
                           ELSE IdleHandler]
    /\ UNCHANGED <<mempoolVars, queueVars, connVars, dialVars, callback,
                   outstanding, announced, sinceAck, panicked, relayed,
                   boundVars>>

\* A closed channel still delivers what it holds.
ReceiveTx(p) ==
    /\ handler[p].pc = "receive"
    /\ chan[p] # <<>>
    /\ chan' = [chan EXCEPT ![p] = Tail(@)]
    /\ handler' = [handler EXCEPT ![p].batch = Append(@, Head(chan[p]))]
    /\ UNCHANGED <<mempoolVars, queueVars, outboundConns, registered, cached,
                   cache, dialVars, callback, outstanding, announced, sinceAck,
                   panicked, relayed, boundVars>>

\* Nothing more is available, or the channel was closed: the ids are returned
\* and their transactions kept for RequestTxs.
ReturnTxIds_late(p) ==    \* mutant: a transaction received last is forgotten
    /\ handler[p].pc = "receive"
    /\ chan[p] = <<>>
    /\ ~handler[p].blocking \/ handler[p].batch # <<>> \/ p \notin registered
    /\ LET n == Len(handler[p].batch)
           batch == IF n > 1 THEN SubSeq(handler[p].batch, 1, n - 1)
                    ELSE handler[p].batch
       IN  /\ cache' = [cache EXCEPT ![p] = @ \cup {batch[i] : i \in DOMAIN batch}]
           /\ announced' = [announced EXCEPT ![p] = @ \o batch]
           /\ outstanding' = [outstanding EXCEPT ![p] = @ \o batch]
           /\ sinceAck' = [sinceAck EXCEPT
                            ![p] = @ \cup {batch[i] : i \in DOMAIN batch}]
    /\ handler' = [handler EXCEPT ![p] = IdleHandler]
    /\ UNCHANGED <<mempoolVars, queueVars, outboundConns, registered, chan,
                   cached, dialVars, callback, panicked, relayed, boundVars>>
ReturnTxIds(p) ==
    /\ handler[p].pc = "receive"
    /\ chan[p] = <<>>
    /\ ~handler[p].blocking \/ handler[p].batch # <<>> \/ p \notin registered
    /\ LET batch == handler[p].batch
           ids == {batch[i] : i \in DOMAIN batch}
       IN  /\ cache' = [cache EXCEPT ![p] = IF p \in cached THEN @ \cup ids
                                            ELSE @]
           /\ announced' = [announced EXCEPT ![p] = @ \o batch]
           /\ outstanding' = [outstanding EXCEPT ![p] = @ \o batch]
           /\ sinceAck' = [sinceAck EXCEPT ![p] = @ \cup ids]
    /\ handler' = [handler EXCEPT ![p] = IdleHandler]
    /\ UNCHANGED <<mempoolVars, queueVars, outboundConns, registered, chan,
                   cached, dialVars, callback, panicked, relayed, boundVars>>

\* txsubmissionClientRequestTxs: the bodies it returns for some ids.
RequestTxs(p, ids) == IF p \in cached THEN ids \cap cache[p] ELSE {}

-----------------------------------------------------------------------------
\* The goroutines of the node itself.
Working ==
    \/ SubmitTx \/ SubmitTxTooEarly \/ FillDivides \/ NothingToSubmit
    \/ StartTxSubmit \/ TakeNtn \/ LockChans \/ TakeApi
    \/ \E p \in Peers :
          \/ SendOutbound(p)
          \/ TrackConnection(p) \/ RegisterChan(p) \/ StartClient(p)
          \/ ConnClosed(p) \/ CleanUp(p)
          \/ LookupChan(p) \/ ReceiveTx(p) \/ ReturnTxIds(p)

\* Peers, clients, the chain and time.
Environment ==
    \/ PeerDelivers \/ ClientSubmits
    \/ \E t \in Txs : RemoveTransaction(t)
    \/ RemoveExpired
    \/ ApiAnswers
    \/ \E p \in Peers :
          \/ DialFails(p) \/ AddConnection(p) \/ Reconnect(p)
          \/ CloseConnection(p)
          \/ AcceptInbound(p) \/ CloseInbound(p)
          \/ \E ack \in 0..Len(outstanding[p]) : RequestTxIds(p, ack)

Next == ~panicked /\ (Working \/ Environment)

Fairness ==
    /\ WF_vars(~panicked /\ SubmitTx)
    /\ WF_vars(~panicked /\ StartTxSubmit)
    /\ WF_vars(~panicked /\ (TakeNtn \/ LockChans \/ TakeApi))
    /\ \A p \in Peers :
          /\ WF_vars(~panicked /\ SendOutbound(p))
          /\ WF_vars(~panicked /\ (ConnClosed(p) \/ CleanUp(p)))
          /\ WF_vars(~panicked /\ (LookupChan(p) \/ ReceiveTx(p)
                                     \/ ReturnTxIds(p)))

Spec == Init /\ [][Next]_vars /\ Fairness

-----------------------------------------------------------------------------
(* Properties                                                              *)

\* What AddOutboundTransaction sent on a connection's channel is announced to
\* the peer once and in order: it was announced, is in the batch being built
\* or waits in the channel, whatever requests and sends overlap.
RelayedOnceInOrder ==
    \A p \in registered \cap started :
        relayed[p] = announced[p] \o handler[p].batch \o chan[p]

\* While a connection is open, txsubmissionClientRequestTxs returns the body
\* of every transaction announced since the peer's last acknowledgement.
AnnouncedHasBody ==
    \A p \in up \cap started \cap registered :
        RequestTxs(p, sinceAck[p]) = sinceAck[p]

\* Relaying ends the process in three cases only.  A fill is submitted before
\* txsubmit.Start; building it divides by zero; or connectionManagerConnClosed
\* closes a channel that is not there, and then a connection of that very peer
\* closed that had none, because createOutboundConnection was still registering
\* it or it was inbound.  Nothing is ever sent on a closed channel.
PanicsAreNamed ==
    panicked =>
        \/ adding # None /\ (submitter.pc = "unset" \/ adding \in Dividing)
        \/ \E p \in early : p \notin registered

\* A configured peer is connected, being dialled or waiting to be: losing a
\* connection never loses the peer, unless a connection closed that had no
\* channel.
PeersAreRedialled ==
    \A p \in hosts \ early :
        p \in up \cup sleeping \/ setup[p] = "dial" \/ callback[p] # "none"
          \/ panicked

\* AddOutboundTransaction waits for room in the full channel of a connection,
\* or the submitter's goroutine has ended.
SubmitterStuck ==
    \/ submitter.pc = "send" /\ \E p \in submitter.todo : Len(chan[p]) = ChanCap
    \/ submitter.pc = "ended"

\* The server startApi posts to answers or fails, whatever it is sent.
ServerAnswers == []<>(submitter.pc # "post")

\* If the server answers, the mempool lock, without which the indexer's handler
\* cannot go on with the next block, and the locks a request for ids needs are
\* always released, unless the submitter itself waits for a full channel or has
\* ended.
WaitsOnlyForFullChannel ==
    ServerAnswers =>
        /\ (~MempoolUnlocked) ~> (MempoolUnlocked \/ SubmitterStuck
                                      \/ panicked)
        /\ \A p \in Peers :
              (handler[p].pc = "lookup") ~>
                 (handler[p].pc # "lookup" \/ SubmitterStuck \/ panicked)
=============================================================================
