--------------------------- MODULE TxRelayProofs ---------------------------
(***************************************************************************)
(* Safety of the outbound connections for any number of peers,             *)
(* transactions, reconnections and any capacity of the channels.           *)
(***************************************************************************)
EXTENDS TxRelay, SequenceTheorems, TLAPS

-----------------------------------------------------------------------------
(* The inductive invariant                                                 *)

HandlerState ==
    [pc: {"idle", "lookup", "receive"}, blocking: BOOLEAN, batch: Seq(Txs)]
SubmitterState ==
    [pc: {"unset", "take", "lock", "send", "post", "ended"}, tx: Txs \cup {None},
     todo: SUBSET Peers]

\* The types of what belongs to the connections.
LinkTypes ==
    /\ registered \subseteq Peers
    /\ chan \in [Peers -> Seq(Txs)] /\ relayed \in [Peers -> Seq(Txs)]
    /\ announced \in [Peers -> Seq(Txs)]
    /\ handler \in [Peers -> HandlerState]
    /\ cache \in [Peers -> SUBSET Txs] /\ sinceAck \in [Peers -> SUBSET Txs]
    /\ setup \in [Peers -> {"none", "dial", "added", "tracked", "channel"}]
    /\ callback \in [Peers -> {"none", "called", "holding"}]

\* And of the mempool, the queue and the submitter, which sends on channels
\* that are there.
QueueTypes ==
    /\ adding \in Txs \cup {None} /\ queue \in Seq(Txs)
    /\ submitter \in SubmitterState
    /\ submitter.pc \in {"lock", "send"} => submitter.tx \in Txs
    /\ submitter.pc = "send" => submitter.todo \subseteq registered

\* The client of a connection runs outside its setup; a request is being
\* served only then, and has a batch only while it receives.
ClientOK(p) ==
    /\ p \in started => setup[p] \in {"none", "dial"}
    /\ handler[p].pc # "idle" => p \in started
    /\ handler[p].pc # "receive" => handler[p].batch = <<>>

\* What was sent on a channel is there until the client starts, and then was
\* announced or is about to be; what was announced is in the cache.
RelayOK(p) ==
    /\ p \in registered /\ setup[p] = "channel" => relayed[p] = chan[p]
    /\ p \in registered \cap started =>
          /\ relayed[p] = announced[p] \o handler[p].batch \o chan[p]
          /\ p \in cached /\ sinceAck[p] \subseteq cache[p]

\* Where a connection is: it has a channel once registered, it waits to be
\* dialled again only without one, and its callback runs after it closed.
LifeOK(p) ==
    /\ p \in registered => setup[p] \in {"channel", "none"} /\ p \in outboundConns
    /\ setup[p] = "tracked" => p \in outboundConns
    /\ p \in sleeping => /\ p \notin registered /\ p \notin up
                         /\ callback[p] = "none" /\ setup[p] \in {"channel", "none"}
    /\ callback[p] # "none" => p \notin up /\ setup[p] # "dial"
    /\ setup[p] = "dial" => p \notin up

\* It is never lost.
KeptOK(p) ==
    /\ setup[p] \in {"added", "tracked"} => p \in up
    /\ callback[p] # "none" => p \in registered
    /\ p \in up /\ setup[p] \in {"channel", "none"} => p \in registered
    /\ p \in hosts => p \in up \cup sleeping \/ setup[p] = "dial" \/ callback[p] # "none"

\* The links are right.  Of the life of those that lost a connection without a
\* channel nothing is claimed, and of none after a panic.
LinksInv ==
    /\ \A p \in Peers : ClientOK(p) /\ RelayOK(p)
    /\ ~panicked => \A p \in Peers \ early : LifeOK(p) /\ KeptOK(p)

RelayInv ==
    /\ hosts \subseteq Peers /\ LinkTypes /\ QueueTypes
    /\ LinksInv
    /\ PanicsAreNamed

-----------------------------------------------------------------------------
(* Steps that leave the connections alone                                  *)

\* The mempool and the queue.
LEMMA LinksUnchanged ==
    ASSUME LinksInv, ~panicked,
           UNCHANGED <<hosts, connVars, setup, sleeping, up, started, callback,
                       peerVars, relayed, early>>
    PROVE  LinksInv'
<1>1. UNCHANGED <<hosts, outboundConns, registered, chan, cached, cache, setup,
                  sleeping, up, started, callback, handler, announced, sinceAck,
                  relayed, early>>
  BY DEF connVars, peerVars
<1>2. \A p \in Peers : ClientOK(p)' /\ RelayOK(p)'
  BY <1>1 DEF LinksInv, ClientOK, RelayOK
<1>3. \A p \in Peers \ early' : LifeOK(p)' /\ KeptOK(p)'
  BY <1>1 DEF LinksInv, LifeOK, KeptOK
<1> QED
  BY <1>2, <1>3 DEF LinksInv

\* The two states of the submitter that TxSubmit assigns as a whole.
LEMMA IdleTypes ==
    /\ IdleSubmitter \in SubmitterState /\ IdleSubmitter.pc = "take"
    /\ IdleHandler \in HandlerState /\ IdleHandler.pc = "idle"
    /\ IdleHandler.batch = <<>>
  BY EmptySeq DEF IdleSubmitter, SubmitterState, IdleHandler, HandlerState

\* The head and the tail of a queue of transactions.
LEMMA QueueFacts ==
    ASSUME NEW s \in Seq(Txs), s # <<>>
    PROVE  Head(s) \in Txs /\ Tail(s) \in Seq(Txs) /\ s = <<Head(s)>> \o Tail(s)
<1>1. Head(s) \in Txs /\ Tail(s) \in Seq(Txs)
  BY HeadTailProperties
<1>2. s = <<Head(s)>> \o Tail(s)
  OBVIOUS
<1> QED
  BY <1>1, <1>2

\* Steps of the mempool, of TxSubmit and of the submitter before it sends.
LEMMA QueueStep ==
    ASSUME LinkTypes, QueueTypes, LinksInv, PanicsAreNamed, ~panicked,
           \/ PeerDelivers \/ ClientSubmits \/ SubmitTx \/ SubmitTxTooEarly
           \/ FillDivides \/ NothingToSubmit \/ StartTxSubmit \/ TakeNtn
           \/ LockChans \/ TakeApi \/ ApiAnswers
           \/ RemoveExpired \/ \E t \in Txs : RemoveTransaction(t)
    PROVE  LinkTypes' /\ QueueTypes' /\ LinksInv' /\ PanicsAreNamed'
<1>1. UNCHANGED <<hosts, connVars, dialVars, callback, peerVars, relayed, early>>
  BY DEF PeerDelivers, ClientSubmits, AddTransaction, SubmitTx, SubmitTxTooEarly,
         FillDivides, NothingToSubmit, StartTxSubmit, TakeNtn, LockChans, TakeApi,
         ApiAnswers, RemoveExpired, RemoveTransaction, queueVars, boundVars
<1>2. LinksInv'
  BY <1>1, LinksUnchanged DEF dialVars
<1>3. LinkTypes'
  BY <1>1 DEF LinkTypes, connVars, dialVars, peerVars
<1>4. QueueTypes' /\ PanicsAreNamed'
  <2> USE DEF QueueTypes, PanicsAreNamed, connVars
  <2>1. CASE PeerDelivers \/ ClientSubmits
    BY <2>1 DEF PeerDelivers, ClientSubmits, AddTransaction, queueVars
  <2>2. CASE SubmitTx
    BY <2>2 DEF SubmitTx, MempoolUnlocked
  <2>3. CASE SubmitTxTooEarly \/ FillDivides
    BY <2>3 DEF SubmitTxTooEarly, FillDivides, MempoolUnlocked, mempoolVars, queueVars
  <2>4. CASE NothingToSubmit
    BY <2>4 DEF NothingToSubmit, queueVars
  <2>5. CASE StartTxSubmit
    BY <2>5, IdleTypes DEF StartTxSubmit, mempoolVars
  <2>6. CASE TakeNtn
    <3>1. Head(queue) \in Txs /\ Tail(queue) \in Seq(Txs)
      BY <2>6, QueueFacts DEF TakeNtn
    <3>2. [pc |-> "lock", tx |-> Head(queue), todo |-> {}] \in SubmitterState
      BY <3>1 DEF SubmitterState
    <3> QED
      BY <2>6, <3>1, <3>2, IdleTypes DEF TakeNtn, mempoolVars
  <2>7. CASE LockChans
    BY <2>7, IdleTypes DEF LockChans, LinkTypes, SubmitterState, mempoolVars
  <2>8. CASE TakeApi
    <3>1. Tail(queue) \in Seq(Txs)
      BY <2>8, QueueFacts DEF TakeApi
    <3> QED
      BY <2>8, <3>1 DEF TakeApi, mempoolVars, SubmitterState
  <2>10. CASE ApiAnswers
    BY <2>10, IdleTypes DEF ApiAnswers, mempoolVars
  <2>9. CASE RemoveExpired \/ \E t \in Txs : RemoveTransaction(t)
    BY <2>9 DEF RemoveExpired, RemoveTransaction, queueVars
  <2> QED
    BY <2>1, <2>2, <2>3, <2>4, <2>5, <2>6, <2>7, <2>8, <2>9, <2>10
<1> QED
  BY <1>2, <1>3, <1>4

-----------------------------------------------------------------------------
(* Steps of one connection                                                 *)

LinkOK(p) == ClientOK(p) /\ RelayOK(p) /\ (p \notin early => LifeOK(p) /\ KeptOK(p))

\* A step changes nothing of the connection to q.
SameLink(q) ==
    /\ chan'[q] = chan[q] /\ relayed'[q] = relayed[q] /\ announced'[q] = announced[q]
    /\ handler'[q] = handler[q] /\ cache'[q] = cache[q] /\ sinceAck'[q] = sinceAck[q]
    /\ setup'[q] = setup[q] /\ callback'[q] = callback[q] /\ hosts' = hosts
    /\ q \in registered' <=> q \in registered
    /\ q \in outboundConns' <=> q \in outboundConns
    /\ q \in cached' <=> q \in cached
    /\ q \in sleeping' <=> q \in sleeping
    /\ q \in up' <=> q \in up
    /\ q \in started' <=> q \in started
    /\ q \in early' <=> q \in early

\* A step of one connection keeps the others.
LEMMA OneLink ==
    ASSUME LinksInv, ~panicked, NEW p \in Peers, LinkOK(p)',
           \A q \in Peers : q # p => SameLink(q)
    PROVE  LinksInv'
<1>1. ASSUME NEW q \in Peers, q # p PROVE LinkOK(q)'
  <2>1. SameLink(q) /\ ClientOK(q) /\ RelayOK(q) /\ (q \notin early => LifeOK(q) /\ KeptOK(q))
    BY <1>1 DEF LinksInv
  <2>2. ClientOK(q)'
    BY <2>1 DEF SameLink, ClientOK
  <2>3. RelayOK(q)'
    BY <2>1 DEF SameLink, RelayOK
  <2>4. q \notin early' => LifeOK(q)' /\ KeptOK(q)'
    BY <2>1 DEF SameLink, LifeOK, KeptOK
  <2> QED
    BY <2>2, <2>3, <2>4 DEF LinkOK
<1>2. \A q \in Peers : LinkOK(q)'
  BY <1>1
<1> QED
  BY <1>2 DEF LinksInv, LinkOK

\* createOutboundConnection, connectionManagerConnClosed and
\* reconnectOutboundConnection, except for the cleanup.
LEMMA DialStep ==
    ASSUME LinkTypes, QueueTypes, LinksInv, PanicsAreNamed, ~panicked,
           NEW p \in Peers,
           \/ DialFails(p) \/ AddConnection(p) \/ TrackConnection(p)
           \/ RegisterChan(p) \/ StartClient(p) \/ CloseConnection(p)
           \/ ConnClosed(p) \/ Reconnect(p) \/ AcceptInbound(p) \/ CloseInbound(p)
    PROVE  LinkTypes' /\ QueueTypes' /\ LinksInv' /\ PanicsAreNamed'
<1> USE DEF mempoolVars, queueVars, connVars, dialVars, peerVars, boundVars
<1>1. UNCHANGED <<adding, queue, submitter, hosts, panicked, handler>>
  BY DEF DialFails, AddConnection, TrackConnection, RegisterChan, StartClient,
         CloseConnection, ConnClosed, Reconnect, AcceptInbound, CloseInbound
<1>2. QueueTypes' /\ PanicsAreNamed'
  <2>1. registered \subseteq registered'
    BY DEF DialFails, AddConnection, TrackConnection, RegisterChan, StartClient,
           CloseConnection, ConnClosed, Reconnect, AcceptInbound, CloseInbound
  <2> QED
    BY <1>1, <2>1 DEF QueueTypes, PanicsAreNamed
<1>3. ClientOK(p) /\ RelayOK(p) /\ (p \notin early => LifeOK(p) /\ KeptOK(p))
  BY DEF LinksInv
<1>4. <<>> \in Seq(Txs)
  BY EmptySeq
<1>5. ASSUME DialFails(p) PROVE LinkTypes' /\ LinksInv'
  <2>1. LinkTypes'
    BY <1>5 DEF DialFails, LinkTypes
  <2>2. \A q \in Peers : q # p => SameLink(q)
    BY <1>5 DEF DialFails, LinkTypes, SameLink
  <2>3. ClientOK(p)' /\ RelayOK(p)'
    BY <1>3, <1>5 DEF DialFails, LinkTypes, ClientOK, RelayOK
  <2>4. p \notin early' => LifeOK(p)' /\ KeptOK(p)'
    BY <1>3, <1>5 DEF DialFails, LinkTypes, LifeOK, KeptOK
  <2> QED
    BY <2>1, <2>2, <2>3, <2>4, OneLink DEF LinkOK
<1>6. ASSUME AddConnection(p) PROVE LinkTypes' /\ LinksInv'
  <2>1. LinkTypes'
    BY <1>6 DEF AddConnection, LinkTypes
  <2>2. \A q \in Peers : q # p => SameLink(q)
    BY <1>6 DEF AddConnection, LinkTypes, SameLink
  <2>3. ClientOK(p)' /\ RelayOK(p)'
    BY <1>3, <1>6 DEF AddConnection, LinkTypes, ClientOK, RelayOK
  <2>4. p \notin early' => LifeOK(p)' /\ KeptOK(p)'
    BY <1>3, <1>6 DEF AddConnection, LinkTypes, LifeOK, KeptOK
  <2> QED
    BY <2>1, <2>2, <2>3, <2>4, OneLink DEF LinkOK
<1>7. ASSUME TrackConnection(p) PROVE LinkTypes' /\ LinksInv'
  <2>1. LinkTypes'
    BY <1>7 DEF TrackConnection, LinkTypes
  <2>2. \A q \in Peers : q # p => SameLink(q)
    BY <1>7 DEF TrackConnection, LinkTypes, SameLink
  <2>3. ClientOK(p)' /\ RelayOK(p)'
    BY <1>3, <1>7 DEF TrackConnection, LinkTypes, ClientOK, RelayOK
  <2>4. p \notin early' => LifeOK(p)' /\ KeptOK(p)'
    BY <1>3, <1>7 DEF TrackConnection, LinkTypes, LifeOK, KeptOK
  <2> QED
    BY <2>1, <2>2, <2>3, <2>4, OneLink DEF LinkOK
<1>8. ASSUME RegisterChan(p) PROVE LinkTypes' /\ LinksInv'
  <2>1. LinkTypes'
    BY <1>4, <1>8 DEF RegisterChan, LinkTypes
  <2>2. \A q \in Peers : q # p => SameLink(q)
    BY <1>8 DEF RegisterChan, LinkTypes, SameLink
  <2>3. ClientOK(p)' /\ RelayOK(p)'
    BY <1>3, <1>8 DEF RegisterChan, LinkTypes, ClientOK, RelayOK
  <2>4. p \notin early' => LifeOK(p)' /\ KeptOK(p)'
    BY <1>3, <1>8 DEF RegisterChan, LinkTypes, LifeOK, KeptOK
  <2> QED
    BY <2>1, <2>2, <2>3, <2>4, OneLink DEF LinkOK
<1>9. ASSUME StartClient(p) PROVE LinkTypes' /\ LinksInv'
  <2>1. LinkTypes'
    BY <1>4, <1>9 DEF StartClient, LinkTypes
  <2>2. \A q \in Peers : q # p => SameLink(q)
    BY <1>9 DEF StartClient, LinkTypes, SameLink
  <2>3. /\ p \notin started /\ handler'[p].batch = <<>> /\ announced'[p] = <<>>
        /\ chan[p] \in Seq(Txs) /\ chan'[p] = chan[p] /\ relayed'[p] = relayed[p]
        /\ sinceAck'[p] = {} /\ p \in cached' /\ p \in started'
        /\ (p \in registered' <=> p \in registered)
        /\ setup[p] = "channel" /\ setup'[p] = "none"
    BY <1>3, <1>9 DEF StartClient, LinkTypes, ClientOK
  <2>4. <<>> \o <<>> \o chan[p] = chan[p]
    BY <2>3, ConcatEmptySeq
  <2>5. ClientOK(p)'
    BY <1>3, <1>9 DEF StartClient, LinkTypes, ClientOK
  <2>6. RelayOK(p)'
    BY <1>3, <2>3, <2>4 DEF RelayOK
  <2>7. p \notin early' => LifeOK(p)' /\ KeptOK(p)'
    BY <1>3, <1>9 DEF StartClient, LinkTypes, LifeOK, KeptOK
  <2> QED
    BY <2>1, <2>2, <2>5, <2>6, <2>7, OneLink DEF LinkOK
<1>10. ASSUME CloseConnection(p) PROVE LinkTypes' /\ LinksInv'
  <2>1. LinkTypes'
    BY <1>10 DEF CloseConnection, LinkTypes
  <2>2. \A q \in Peers : q # p => SameLink(q)
    BY <1>10 DEF CloseConnection, LinkTypes, SameLink
  <2>3. ClientOK(p)' /\ RelayOK(p)'
    BY <1>3, <1>10 DEF CloseConnection, LinkTypes, ClientOK, RelayOK
  <2>4. p \notin early' => LifeOK(p)' /\ KeptOK(p)'
    BY <1>3, <1>10 DEF CloseConnection, LinkTypes, LifeOK, KeptOK
  <2> QED
    BY <2>1, <2>2, <2>3, <2>4, OneLink DEF LinkOK
<1>11. ASSUME ConnClosed(p) PROVE LinkTypes' /\ LinksInv'
  <2>1. LinkTypes'
    BY <1>11 DEF ConnClosed, LinkTypes
  <2>2. \A q \in Peers : q # p => SameLink(q)
    BY <1>11 DEF ConnClosed, LinkTypes, SameLink
  <2>3. ClientOK(p)' /\ RelayOK(p)'
    BY <1>3, <1>11 DEF ConnClosed, LinkTypes, ClientOK, RelayOK
  <2>4. p \notin early' => LifeOK(p)' /\ KeptOK(p)'
    BY <1>3, <1>11 DEF ConnClosed, LinkTypes, LifeOK, KeptOK
  <2> QED
    BY <2>1, <2>2, <2>3, <2>4, OneLink DEF LinkOK
<1>12. ASSUME Reconnect(p) PROVE LinkTypes' /\ LinksInv'
  <2>1. LinkTypes'
    BY <1>12 DEF Reconnect, LinkTypes
  <2>2. \A q \in Peers : q # p => SameLink(q)
    BY <1>12 DEF Reconnect, LinkTypes, SameLink
  <2>3. ClientOK(p)' /\ RelayOK(p)'
    BY <1>3, <1>12 DEF Reconnect, LinkTypes, ClientOK, RelayOK, LifeOK
  <2>4. p \notin early' => LifeOK(p)' /\ KeptOK(p)'
    BY <1>3, <1>12 DEF Reconnect, LinkTypes, LifeOK, KeptOK
  <2> QED
    BY <2>1, <2>2, <2>3, <2>4, OneLink DEF LinkOK
<1>13. ASSUME AcceptInbound(p) PROVE LinkTypes' /\ LinksInv'
  BY <1>13, LinksUnchanged DEF AcceptInbound, LinkTypes
<1>14. ASSUME CloseInbound(p) PROVE LinkTypes' /\ LinksInv'
  <2>1. LinkTypes'
    BY <1>14 DEF CloseInbound, LinkTypes
  <2>2. \A q \in Peers : q # p => SameLink(q)
    BY <1>14 DEF CloseInbound, LinkTypes, SameLink
  <2>3. ClientOK(p)' /\ RelayOK(p)'
    BY <1>3, <1>14 DEF CloseInbound, LinkTypes, ClientOK, RelayOK
  <2>4. p \in early'
    BY <1>14 DEF CloseInbound
  <2> QED
    BY <2>1, <2>2, <2>3, <2>4, OneLink DEF LinkOK
<1> QED
  BY <1>2, <1>5, <1>6, <1>7, <1>8, <1>9, <1>10, <1>11, <1>12, <1>13, <1>14

\* connectionManagerConnClosed closes the channel of a connection.  When there
\* is none the process ends, and the connection closed while it was being set up.
LEMMA CleanUpStep ==
    ASSUME LinkTypes, QueueTypes, LinksInv, PanicsAreNamed, ~panicked,
           NEW p \in Peers, CleanUp(p)
    PROVE  LinkTypes' /\ QueueTypes' /\ LinksInv' /\ PanicsAreNamed'
<1> USE DEF mempoolVars, queueVars, dialVars, peerVars, boundVars
<1>1. ClientOK(p) /\ RelayOK(p) /\ (p \notin early => LifeOK(p) /\ KeptOK(p))
  BY DEF LinksInv
<1>2. LinkTypes' /\ QueueTypes'
  BY DEF CleanUp, ChansUnlocked, LinkTypes, QueueTypes
<1>3. PanicsAreNamed'
  <2>1. p \notin registered => p \in early
    BY <1>1 DEF CleanUp, KeptOK
  <2> QED
    BY <2>1 DEF CleanUp, PanicsAreNamed, boundVars
<1>4. \A q \in Peers : q # p => SameLink(q)
  BY DEF CleanUp, LinkTypes, SameLink
<1>5. ClientOK(p)' /\ RelayOK(p)'
  BY <1>1 DEF CleanUp, LinkTypes, ClientOK, RelayOK
<1>6. CASE p \in registered
  <2>1. p \notin early' => LifeOK(p)' /\ KeptOK(p)'
    BY <1>1, <1>6 DEF CleanUp, LinkTypes, LifeOK, KeptOK
  <2> QED
    BY <1>2, <1>3, <1>4, <1>5, <2>1, OneLink DEF LinkOK
<1>7. CASE p \notin registered
  <2>1. panicked'
    BY <1>7 DEF CleanUp
  <2>2. \A q \in Peers : q # p => ClientOK(q)' /\ RelayOK(q)'
    BY ZenonT(40), <1>4 DEF LinksInv, SameLink, ClientOK, RelayOK
  <2> QED
    BY <1>2, <1>3, <1>5, <2>1, <2>2 DEF LinksInv
<1> QED
  BY <1>6, <1>7

\* A request for ids moves a transaction from the channel to the batch and the
\* batch to what was announced; a send appends to the channel.
LEMMA SplitKept ==
    ASSUME NEW a \in Seq(Txs), NEW b \in Seq(Txs), NEW c \in Seq(Txs)
    PROVE  /\ \A t \in Txs : (a \o b) \o Append(c, t) = Append((a \o b) \o c, t)
           /\ c # <<>> => (a \o Append(b, Head(c))) \o Tail(c) = (a \o b) \o c
           /\ ((a \o b) \o <<>>) \o <<>> = (a \o b) \o <<>>
<1>1. a \o b \in Seq(Txs) /\ (a \o b) \o c \in Seq(Txs)
  BY ConcatProperties
<1>2. ASSUME NEW t \in Txs PROVE (a \o b) \o Append(c, t) = Append((a \o b) \o c, t)
  <2>1. \A s \in Seq(Txs) : Append(s, t) = s \o <<t>>
    OBVIOUS
  <2>2. <<t>> \in Seq(Txs)
    OBVIOUS
  <2> QED
    BY <1>1, <2>1, <2>2, ConcatAssociative
<1>3. ASSUME c # <<>> PROVE (a \o Append(b, Head(c))) \o Tail(c) = (a \o b) \o c
  <2> DEFINE h == Head(c)
             r == Tail(c)
  <2>1. h \in Txs /\ r \in Seq(Txs) /\ c = <<h>> \o r
    BY <1>3, QueueFacts
  <2> HIDE DEF h, r
  <2>2. <<h>> \in Seq(Txs) /\ Append(b, h) = b \o <<h>>
    BY <2>1
  <2>3. a \o (b \o <<h>>) = (a \o b) \o <<h>>
    BY <2>2, ConcatAssociative
  <2>4. ((a \o b) \o <<h>>) \o r = (a \o b) \o (<<h>> \o r)
    BY <1>1, <2>1, <2>2, ConcatAssociative
  <2> QED
    BY <2>1, <2>2, <2>3, <2>4 DEF h, r
<1>4. ((a \o b) \o <<>>) \o <<>> = (a \o b) \o <<>>
  BY <1>1, ConcatEmptySeq
<1> QED
  BY <1>2, <1>3, <1>4

\* AddOutboundTransaction and txsubmissionClientRequestTxIds.
LEMMA RelayStep ==
    ASSUME LinkTypes, QueueTypes, LinksInv, PanicsAreNamed, ~panicked,
           NEW p \in Peers,
           \/ SendOutbound(p) \/ LookupChan(p) \/ ReceiveTx(p) \/ ReturnTxIds(p)
           \/ \E ack \in 0..Len(outstanding[p]) : RequestTxIds(p, ack)
    PROVE  LinkTypes' /\ QueueTypes' /\ LinksInv' /\ PanicsAreNamed'
<1> USE DEF mempoolVars, queueVars, connVars, dialVars, boundVars
<1>1. /\ UNCHANGED <<adding, queue, hosts, setup, sleeping, up, started, callback,
                     early, registered, outboundConns>>
      /\ ~panicked'
  <2>1. UNCHANGED <<adding, queue, hosts, setup, sleeping, up, started, callback,
                    early, registered, outboundConns>>
    BY DEF SendOutbound, LookupChan, ReceiveTx, ReturnTxIds, RequestTxIds
  <2>2. CASE SendOutbound(p)
    <3>1. p \in registered /\ (panicked' <=> p \notin registered)
      BY <2>2, Zenon DEF SendOutbound, QueueTypes
    <3> QED
      BY <2>1, <3>1
  <2>3. CASE ~SendOutbound(p)
    <3>1. panicked' = panicked
      BY <2>3 DEF LookupChan, ReceiveTx, ReturnTxIds, RequestTxIds
    <3> QED
      BY <2>1, <3>1, Zenon
  <2> QED
    BY <2>2, <2>3
<1>2. ClientOK(p) /\ RelayOK(p) /\ (p \notin early => LifeOK(p) /\ KeptOK(p))
  BY DEF LinksInv
<1>3. p \notin early' => LifeOK(p)' /\ KeptOK(p)'
  BY <1>1, <1>2 DEF LifeOK, KeptOK
<1>4. /\ chan[p] \in Seq(Txs) /\ relayed[p] \in Seq(Txs) /\ announced[p] \in Seq(Txs)
      /\ handler[p] \in HandlerState /\ handler[p].batch \in Seq(Txs)
      /\ cache[p] \in SUBSET Txs /\ sinceAck[p] \in SUBSET Txs
  BY DEF LinkTypes, HandlerState
<1>5. ASSUME SendOutbound(p) PROVE LinkTypes' /\ QueueTypes' /\ LinksInv' /\ PanicsAreNamed'
  <2>1. submitter.tx \in Txs
    BY <1>5 DEF SendOutbound, QueueTypes
  <2>2. /\ Append(chan[p], submitter.tx) \in Seq(Txs)
        /\ Append(relayed[p], submitter.tx) \in Seq(Txs)
    BY <1>4, <2>1
  <2>3. LinkTypes'
    BY <1>5, <2>2 DEF SendOutbound, LinkTypes, peerVars
  <2>4. /\ submitter' \in SubmitterState
        /\ submitter'.pc \in {"lock", "send"} => submitter'.tx \in Txs
        /\ submitter'.pc = "send" => submitter'.todo \subseteq registered
    BY <1>5, <2>1, IdleTypes DEF SendOutbound, QueueTypes, SubmitterState
  <2>5. QueueTypes' /\ PanicsAreNamed'
    BY <1>1, <2>4 DEF QueueTypes, PanicsAreNamed
  <2>6. \A q \in Peers : q # p => SameLink(q)
    BY <1>1, <1>5 DEF SendOutbound, LinkTypes, SameLink, peerVars
  <2>7. /\ chan'[p] = Append(chan[p], submitter.tx)
        /\ relayed'[p] = Append(relayed[p], submitter.tx)
        /\ UNCHANGED <<handler, announced, cache, cached, sinceAck>>
    BY <1>5 DEF SendOutbound, LinkTypes, peerVars
  <2>8. ClientOK(p)'
    BY <1>1, <1>2, <2>7 DEF ClientOK
  <2>9. (announced[p] \o handler[p].batch) \o Append(chan[p], submitter.tx)
          = Append((announced[p] \o handler[p].batch) \o chan[p], submitter.tx)
    <3>1. \A t \in Txs : (announced[p] \o handler[p].batch) \o Append(chan[p], t)
                           = Append((announced[p] \o handler[p].batch) \o chan[p], t)
      BY <1>4, SplitKept, Zenon
    <3> QED
      BY <2>1, <3>1, Zenon
  <2>10. RelayOK(p)'
    BY <1>1, <1>2, <2>7, <2>9 DEF RelayOK
  <2> QED
    BY <1>3, <2>3, <2>5, <2>6, <2>8, <2>10, OneLink DEF LinkOK
<1>6. ASSUME UNCHANGED submitter PROVE QueueTypes' /\ PanicsAreNamed'
  BY <1>1, <1>6 DEF QueueTypes, PanicsAreNamed
<1>7. ASSUME LookupChan(p) PROVE LinkTypes' /\ LinksInv'
  <2>1. LinkTypes'
    <3>1. [handler[p] EXCEPT !.pc = "receive"] \in HandlerState
      BY <1>4 DEF HandlerState
    <3> QED
      BY <1>7, <3>1, IdleTypes DEF LookupChan, LinkTypes
  <2>2. \A q \in Peers : q # p => SameLink(q)
    BY <1>1, <1>7 DEF LookupChan, LinkTypes, SameLink
  <2>3. /\ handler[p].pc = "lookup"
        /\ UNCHANGED <<chan, relayed, announced, cache, cached, sinceAck>>
        /\ handler'[p].batch = <<>> /\ (handler'[p].pc # "idle" => p \in started)
    BY <1>2, <1>4, <1>7, IdleTypes DEF LookupChan, LinkTypes, ClientOK, HandlerState
  <2>4. handler[p].batch = <<>>
    BY <1>2, <2>3 DEF ClientOK
  <2>5. ClientOK(p)' /\ RelayOK(p)'
    BY <1>1, <1>2, <2>3, <2>4 DEF ClientOK, RelayOK
  <2> QED
    BY <1>3, <2>1, <2>2, <2>5, OneLink DEF LinkOK
<1>8. ASSUME ReceiveTx(p) PROVE LinkTypes' /\ LinksInv'
  <2> DEFINE h == Head(chan[p])
  <2>1. h \in Txs /\ Tail(chan[p]) \in Seq(Txs) /\ chan[p] # <<>>
    BY <1>4, <1>8, QueueFacts DEF ReceiveTx
  <2> HIDE DEF h
  <2>2. handler' = [handler EXCEPT ![p].batch = Append(@, h)]
    BY <1>8 DEF ReceiveTx, h
  <2>3. Append(handler[p].batch, h) \in Seq(Txs)
    BY <1>4, <2>1
  <2>4. LinkTypes'
    <3>1. handler' \in [Peers -> HandlerState]
      BY <2>2, <2>3 DEF LinkTypes, HandlerState
    <3> QED
      BY <1>8, <2>1, <3>1 DEF ReceiveTx, LinkTypes
  <2>5. \A q \in Peers : q # p => SameLink(q)
    BY <1>1, <1>8 DEF ReceiveTx, LinkTypes, SameLink
  <2>6. /\ chan'[p] = Tail(chan[p]) /\ handler[p].pc = "receive"
        /\ handler'[p].pc = "receive"
        /\ handler'[p].batch = Append(handler[p].batch, h)
        /\ UNCHANGED <<relayed, announced, cache, cached, sinceAck>>
    BY <1>4, <1>8, <2>2 DEF ReceiveTx, LinkTypes, HandlerState
  <2>7. (announced[p] \o Append(handler[p].batch, h)) \o Tail(chan[p])
          = (announced[p] \o handler[p].batch) \o chan[p]
    BY ZenonT(40), <1>4, <2>1, SplitKept DEF h
  <2>8. ClientOK(p)'
    BY <1>1, <1>2, <2>6 DEF ClientOK
  <2>9. p \in started /\ setup[p] # "channel"
    BY <1>2, <2>6 DEF ClientOK
  <2>10. RelayOK(p)'
    BY <1>1, <1>2, <2>6, <2>7, <2>9 DEF RelayOK
  <2> QED
    BY <1>3, <2>4, <2>5, <2>8, <2>10, OneLink DEF LinkOK
<1>9. ASSUME ReturnTxIds(p) PROVE LinkTypes' /\ LinksInv'
  <2> DEFINE b == handler[p].batch
             ids == {b[i] : i \in DOMAIN b}
  <2>1. /\ chan[p] = <<>> /\ handler[p].pc = "receive"
        /\ cache' = [cache EXCEPT ![p] = IF p \in cached THEN @ \cup ids ELSE @]
        /\ announced' = [announced EXCEPT ![p] = @ \o b]
        /\ sinceAck' = [sinceAck EXCEPT ![p] = @ \cup ids]
        /\ handler' = [handler EXCEPT ![p] = IdleHandler]
        /\ UNCHANGED <<chan, relayed, cached>>
    BY <1>9 DEF ReturnTxIds
  <2>2. b \in Seq(Txs) /\ ids \in SUBSET Txs
    BY <1>4
  <2> HIDE DEF b, ids
  <2>3. announced[p] \o b \in Seq(Txs)
    BY <1>4, <2>2, ConcatProperties
  <2>4. LinkTypes'
    BY <1>1, <1>4, <2>1, <2>2, <2>3, IdleTypes DEF LinkTypes
  <2>5. \A q \in Peers : q # p => SameLink(q)
    BY <1>1, <2>1 DEF LinkTypes, SameLink
  <2>6. /\ handler'[p] = IdleHandler /\ announced'[p] = announced[p] \o b
        /\ sinceAck'[p] = sinceAck[p] \cup ids
        /\ (p \in cached => cache'[p] = cache[p] \cup ids)
    BY <2>1 DEF LinkTypes
  <2>7. ((announced[p] \o b) \o <<>>) \o <<>> = (announced[p] \o b) \o <<>>
    BY <1>4, <2>2, SplitKept
  <2>8. ClientOK(p)' /\ p \in started /\ setup[p] # "channel"
    BY <1>1, <1>2, <2>1, <2>6, IdleTypes DEF ClientOK
  <2>9. RelayOK(p)'
    <3>1. ASSUME p \in registered
          PROVE  /\ relayed'[p] = announced'[p] \o handler'[p].batch \o chan'[p]
                 /\ p \in cached' /\ sinceAck'[p] \subseteq cache'[p]
      <4>1. /\ relayed[p] = announced[p] \o b \o <<>>
            /\ p \in cached /\ sinceAck[p] \subseteq cache[p]
        BY <1>2, <2>1, <2>8, <3>1 DEF RelayOK, b
      <4> QED
        BY <2>1, <2>6, <2>7, <4>1, IdleTypes
    <3> QED
      BY <1>1, <2>8, <3>1 DEF RelayOK
  <2> QED
    BY <1>3, <2>4, <2>5, <2>8, <2>9, OneLink DEF LinkOK
<1>10. ASSUME NEW ack \in 0..Len(outstanding[p]), RequestTxIds(p, ack)
       PROVE  LinkTypes' /\ LinksInv'
  <2> DEFINE n == [pc |-> "lookup", batch |-> <<>>, blocking |-> ack = Len(outstanding[p])]
  <2>1. /\ handler' = [handler EXCEPT ![p] = n] /\ p \in started /\ handler[p].pc = "idle"
        /\ UNCHANGED <<chan, relayed, announced>>
        /\ \/ /\ cache' = [cache EXCEPT ![p] = {}] /\ cached' = cached \cup {p}
              /\ sinceAck' = [sinceAck EXCEPT ![p] = {}]
           \/ UNCHANGED <<cache, cached, sinceAck>>
    BY <1>10 DEF RequestTxIds
  <2>2. n \in HandlerState /\ n.pc = "lookup" /\ n.batch = <<>>
    <3>1. (ack = Len(outstanding[p])) \in BOOLEAN
      OBVIOUS
    <3>2. <<>> \in Seq(Txs)
      BY EmptySeq
    <3> QED
      BY <3>1, <3>2 DEF HandlerState
  <2> HIDE DEF n
  <2>3. LinkTypes'
    BY <1>1, <2>1, <2>2 DEF LinkTypes
  <2>4. \A q \in Peers : q # p => SameLink(q)
    BY <1>1, <2>1 DEF LinkTypes, SameLink
  <2>5. handler'[p] = n /\ handler[p].batch = <<>>
    BY <1>2, <2>1 DEF LinkTypes, ClientOK
  <2>6. ClientOK(p)'
    BY <1>1, <1>2, <2>1, <2>2, <2>5 DEF ClientOK
  <2>7. RelayOK(p)'
    <3>1. p \in registered => p \in cached' /\ sinceAck'[p] \subseteq cache'[p]
      BY <1>2, <2>1 DEF RelayOK, LinkTypes
    <3> QED
      BY <1>1, <1>2, <2>1, <2>2, <2>5, <3>1 DEF RelayOK
  <2> QED
    BY <1>3, <2>3, <2>4, <2>6, <2>7, OneLink DEF LinkOK
<1>11. ASSUME \/ LookupChan(p) \/ ReceiveTx(p) \/ ReturnTxIds(p)
              \/ \E ack \in 0..Len(outstanding[p]) : RequestTxIds(p, ack)
       PROVE  UNCHANGED submitter
  BY <1>11 DEF LookupChan, ReceiveTx, ReturnTxIds, RequestTxIds
<1> QED
  BY <1>5, <1>6, <1>7, <1>8, <1>9, <1>10, <1>11
-----------------------------------------------------------------------------
(* The theorems                                                            *)

\* Nothing is connected when the node starts, and every host is being dialled.
LEMMA RelayInit == Init => RelayInv
<1> SUFFICES ASSUME Init PROVE RelayInv
  OBVIOUS
<1>1. hosts \subseteq Peers
  BY RelayAssumption DEF Init
<1>2. <<>> \in Seq(Txs)
  BY EmptySeq
<1>3. LinkTypes
  BY <1>2, IdleTypes DEF Init, LinkTypes
<1>4. QueueTypes
  <2>1. submitter \in SubmitterState /\ submitter.pc = "unset"
    BY DEF Init, IdleSubmitter, SubmitterState
  <2> QED
    BY <1>2, <2>1 DEF Init, QueueTypes
<1>5. ASSUME NEW p \in Peers
      PROVE  ClientOK(p) /\ RelayOK(p) /\ LifeOK(p) /\ KeptOK(p)
  <2>1. ClientOK(p) /\ RelayOK(p)
    BY IdleTypes DEF Init, ClientOK, RelayOK
  <2>2. LifeOK(p) /\ KeptOK(p)
    BY DEF Init, LifeOK, KeptOK
  <2> QED
    BY <2>1, <2>2
<1> QED
  BY <1>1, <1>3, <1>4, <1>5 DEF Init, RelayInv, LinksInv, PanicsAreNamed

\* The topology is read once.
LEMMA HostsFixed == Next => UNCHANGED hosts
  BY DEF Next, Working, Environment, PeerDelivers, ClientSubmits, AddTransaction,
         SubmitTx, SubmitTxTooEarly, FillDivides, NothingToSubmit, StartTxSubmit,
         TakeNtn, LockChans, TakeApi, ApiAnswers, RemoveExpired, RemoveTransaction, SendOutbound,
         TrackConnection, RegisterChan, StartClient, ConnClosed, CleanUp,
         LookupChan, ReceiveTx, ReturnTxIds, DialFails, AddConnection, Reconnect,
         CloseConnection, AcceptInbound, CloseInbound, RequestTxIds, queueVars

\* Every step keeps the invariant.
LEMMA RelayNext == RelayInv /\ [Next]_vars => RelayInv'
<1> SUFFICES ASSUME RelayInv, [Next]_vars PROVE RelayInv'
  OBVIOUS
<1>1. CASE Next
  <2>1. ~panicked /\ (Working \/ Environment) /\ hosts' \subseteq Peers
    BY <1>1, HostsFixed DEF Next, RelayInv
  <2>2. /\ LinkTypes /\ QueueTypes /\ LinksInv /\ PanicsAreNamed
    BY DEF RelayInv
  <2> DEFINE Goal == LinkTypes' /\ QueueTypes' /\ LinksInv' /\ PanicsAreNamed'
  <2>3. ASSUME \/ PeerDelivers \/ ClientSubmits \/ SubmitTx \/ SubmitTxTooEarly
               \/ FillDivides \/ NothingToSubmit \/ StartTxSubmit \/ TakeNtn
               \/ LockChans \/ TakeApi \/ ApiAnswers
               \/ RemoveExpired \/ \E t \in Txs : RemoveTransaction(t)
        PROVE  Goal
    BY <2>1, <2>2, <2>3, QueueStep
  <2>4. ASSUME NEW p \in Peers,
               \/ DialFails(p) \/ AddConnection(p) \/ TrackConnection(p)
               \/ RegisterChan(p) \/ StartClient(p) \/ CloseConnection(p)
               \/ ConnClosed(p) \/ Reconnect(p) \/ AcceptInbound(p) \/ CloseInbound(p)
        PROVE  Goal
    BY <2>1, <2>2, <2>4, DialStep
  <2>5. ASSUME NEW p \in Peers, CleanUp(p) PROVE Goal
    BY <2>1, <2>2, <2>5, CleanUpStep
  <2>6. ASSUME NEW p \in Peers,
               \/ SendOutbound(p) \/ LookupChan(p) \/ ReceiveTx(p) \/ ReturnTxIds(p)
               \/ \E ack \in 0..Len(outstanding[p]) : RequestTxIds(p, ack)
        PROVE  Goal
    BY <2>1, <2>2, <2>6, RelayStep
  <2> HIDE DEF Goal
  <2>7. Goal
    BY <2>1, <2>3, <2>4, <2>5, <2>6 DEF Working, Environment
  <2> QED
    BY <2>1, <2>7 DEF RelayInv, Goal
<1>2. CASE UNCHANGED vars
  <2>1. UNCHANGED <<adding, hosts, queue, submitter, outboundConns, registered, chan,
                    cached, cache, setup, sleeping, up, started, callback, handler,
                    announced, sinceAck, panicked, relayed, early>>
    BY <1>2 DEF vars, mempoolVars, queueVars, connVars, dialVars, peerVars, boundVars
  <2>2. hosts' \subseteq Peers /\ LinkTypes' /\ QueueTypes' /\ PanicsAreNamed'
    BY <2>1 DEF RelayInv, LinkTypes, QueueTypes, PanicsAreNamed
  <2>3. \A p \in Peers : /\ ClientOK(p)' <=> ClientOK(p)
                         /\ RelayOK(p)' <=> RelayOK(p)
    BY <2>1 DEF ClientOK, RelayOK
  <2>4. \A p \in Peers : /\ LifeOK(p)' <=> LifeOK(p)
                         /\ KeptOK(p)' <=> KeptOK(p)
    BY <2>1 DEF LifeOK, KeptOK
  <2>5. LinksInv'
    BY <2>1, <2>3, <2>4 DEF RelayInv, LinksInv
  <2> QED
    BY <2>2, <2>5 DEF RelayInv
<1> QED
  BY <1>1, <1>2

\* The node's goroutines, its peers, clients and the chain keep the invariant,
\* however their steps interleave.
THEOREM RelayCorrect == Spec => []RelayInv
  BY RelayInit, RelayNext, PTL DEF Spec

\* What AddOutboundTransaction sends on the channel of a connection is
\* announced by txsubmissionClientRequestTxIds once and in order.
THEOREM RelayedInOrder == Spec => []RelayedOnceInOrder
<1>1. RelayInv => RelayedOnceInOrder
  BY DEF RelayInv, LinkTypes, LinksInv, RelayOK, RelayedOnceInOrder
<1> QED
  BY <1>1, RelayCorrect, PTL

\* txsubmissionClientRequestTxs has the body of what an open connection
\* announced and the peer did not acknowledge.
THEOREM BodiesServed == Spec => []AnnouncedHasBody
<1>1. RelayInv => AnnouncedHasBody
  BY DEF RelayInv, LinkTypes, LinksInv, RelayOK, AnnouncedHasBody, RequestTxs
<1> QED
  BY <1>1, RelayCorrect, PTL

\* The process ends because a fill is submitted too early, because building it
\* divides by zero, or because a channel is closed that a peer does not have,
\* and then a connection of this peer closed without one.
THEOREM PanicsHaveACause == Spec => []PanicsAreNamed
<1>1. RelayInv => PanicsAreNamed
  BY DEF RelayInv
<1> QED
  BY <1>1, RelayCorrect, PTL

\* A configured host is connected, dialled or about to be, unless a connection
\* of it closed without a channel.
THEOREM NoPeerLost == Spec => []PeersAreRedialled
<1>1. RelayInv => PeersAreRedialled
  BY DEF RelayInv, LinksInv, KeptOK, PeersAreRedialled
<1> QED
  BY <1>1, RelayCorrect, PTL
=============================================================================
