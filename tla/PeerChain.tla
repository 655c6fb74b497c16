----------------------------- MODULE PeerChain -----------------------------
(***************************************************************************)
(* The chain-sync server of the node (chainsync.go): the recent blocks the *)
(* indexer's handler keeps, and the peers that follow them.                *)
(*                                                                         *)
(* AddBlock and Rollback hold the lock while they send to every            *)
(* subscriber, one after the other, and wait for room; Sub and Unsub need  *)
(* the lock.  A client intersects before it asks for blocks.  The tip that *)
(* accompanies a reply is left out.                                        *)
(***************************************************************************)
EXTENDS Integers, Sequences, SequencesExt

CONSTANTS
    Peers,
    Blocks, Genesis,
    Parent, Slot,       \* the block before a block; the slot of a block
    MaxRecent,          \* maxRecentBlocks
    BufferSize,         \* clientBlockBufferSize
    None,
    MaxConnects         \* bound of the model

ASSUME BufferAssumption ==
    MaxRecent \in Nat \ {0} /\ BufferSize \in Nat /\ MaxRecent <= BufferSize

VARIABLES
    \* chainsyncClientState, and the item being sent to subscribers
    recentBlocks, subs, publishing,
    \* chainsyncServerState of a connection
    blockChan, intersection, needsInitialRollback,
    \* connections, their handlers: an intersection found, a goroutine that
    \* awaits a block
    conns, found, awaiting,
    \* the client's chain
    view,
    \* history: clients that missed something, rollbacks to or behind the
    \* intersection of a client, clients that subscribed after a block that
    \* follows their intersection had left the recent blocks, connections
    cutOff, deep, outrun, connects

serverVars == <<recentBlocks, subs, publishing>>
connVars   == <<blockChan, intersection, needsInitialRollback, conns,
                found, awaiting>>
peerVars   == <<serverVars, connVars, view, cutOff, deep, outrun, connects>>

\* The chain that ends with a block.
PathTo[b \in Blocks] ==
    IF Parent[b] = Genesis THEN <<b>> ELSE Append(PathTo[Parent[b]], b)
Path(b) == IF b = Genesis THEN <<>> ELSE PathTo[b]

SlotOf(b) == IF b = Genesis THEN 0 ELSE Slot[b]

\* Blocks form a tree, along which slots grow.
ASSUME TreeAssumption ==
    /\ Genesis \notin Blocks /\ None \notin Blocks
    /\ Parent \in [Blocks -> Blocks \cup {Genesis}]
    /\ Slot \in [Blocks -> Nat]
    /\ \A b \in Blocks : SlotOf(Parent[b]) < SlotOf(b)

\* Without the first block newer than the slot and all that follow it.
UpTo(slot, chain) ==
    LET newer == {i \in 1..Len(chain) : SlotOf(chain[i]) > slot}
    IN  IF newer = {} THEN chain
        ELSE SubSeq(chain, 1, Min(newer) - 1)

NotPublishing == [item |-> None, todo |-> {}]
BlockItem(b) == [rollback |-> FALSE, block |-> b]
RollbackItem(b) == [rollback |-> TRUE, block |-> b]

PeerInit ==
    /\ recentBlocks = <<>> /\ subs = {} /\ publishing = NotPublishing
    /\ blockChan = [p \in Peers |-> <<>>]
    /\ intersection = [p \in Peers |-> Genesis]
    /\ needsInitialRollback = {} /\ awaiting = {} /\ conns = {}
    /\ found = [p \in Peers |-> None]
    /\ view = [p \in Peers |-> <<>>]
    /\ cutOff = {} /\ deep = {} /\ outrun = {} /\ connects = 0

\* The process ended: the connections are gone.
PeersGone ==
    /\ recentBlocks' = <<>> /\ subs' = {} /\ publishing' = NotPublishing
    /\ blockChan' = [p \in Peers |-> <<>>]
    /\ intersection' = [p \in Peers |-> Genesis]
    /\ needsInitialRollback' = {} /\ awaiting' = {} /\ conns' = {}
    /\ found' = [p \in Peers |-> None]
    /\ view' = [p \in Peers |-> <<>>]
    /\ cutOff' = {} /\ deep' = {} /\ outrun' = {}
    /\ UNCHANGED connects

Unlocked == publishing = NotPublishing

-----------------------------------------------------------------------------
(* The indexer's handler                                                   *)

Publish(item) ==
    publishing' = IF subs = {} THEN NotPublishing
                  ELSE [item |-> item, todo |-> subs]

AddBlock(b) ==
    /\ Unlocked
    /\ LET all == Append(recentBlocks, b)
           over == Len(all) - MaxRecent
       IN  IF over > 0
           THEN /\ recentBlocks' = SubSeq(all, over + 1, Len(all))
                /\ outrun' = outrun \cup
                     {p \in Peers : found[p] # None
                                      /\ SlotOf(all[over]) > SlotOf(found[p])}
           ELSE recentBlocks' = all /\ UNCHANGED outrun
    /\ Publish(BlockItem(b))
    /\ UNCHANGED <<subs, connVars, view, cutOff, deep, connects>>

Rollback(b) ==
    /\ Unlocked
    /\ recentBlocks' = UpTo(SlotOf(b), recentBlocks)
    /\ Publish(RollbackItem(b))
    /\ deep' = deep \cup
         {p \in Peers : \/ p \in subs /\ SlotOf(b) <= SlotOf(intersection[p])
                        \/ found[p] # None /\ SlotOf(b) <= SlotOf(found[p])}
    /\ UNCHANGED <<subs, connVars, view, cutOff, outrun, connects>>

\* A subscriber's full channel keeps the indexer waiting.
PublishTo(p) ==
    /\ p \in publishing.todo
    /\ Len(blockChan[p]) < BufferSize
    /\ blockChan' = [blockChan EXCEPT ![p] = Append(@, publishing.item)]
    /\ publishing' = IF publishing.todo = {p} THEN NotPublishing
                     ELSE [publishing EXCEPT !.todo = @ \ {p}]
    /\ UNCHANGED <<recentBlocks, subs, intersection, needsInitialRollback,
                   conns, found, awaiting, view, cutOff, deep, outrun, connects>>

-----------------------------------------------------------------------------
(* The server's handlers                                                   *)

\* acceptConnections: a connection gets its handlers.
Accept(p) ==
    /\ p \notin conns \cup subs /\ found[p] = None
    /\ connects < MaxConnects
    /\ connects' = connects + 1
    /\ conns' = conns \cup {p}
    /\ cutOff' = cutOff \ {p} /\ deep' = deep \ {p} /\ outrun' = outrun \ {p}
    /\ UNCHANGED <<serverVars, blockChan, intersection, needsInitialRollback,
                   found, awaiting, view>>

\* chainsyncServerFindIntersect reads the recent blocks without the lock.
FindIntersect(p, b) ==
    /\ p \in conns \ subs /\ found[p] = None
    /\ b \in ToSet(recentBlocks)
    /\ found' = [found EXCEPT ![p] = b]
    /\ view' = [view EXCEPT ![p] = Path(b)]
    /\ UNCHANGED <<serverVars, blockChan, intersection, needsInitialRollback,
                   conns, awaiting, cutOff, deep, outrun, connects>>

\* The recent blocks go on from a block: it is one of them, or just before.
Continues(b) ==
    \/ b \in ToSet(recentBlocks)
    \/ recentBlocks # <<>> /\ Parent[recentBlocks[1]] = b

\* chainsyncServerStateInit: Sub sends the recent blocks to the new channel.
StateInit(p) ==
    /\ found[p] # None
    /\ Unlocked
    /\ subs' = subs \cup {p}
    /\ blockChan' = [blockChan EXCEPT
                      ![p] = [i \in 1..Len(recentBlocks) |->
                                BlockItem(recentBlocks[i])]]
    /\ intersection' = [intersection EXCEPT ![p] = found[p]]
    /\ needsInitialRollback' = needsInitialRollback \cup {p}
    /\ found' = [found EXCEPT ![p] = None]
    /\ cutOff' = IF Continues(found[p]) THEN cutOff ELSE cutOff \cup {p}
    /\ UNCHANGED <<recentBlocks, publishing, conns, awaiting, view, deep, outrun,
                   connects>>

\* What a client makes of a message.
Apply(chain, item) ==
    IF item.rollback THEN UpTo(SlotOf(item.block), chain)
    ELSE Append(chain, item.block)

\* Everything not newer than the intersection is skipped, and the intersection
\* is never moved.
Skipped_none(p) == 0    \* mutant: nothing is skipped
Skipped_past(p) ==    \* mutant: the first newer item is skipped too
    Cardinality({i \in 1..Len(blockChan[p]) :
                   SlotOf(blockChan[p][i].block) <= SlotOf(intersection[p]) + 1})
Skipped(p) ==
    LET newer == {i \in 1..Len(blockChan[p]) :
                    SlotOf(blockChan[p][i].block) > SlotOf(intersection[p])}
    IN  IF newer = {} THEN Len(blockChan[p])
        ELSE Min(newer) - 1

\* The client needed one of the skipped items.
Missed(p) ==
    \E i \in 1..Skipped(p) :
        LET item == blockChan[p][i]
        IN  IF item.rollback THEN Apply(view[p], item) # view[p]
            ELSE item.block \notin ToSet(view[p])

\* chainsyncServerRequestNext: at first a roll-backward to the intersection,
\* then the next item, or a promise to send it.
RequestNext(p) ==
    /\ p \in (conns \cap subs) \ awaiting
    /\ IF p \in needsInitialRollback
       THEN /\ needsInitialRollback' = needsInitialRollback \ {p}
            /\ view' = [view EXCEPT
                         ![p] = UpTo(SlotOf(intersection[p]), @)]
            /\ UNCHANGED <<blockChan, awaiting, cutOff>>
       ELSE LET n == Skipped(p)
                rest == SubSeq(blockChan[p], n + 1, Len(blockChan[p]))
            IN  /\ cutOff' = IF Missed(p) THEN cutOff \cup {p} ELSE cutOff
                /\ IF rest = <<>>
                   THEN /\ awaiting' = awaiting \cup {p}
                        /\ blockChan' = [blockChan EXCEPT ![p] = <<>>]
                        /\ UNCHANGED view
                   ELSE /\ blockChan' = [blockChan EXCEPT ![p] = Tail(rest)]
                        /\ view' = [view EXCEPT ![p] = Apply(@, Head(rest))]
                        /\ UNCHANGED awaiting
                /\ UNCHANGED needsInitialRollback
    /\ UNCHANGED <<serverVars, intersection, conns, found, deep, outrun, connects>>

\* The goroutine that awaits an item sends it, whatever its slot.
SendAwaited(p) ==
    /\ p \in awaiting
    /\ blockChan[p] # <<>>
    /\ awaiting' = awaiting \ {p}
    /\ blockChan' = [blockChan EXCEPT ![p] = Tail(@)]
    /\ view' = [view EXCEPT ![p] = Apply(@, Head(blockChan[p]))]
    /\ UNCHANGED <<serverVars, intersection, needsInitialRollback, conns,
                   found, cutOff, deep, outrun, connects>>

\* connectionManagerConnClosed: Unsub, and the server's state is removed.  A
\* connection that closes while its intersection is being set up is subscribed
\* afterwards, and nobody reads its channel.
Disconnect(p) ==
    /\ p \in conns
    /\ p \in subs => Unlocked
    /\ conns' = conns \ {p}
    /\ subs' = subs \ {p}
    /\ blockChan' = [blockChan EXCEPT ![p] = <<>>]
    /\ intersection' = [intersection EXCEPT ![p] = Genesis]
    /\ needsInitialRollback' = needsInitialRollback \ {p}
    /\ awaiting' = awaiting \ {p}
    /\ view' = [view EXCEPT ![p] = <<>>]
    /\ UNCHANGED <<recentBlocks, publishing, found, cutOff, deep, outrun, connects>>

PeerNext ==
    \E p \in Peers :
        \/ Accept(p)
        \/ \E b \in Blocks : FindIntersect(p, b)
        \/ StateInit(p) \/ RequestNext(p) \/ SendAwaited(p) \/ Disconnect(p)
=============================================================================
