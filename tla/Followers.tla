----------------------------- MODULE Followers -----------------------------
(***************************************************************************)
(* The followers of the chain together: the node's chain-sync server       *)
(* (PeerChain), Spectrum and the bot wallet (UtxoStore), the synthetics    *)
(* and lending oracles (TrackedStates).  The indexer's goroutine calls the *)
(* handlers of an event one after the other, in the order they were        *)
(* registered: node, Spectrum, synthetics, lending, indexer.  An error, or *)
(* a crash, ends the process; main starts it again and chain-sync resumes  *)
(* at the durable cursor with a roll-backward to it.                       *)
(*                                                                         *)
(* Blocks form a fixed tree.  The pipeline buffers what chain-sync sends    *)
(* while the handlers work, and the cursor is written when a message is    *)
(* received: it may be ahead of the handlers, and of what they will see.   *)
(***************************************************************************)
EXTENDS PeerChain, UtxoStore, FiniteSets

CONSTANTS
    TxsOf,                         \* the transactions of a block
    Lending, Cdp,                  \* monitored addresses
    Observed,                      \* the peer whose messages are checked
    MaxBacklog, MaxTroubles        \* bounds of the model

ASSUME ObservedAssumption == Observed \in Peers

ASSUME AddressAssumption == Lending # Cdp

ASSUME TxsAssumption ==
    \A b \in Blocks :
        /\ TxsOf[b] \in Seq(Range(TxsOf[b]))
        /\ \A tx \in Range(TxsOf[b]) :
              tx.ins \in Seq(Range(tx.ins)) /\ tx.outs \in Seq(Range(tx.outs))

\* The transactions of a chain, what they produce and what they spend.
TxsOn(chain) == UNION {ToSet(TxsOf[b]) : b \in ToSet(chain)}
OutputsOn(chain) == UNION {ToSet(tx.outs) : tx \in TxsOn(chain)}
SpentOn(chain) == UNION {ToSet(tx.ins) : tx \in TxsOn(chain)}

\* The same up to the n-th transaction of a block.
OutputsTo(b, n) ==
    OutputsOn(Path(Parent[b])) \cup UNION {Range(TxsOf[b][j].outs) : j \in 1..n}
SpentTo(b, n) ==
    SpentOn(Path(Parent[b])) \cup UNION {Range(TxsOf[b][j].ins) : j \in 1..n}

\* The ledger's rules: what a transaction produces is spent after it, a pool's
\* NFT is in one unspent output, and an id names one output.
ASSUME LedgerAssumption ==
    \A b \in Blocks : \A n \in 1..Len(TxsOf[b]) : \A o \in Range(TxsOf[b][n].outs) :
        /\ o.utxo \notin SpentTo(b, n)
        /\ o.address \in Pools => \A p \in OutputsTo(b, n) :
              p.address \in Pools /\ p.nft = o.nft => p = o \/ p.utxo \in SpentTo(b, n)

ASSUME IdAssumption ==
    \A b, c \in Blocks : \A o \in OutputsOn(Path(b)), p \in OutputsOn(Path(c)) :
        o.utxo = p.utxo => o = p

Tracked == INSTANCE TrackedStates WITH StateSlot <- SlotOf

VARIABLES
    up,
    followed,    \* the chain whose events the handlers were given
    backlog,     \* messages of chain-sync that were not given to them yet
    cursor,      \* the durable cursor
    queue,       \* events of the pipeline
    stage,       \* the handler that is next for the first event
    db,          \* the UTxO database
    states,      \* the oracles' states in memory
    dstates,     \* and in Badger
    troubles,    \* how many reorgs, crashes and failures there were
    \* history: blocks with a transaction that was applied to db, positions
    \* whose deletion failed, a lending oracle that started without its states,
    \* blocks up to the cursor that the handlers were not done with when the
    \* process ended, and stored states the cursor's chain does not have then
    applied, undeleted, unloaded, missed, stranded

chainVars == <<followed, backlog, cursor, queue, stage>>
storeVars == <<db, states, dstates>>
pastVars  == <<applied, undeleted, unloaded, missed, stranded>>
vars == <<up, chainVars, storeVars, troubles, pastVars, peerVars>>

BlockEvents(b) ==
    <<[type |-> "block", block |-> b]>>
      \o [i \in 1..Len(TxsOf[b]) |->
            [type |-> "transaction", block |-> b, tx |-> TxsOf[b][i]]]
RollbackTo(b) == [type |-> "rollback", block |-> b]

Newest(chain) == IF chain = <<>> THEN Genesis ELSE chain[Len(chain)]

\* A message of chain-sync, and the point the last one leads to.
Message(rollback, b) == [rollback |-> rollback, block |-> b]
LastSent == IF backlog = <<>> THEN Newest(followed) ELSE backlog[Len(backlog)].block

Init ==
    /\ up = TRUE
    /\ followed = <<>> /\ backlog = <<>> /\ cursor = Genesis
    /\ queue = <<RollbackTo(Genesis)>> /\ stage = "node"
    /\ db = EmptyStore /\ states = {} /\ dstates = {}
    /\ troubles = 0
    /\ applied = {} /\ undeleted = {} /\ unloaded = FALSE
    /\ missed = {} /\ stranded = {}
    /\ PeerInit

\* A peer that connected counts for the bound too.
Trouble == troubles + connects < MaxTroubles /\ troubles' = troubles + 1

Idle == up /\ queue = <<>> /\ Unlocked

-----------------------------------------------------------------------------
(* The upstream node, and the pipeline                                     *)

Receive(message) ==
    /\ up
    /\ Len(backlog) < MaxBacklog
    /\ backlog' = Append(backlog, message)
    /\ UNCHANGED <<up, followed, cursor, queue, stage, storeVars, pastVars,
                   peerVars>>

ReceiveBlock(b) ==
    /\ Parent[b] = LastSent
    /\ Receive(Message(FALSE, b))
    /\ UNCHANGED troubles

\* The upstream node switches forks, or the connection was lost and resumes.
ReceiveRollback(b) ==
    /\ Trouble
    /\ b \in {Genesis} \cup ToSet(Path(LastSent))
    /\ Receive(Message(TRUE, b))

\* updateStatus: whatever the handlers have done.
UpdateCursor ==
    /\ up
    /\ cursor # LastSent
    /\ cursor' = LastSent
    /\ UNCHANGED <<up, followed, backlog, queue, stage, storeVars, troubles,
                   pastVars, peerVars>>

\* The first message becomes the events the handlers are given.
Delivers(message) ==
    /\ Idle
    /\ backlog # <<>> /\ Head(backlog) = message
    /\ backlog' = Tail(backlog)
    /\ UNCHANGED <<up, cursor, stage, storeVars, troubles, pastVars, peerVars>>

RollForward(b) ==
    /\ Delivers(Message(FALSE, b))
    /\ followed' = Append(followed, b)
    /\ queue' = BlockEvents(b)

RollBackward(k) ==
    /\ Delivers(Message(TRUE, Newest(SubSeq(followed, 1, k))))
    /\ followed' = SubSeq(followed, 1, k)
    /\ queue' = <<RollbackTo(Newest(followed'))>>

-----------------------------------------------------------------------------
(* The handlers                                                            *)

Event == Head(queue)
AtStage(s) == up /\ queue # <<>> /\ stage = s
IsTx == Event.type = "transaction"
IsRollback == Event.type = "rollback"

\* Go on with the next handler, or with the next event.
Continue(s) == stage' = s /\ UNCHANGED queue
EventDone == stage' = "node" /\ queue' = Tail(queue)

\* chainsyncClientHandleEvent; a transaction only leaves the mempool.
NodeHandler ==
    /\ AtStage("node")
    /\ CASE Event.type = "block" -> AddBlock(Event.block)
         [] IsRollback -> Rollback(Event.block)
         [] OTHER -> UNCHANGED peerVars
    /\ Continue("spectrum")
    /\ UNCHANGED <<up, followed, backlog, cursor, storeVars, troubles, pastVars>>

SpectrumHandler ==
    /\ AtStage("spectrum")
    /\ Unlocked
    /\ Continue("synthetics")
    /\ IF IsTx
       THEN /\ db' = CommitAll(db, SpectrumWrites(Event.tx),
                              Len(SpectrumWrites(Event.tx)))
            /\ applied' = applied \cup {Event.block}
       ELSE UNCHANGED <<db, applied>>
    /\ UNCHANGED <<up, followed, backlog, cursor, states, dstates, troubles,
                   undeleted, unloaded, missed, stranded, peerVars>>

\* What an oracle's handler writes, to memory and then to Badger.
RolledBackBy(s) ==
    Tracked!RolledBack(states, IF s = "lending" THEN Lending ELSE Cdp,
                       SlotOf(Event.block))
OracleWrites(s) ==
    CASE IsTx /\ s = "synthetics" ->
           Tracked!SyntheticsWrites(states, Event.tx, Event.block)
      [] IsTx /\ s = "lending" -> Tracked!LendingWrites(Event.tx, Event.block)
      [] IsRollback -> Tracked!Deletes(RolledBackBy(s))
      [] OTHER -> Tracked!Deletes({})

OracleHandler(s, next) ==
    /\ AtStage(s)
    /\ states' = Tracked!CommitStates(states, OracleWrites(s))
    /\ dstates' = Tracked!CommitStates(dstates, OracleWrites(s))
    /\ Continue(next)
    /\ UNCHANGED <<up, followed, backlog, cursor, db, troubles, pastVars,
                   peerVars>>

\* One of the writes to Badger for a transaction fails, which is logged.
OracleWriteFails(s, next) ==
    /\ AtStage(s) /\ IsTx
    /\ Trouble
    /\ states' = Tracked!CommitStates(states, OracleWrites(s))
    /\ \E made \in Tracked!OneFails(OracleWrites(s)) :
          /\ dstates' = Tracked!CommitStates(dstates, made)
          /\ undeleted' = undeleted \cup
               {t.utxo : t \in OracleWrites(s).deletes \ made.deletes}
    /\ Continue(next)
    /\ UNCHANGED <<up, followed, backlog, cursor, db, applied, unloaded, missed,
                   stranded, peerVars>>

IndexerHandler ==
    /\ AtStage("indexer")
    /\ db' = IF IsTx
             THEN CommitAll(db, IndexerWrites(Event.tx), Len(IndexerWrites(Event.tx)))
             ELSE db
    /\ EventDone
    /\ UNCHANGED <<up, followed, backlog, cursor, states, dstates, troubles,
                   pastVars, peerVars>>

-----------------------------------------------------------------------------
(* The end of the process, and main                                        *)

\* The blocks whose events were all handled.
Handled ==
    IF queue = <<>> \/ IsRollback THEN ToSet(followed)
    ELSE ToSet(followed) \ {Event.block}

\* With the cursor c, a restart removes the state or it may stay.
Durable(s, c) ==
    \/ SlotOf(c) < SlotOf(s.block)
    \/ /\ s.block \in ToSet(Path(c))
       /\ s.address = Cdp => s.utxo \notin SpentOn(Path(c))

\* What the handlers did not do before the cursor is lost for the next process.
ProcessEnds ==
    /\ up' = FALSE
    /\ queue' = <<>> /\ stage' = "node"
    /\ states' = {}
    /\ followed' = <<>> /\ backlog' = <<>>
    /\ missed' = missed \cup (ToSet(Path(cursor)) \ Handled)
    /\ stranded' = stranded \cup
         IF cursor \in {Genesis} \cup Handled THEN {}
         ELSE {s \in dstates' : ~Durable(s, cursor)}
    /\ PeersGone

\* A deletion fails during a rollback: the other deletions are made, the error
\* reaches the pipeline and the later handlers do not see the rollback.
RollbackFails(s) ==
    /\ AtStage(s) /\ IsRollback
    /\ Trouble
    /\ \E made \in Tracked!OneFails(OracleWrites(s)) :
          dstates' = Tracked!CommitStates(dstates, made)
    /\ ProcessEnds
    /\ UNCHANGED <<cursor, db, applied, undeleted, unloaded>>

\* A crash, between two handlers or between two writes of one.
CrashInStore(writes) ==
    /\ \E i \in 0..Len(writes) : db' = CommitAll(db, writes, i)
    /\ applied' = IF db' = db THEN applied ELSE applied \cup {Event.block}
    /\ UNCHANGED dstates
CrashInOracle(s) ==
    /\ \E made \in Tracked!Interrupted(OracleWrites(s)) :
          dstates' = Tracked!CommitStates(dstates, made)
    /\ UNCHANGED <<db, applied>>
Crash ==
    /\ up
    /\ Trouble
    /\ \/ UNCHANGED <<db, applied, dstates>>
       \/ AtStage("spectrum") /\ IsTx /\ CrashInStore(SpectrumWrites(Event.tx))
       \/ AtStage("indexer") /\ IsTx /\ CrashInStore(IndexerWrites(Event.tx))
       \/ AtStage("synthetics") /\ CrashInOracle("synthetics")
       \/ AtStage("lending") /\ CrashInOracle("lending")
    /\ ProcessEnds
    /\ UNCHANGED <<cursor, undeleted, unloaded>>

\* The profiles load their states and chain-sync intersects at the cursor.  A
\* lending oracle that cannot load its states only warns.
Restart(loaded) ==
    /\ ~up
    /\ IF loaded THEN UNCHANGED troubles ELSE Trouble
    /\ up' = TRUE
    /\ followed' = Path(cursor)
    /\ queue' = <<RollbackTo(cursor)>>
    /\ states' = Tracked!LoadAllCdps(dstates)
                   \cup IF loaded THEN Tracked!LoadLending(dstates) ELSE {}
    /\ unloaded' = (unloaded \/ ~loaded)
    /\ UNCHANGED <<backlog, cursor, stage, db, dstates, applied, undeleted,
                   missed, stranded, peerVars>>

-----------------------------------------------------------------------------

\* Peers are served while the indexer works; the lock is PeerChain's.
ServePeers ==
    /\ up
    /\ PeerNext \/ \E p \in Peers : PublishTo(p)
    /\ UNCHANGED <<up, chainVars, storeVars, troubles, pastVars>>

Next ==
    \/ \E b \in Blocks : ReceiveBlock(b) \/ RollForward(b)
    \/ \E b \in Blocks \cup {Genesis} : ReceiveRollback(b)
    \/ \E k \in 0..Len(followed) : RollBackward(k)
    \/ UpdateCursor
    \/ NodeHandler \/ SpectrumHandler \/ IndexerHandler
    \/ OracleHandler("synthetics", "lending")
    \/ OracleHandler("lending", "indexer")
    \/ OracleWriteFails("synthetics", "lending")
    \/ OracleWriteFails("lending", "indexer")
    \/ RollbackFails("synthetics") \/ RollbackFails("lending")
    \/ Crash
    \/ \E loaded \in BOOLEAN : Restart(loaded)
    \/ ServePeers

Spec == Init /\ [][Next]_vars

-----------------------------------------------------------------------------
(* Properties                                                              *)

\* The outputs of a chain that are still unspent.
UnspentAt(addresses, chain) ==
    {o.utxo : o \in {p \in OutputsOn(chain) :
                       p.address \in addresses /\ p.utxo \notin SpentOn(chain)}}

\* The outputs that a missed block produces or spends.
MissedTxs == UNION {Range(TxsOf[b]) : b \in missed}
Odd == {o.utxo : o \in UNION {Range(tx.outs) : tx \in MissedTxs}}
         \cup UNION {Range(tx.ins) : tx \in MissedTxs}

\* After any crashes, redeliveries and rollbacks, once the events are handled
\* and every block ever applied is on the followed chain, the database holds
\* exactly the unspent outputs of the wallet and of the pools, can list the
\* wallet's, and the index of a pool leads to its current output.  Only what
\* the blocks produce or spend that a cursor ahead of the handlers skipped
\* when the process ended is excepted: those outputs may stay or be missing.
StoreIsLedger ==
    Idle /\ applied \subseteq ToSet(followed) =>
        /\ DOMAIN db.address \ Odd = UnspentAt({Wallet} \cup Pools, followed) \ Odd
        /\ ToSet(GetUtxos(db, Wallet)) \ Odd = UnspentAt({Wallet}, followed) \ Odd
        /\ UnspentAt({Wallet}, followed) \ Odd # {} => ~GetUtxosFails(db, Wallet)
        /\ \A o \in OutputsOn(followed) :
              o.utxo \in UnspentAt(Pools, followed) \ Odd =>
                 ~GetAssetUtxoFails(db, o.nft) /\ GetAssetUtxo(db, o.nft) = o.utxo

\* With every event handled, a lending state or position in memory comes from
\* a block on the followed chain, and a position is unspent: no crash, failed
\* write or reorg, while the process runs or is down, leaves one of an
\* abandoned fork.  Three failures are excepted: a deletion of a spent position
\* and loading lending states, which handleTransaction and Start only log, and
\* the very states the cursor passed by before the process ended.
TrackedIsOnChain ==
    Idle =>
        \A s \in states :
            \/ /\ s.block \in ToSet(followed)
               /\ s.address = Cdp => s.utxo \notin SpentOn(followed)
            \/ s.utxo \in undeleted
            \/ s.address = Lending /\ unloaded
            \/ s \in stranded

\* The messages sent to a peer are those of a chain-sync server: each takes
\* the peer's chain to the next block or back to one it has, unless the peer
\* is cut off.  The peer is any one of them.
Client == INSTANCE ChainClient
          WITH view <- view[Observed], lost <- Observed \in cutOff
ServesChainClient == Client!Spec

\* A peer misses something only after a rollback to or behind the block it
\* intersected at: chainsyncServerRequestNext compares with the intersection,
\* which never moves.  Or it was outrun: FindIntersect and Sub do not hold the
\* lock together, so more blocks than are kept may arrive between them.
CutOffOnlyByDeepRollback == cutOff \subseteq deep \cup outrun
=============================================================================
