------------------------------- MODULE Oracle -------------------------------
(***************************************************************************)
(* A pool oracle following the chain (internal/oracle/oracle.go, an oracle *)
(* of a pool profile) with its durable store, the pipeline of chain-sync   *)
(* events that feeds it (internal/indexer/indexer.go) and the independently*)
(* written cursor it restarts from.                                        *)
(*                                                                         *)
(* The handler runs on one goroutine but is not atomic: it moves memory,   *)
(* disk and the published state in separate steps, and the process can die *)
(* between any two of them (a handler error also ends the process).        *)
(***************************************************************************)
EXTENDS Activity, Sequences

CONSTANTS
    Outputs,        \* utxo -> [pool, x, y]: the pool outputs that may appear
    Payloads,       \* sequences of outputs a block may carry
    \* bounds of the model
    MaxSlot, MaxBlocks, MaxReorgs, MaxFaults, QueueCap

ASSUME OutputsAssumption ==
    /\ DOMAIN Outputs \subseteq Nat
    /\ \A u \in DOMAIN Outputs : Outputs[u] \in [pool: Pools, x: Nat, y: Nat]
\* An output is produced once.
ASSUME PayloadsAssumption ==
    /\ Payloads \subseteq Seq(DOMAIN Outputs)
    /\ \A outs \in Payloads : \A i, j \in 1..Len(outs) : outs[i] = outs[j] => i = j
ASSUME SlotsAssumption == MaxSlot \in Nat /\ MaxSlot < MaxUint64
ASSUME QueueAssumption == QueueCap \in Nat \ {0}

VARIABLES
    \* the node's chain, the prefix of it sent to this client, and bounds
    chain, sent, blocks, reorgs, faults,
    \* the pipeline, the process, and the chain-sync cursor on disk
    queue, up, cursor,
    \* OracleStorage: pool states, activity metadata and swaps
    dpools, dmeta, dswaps,
    \* Oracle: pools, MempoolStateManager's confirmed states, ActivityTracker
    pools, confirmed, latest, swaps,
    \* locals of the handler
    pc, cur, recorded, firstInvalid, toDelete, failed,
    \* history: a rejected event, a refused start, swaps a rollback of this
    \* process or of an earlier one set out to remove, and what a process that
    \* ended stored of rollbacks that the cursor on disk had already passed
    rejected, refused, condemned, stranded

chainVars   == <<chain, sent, blocks, reorgs>>
diskVars    == <<dpools, dmeta, dswaps>>
memoryVars  == <<pools, confirmed, latest, swaps>>
handlerVars == <<pc, cur, recorded, firstInvalid, toDelete, failed>>
historyVars == <<rejected, refused, condemned, stranded>>
vars == <<chainVars, faults, queue, up, cursor, diskVars, memoryVars,
          handlerVars, historyVars>>

-----------------------------------------------------------------------------

\* The intercept point of the profile: where a fresh database starts.
Origin == [slot |-> 0, hash |-> 0, outs |-> <<>>]

BlockAt(k) == IF k = 0 THEN Origin ELSE chain[k]
Point(b) == [slot |-> b.slot, hash |-> b.hash]
OnChain(point) == \E k \in 0..Len(chain) : Point(BlockAt(k)) = point

StateOf(b, u) ==
    [pool |-> Outputs[u].pool, utxo |-> u, slot |-> b.slot, hash |-> b.hash,
     x |-> Outputs[u].x, y |-> Outputs[u].y]

UpdateEvent(s) == [type |-> "transaction", state |-> s]
RollbackEvent(n) == [type |-> "rollback", slot |-> n]

Elements(seq) == {seq[i] : i \in 1..Len(seq)}

Put(states, s) == {t \in states : t.pool # s.pool} \cup {s}

\* The handler's locals between two events.
HandlerIdle ==
    /\ pc' = "idle"
    /\ cur' = {}
    /\ recorded' = {}
    /\ firstInvalid' = 0
    /\ toDelete' = {}
    /\ failed' = FALSE

\* The first slots that the rollbacks queued or running remove.
PendingRollbacks ==
    {FirstRolledBackSlot(e.slot) : e \in {q \in Elements(queue) : q.type = "rollback"}}
        \cup (IF pc \in {"batch", "memory", "delete"} THEN {firstInvalid} ELSE {})

\* What they still have to remove of the store and the next process will not:
\* it begins with a rollback to the cursor, and the cursor has passed it.
PassedByCursor ==
    {r \in dpools \cup dswaps :
        r.slot <= cursor.slot /\ \E first \in PendingRollbacks : first <= r.slot}

\* os.Exit or a crash: nothing but the databases survives.
ProcessEnds ==
    /\ up' = FALSE
    /\ stranded' = stranded \cup PassedByCursor
    /\ queue' = <<>>
    /\ pools' = {}
    /\ confirmed' = {}
    /\ latest' = 0
    /\ swaps' = {}
    /\ HandlerIdle

Init ==
    /\ chain = <<>> /\ sent = 0 /\ blocks = 0 /\ reorgs = 0 /\ faults = 0
    /\ queue = <<RollbackEvent(0)>> /\ up = TRUE /\ cursor = Point(Origin)
    /\ dpools = {} /\ dmeta = NoMeta /\ dswaps = {}
    /\ pools = {} /\ confirmed = {} /\ latest = 0 /\ swaps = {}
    /\ pc = "idle" /\ cur = {} /\ recorded = {} /\ firstInvalid = 0
    /\ toDelete = {} /\ failed = FALSE
    /\ rejected = FALSE /\ refused = FALSE /\ condemned = {} /\ stranded = {}

-----------------------------------------------------------------------------
(* The node and the pipeline                                               *)

\* A block is forged.  An output occurs at most once on a chain.
NewBlock(outs, slot) ==
    /\ sent = Len(chain)
    /\ blocks < MaxBlocks
    /\ slot > BlockAt(Len(chain)).slot
    /\ slot <= MaxSlot
    /\ \A i \in 1..Len(chain) : Elements(chain[i].outs) \cap Elements(outs) = {}
    /\ blocks' = blocks + 1
    /\ chain' = Append(chain, [slot |-> slot, hash |-> blocks + 1, outs |-> outs])
    /\ UNCHANGED <<sent, reorgs, faults, queue, up, cursor, diskVars,
                   memoryVars, handlerVars, historyVars>>

\* Chain-sync rolls forward: the pool outputs of the block enter the pipeline.
RollForward ==
    /\ up
    /\ sent < Len(chain)
    /\ Len(queue) < QueueCap
    /\ LET b == chain[sent + 1]
       IN  queue' = queue \o
                [i \in 1..Len(b.outs) |-> UpdateEvent(StateOf(b, b.outs[i]))]
    /\ sent' = sent + 1
    /\ UNCHANGED <<chain, blocks, reorgs, faults, up, cursor, diskVars,
                   memoryVars, handlerVars, historyVars>>

\* The node switches forks and drops its newest blocks; a client that was
\* sent one of them is rolled back to the newest block it still shares.
Reorg(k) ==
    /\ reorgs < MaxReorgs
    /\ k < Len(chain)
    /\ reorgs' = reorgs + 1
    /\ chain' = SubSeq(chain, 1, k)
    /\ IF up /\ sent > k
       THEN /\ queue' = Append(queue, RollbackEvent(BlockAt(k).slot))
            /\ sent' = k
       ELSE /\ queue' = queue
            /\ sent' = Lower(sent, k)
    /\ UNCHANGED <<blocks, faults, up, cursor, diskVars, memoryVars,
                   handlerVars, historyVars>>

\* The connection drops and chain-sync intersects at the newest block it has:
\* the server answers with a roll-backward to that very block.
Reconnect ==
    /\ up
    /\ reorgs < MaxReorgs
    /\ reorgs' = reorgs + 1
    /\ queue' = Append(queue, RollbackEvent(BlockAt(sent).slot))
    /\ UNCHANGED <<chain, sent, blocks, faults, up, cursor, diskVars,
                   memoryVars, handlerVars, historyVars>>

\* updateStatus: the newest block received becomes the durable cursor.  The
\* status callback is not ordered with the handlers of the block's events, so
\* the cursor may name a block whose events, and whose rollbacks, still wait.
UpdateStatus ==
    /\ up
    /\ cursor # Point(BlockAt(sent))
    /\ cursor' = Point(BlockAt(sent))
    /\ UNCHANGED <<chainVars, faults, queue, up, diskVars, memoryVars,
                   handlerVars, historyVars>>

-----------------------------------------------------------------------------
(* handleTransaction, for one pool output                                  *)

NextIsUpdate   == up /\ pc = "idle" /\ queue # <<>> /\ Head(queue).type = "transaction"
NextIsRollback == up /\ pc = "idle" /\ queue # <<>> /\ Head(queue).type = "rollback"

\* Under poolsMu: the tracker observes the transition, then the map moves.
AcceptState(s, inferred) ==
    /\ latest' = s.slot
    /\ swaps' = ObservedSwaps(swaps, s, inferred)
    /\ pools' = Put(pools, s)
    /\ cur' = {s}
    /\ recorded' = RecordedSwap(swaps, inferred)
    /\ pc' = "persist"
    /\ queue' = Tail(queue)
    /\ UNCHANGED <<up, confirmed, firstInvalid, toDelete, failed, rejected, stranded>>

\* The tracker's error reaches the pipeline and the process exits.
RejectState == rejected' = TRUE /\ ProcessEnds

ObserveState ==
    LET s == Head(queue).state
        inferred == InferFrom(pools, s)
    IN  /\ NextIsUpdate
        /\ IF ObserveRejects(latest, swaps, s, inferred)
           THEN RejectState
           ELSE AcceptState(s, inferred)
        /\ UNCHANGED <<chainVars, faults, cursor, diskVars, refused, condemned>>

\* One Badger transaction: pool state, swap, metadata and the pruning.
SavePoolStateAndActivity ==
    /\ up /\ pc = "persist"
    /\ \E s \in cur :
          /\ dpools' = Put(dpools, s)
          /\ dmeta' = SavedMeta(dmeta, s)
          /\ dswaps' = SavedSwaps(dmeta, dswaps, s, recorded)
    /\ condemned' = condemned \ recorded
    /\ pc' = "publish"
    /\ UNCHANGED <<chainVars, faults, queue, up, cursor, memoryVars, cur,
                   recorded, firstInvalid, toDelete, failed, rejected, refused,
                   stranded>>

\* UpdateConfirmedState, and the notification of the subscribers.
PublishState ==
    /\ up /\ pc = "publish"
    /\ \E s \in cur : confirmed' = Put(confirmed, s)
    /\ HandlerIdle
    /\ UNCHANGED <<chainVars, faults, queue, up, cursor, diskVars, pools,
                   latest, swaps, historyVars>>

-----------------------------------------------------------------------------
(* handleRollback                                                          *)

\* Pool states after the rollback slot leave the map.
Invalidated_after(states, first) == {s \in states : s.slot > first}    \* mutant
Invalidated(states, first) == {s \in states : s.slot >= first}

StartRollback ==
    LET first == FirstRolledBackSlot(Head(queue).slot)
    IN  /\ NextIsRollback
        /\ firstInvalid' = first
        /\ toDelete' = Invalidated(pools, first)
        /\ pools' = pools \ Invalidated(pools, first)
        /\ condemned' = condemned \cup {w \in dswaps : w.slot >= first}
        /\ pc' = "batch"
        /\ queue' = Tail(queue)
        /\ UNCHANGED <<chainVars, faults, up, cursor, diskVars, confirmed,
                       latest, swaps, cur, recorded, failed, rejected, refused,
                       stranded>>

\* One transaction of RollbackActivity.
RollbackActivityBatch ==
    /\ up /\ pc = "batch"
    /\ dmeta' = BatchMeta(dmeta, dswaps, firstInvalid)
    /\ dswaps' = BatchSwaps(dswaps, firstInvalid)
    /\ pc' = IF BatchExhausts(dswaps, firstInvalid) THEN "memory" ELSE "batch"
    /\ UNCHANGED <<chainVars, faults, queue, up, cursor, dpools, memoryVars,
                   cur, recorded, firstInvalid, toDelete, failed, historyVars>>

\* RollbackActivity returns an error: the tracker keeps what disk may hold.
RollbackActivityFails ==
    /\ up /\ pc = "batch"
    /\ faults < MaxFaults
    /\ faults' = faults + 1
    /\ failed' = TRUE
    /\ pc' = "memory"
    /\ UNCHANGED <<chainVars, queue, up, cursor, diskVars, memoryVars, cur,
                   recorded, firstInvalid, toDelete, historyVars>>

\* RemovePoolState for every invalidated pool.
Withdraw_nothing(states, gone) == states    \* mutant
Withdraw(states, gone) == {s \in states : \A t \in gone : t.pool # s.pool}

\* ActivityTracker.Rollback, unless the durable one failed, and the removal of
\* the invalidated pools from the mempool manager.
RollbackMemory ==
    /\ up /\ pc = "memory"
    /\ IF failed
       THEN UNCHANGED <<latest, swaps>>
       ELSE /\ latest' = RolledBackLatest(latest, firstInvalid)
            /\ swaps' = RolledBackSwaps(latest, swaps, firstInvalid)
    /\ confirmed' = Withdraw(confirmed, toDelete)
    /\ pc' = "delete"
    /\ UNCHANGED <<chainVars, faults, queue, up, cursor, diskVars, pools, cur,
                   recorded, firstInvalid, toDelete, failed, historyVars>>

\* DeletePoolState, one transaction per invalidated pool.
DeletePoolState(s) ==
    /\ up /\ pc = "delete"
    /\ toDelete' = toDelete \ {s}
    /\ dpools' = {t \in dpools : t.pool # s.pool}
    /\ UNCHANGED <<chainVars, faults, queue, up, cursor, dmeta, dswaps,
                   memoryVars, pc, cur, recorded, firstInvalid, failed,
                   historyVars>>

DeletePoolStateFails(s) ==
    /\ up /\ pc = "delete"
    /\ faults < MaxFaults
    /\ faults' = faults + 1
    /\ failed' = TRUE
    /\ toDelete' = toDelete \ {s}
    /\ UNCHANGED <<chainVars, queue, up, cursor, diskVars, memoryVars, pc, cur,
                   recorded, firstInvalid, historyVars>>

RollbackReturns ==
    /\ up /\ pc = "delete"
    /\ toDelete = {}
    /\ ~failed
    /\ HandlerIdle
    /\ UNCHANGED <<chainVars, faults, queue, up, cursor, diskVars, memoryVars,
                   historyVars>>

\* The joined errors of a rollback reach the pipeline: the process exits.
RollbackReturnsError ==
    /\ up /\ pc = "delete"
    /\ toDelete = {}
    /\ failed
    /\ ProcessEnds
    /\ UNCHANGED <<chainVars, faults, cursor, diskVars, rejected, refused, condemned>>

-----------------------------------------------------------------------------
(* The life of the process                                                 *)

\* The process dies.  A failed durable write in handleTransaction ends here
\* too: the handler returns its error and the indexer exits.
Crash ==
    /\ up
    /\ faults < MaxFaults
    /\ faults' = faults + 1
    /\ ProcessEnds
    /\ UNCHANGED <<chainVars, cursor, diskVars, rejected, refused, condemned>>

\* loadPersistedStates.
LoadPersistedStates ==
    /\ pools' = dpools
    /\ confirmed' = dpools
    /\ latest' = RestoredLatest(dmeta)
    /\ swaps' = RestoredSwaps(dmeta, dswaps)

\* Oracle.Start, then chain-sync intersects at the cursor and answers with a
\* roll-backward to it.  Start fails when the stored activity is refused;
\* there is no start at all when the cursor's block left the chain.
Restart ==
    /\ ~up
    /\ ~refused
    /\ OnChain(cursor)
    /\ IF RestoreRejects(dmeta, dswaps)
       THEN /\ refused' = TRUE
            /\ UNCHANGED <<up, sent, queue, memoryVars>>
       ELSE /\ up' = TRUE
            /\ sent' = CHOOSE k \in 0..Len(chain) : Point(BlockAt(k)) = cursor
            /\ queue' = <<RollbackEvent(cursor.slot)>>
            /\ LoadPersistedStates
            /\ UNCHANGED refused
    /\ UNCHANGED <<chain, blocks, reorgs, faults, cursor, diskVars,
                   handlerVars, rejected, condemned, stranded>>

-----------------------------------------------------------------------------

Handler ==
    \/ ObserveState
    \/ SavePoolStateAndActivity
    \/ PublishState
    \/ StartRollback \/ RollbackActivityBatch \/ RollbackMemory
    \/ \E s \in toDelete : DeletePoolState(s)
    \/ RollbackReturns \/ RollbackReturnsError

Faults ==
    \/ RollbackActivityFails
    \/ \E s \in toDelete : DeletePoolStateFails(s)
    \/ Crash

Node ==
    \/ \E outs \in Payloads, slot \in 1..MaxSlot : NewBlock(outs, slot)
    \/ \E k \in 0..Len(chain) : Reorg(k)
    \/ RollForward \/ Reconnect \/ UpdateStatus

Next == Handler \/ Faults \/ Node \/ Restart

Spec == Init /\ [][Next]_vars

\* The pipeline's goroutines keep running, chain-sync keeps sending, and a
\* supervisor starts the process again.  Nothing is assumed of the node, the
\* status goroutine or the faults.
Fairness == WF_vars(Handler) /\ WF_vars(RollForward) /\ WF_vars(Restart)

LiveSpec == Spec /\ Fairness

-----------------------------------------------------------------------------
(* Properties                                                              *)

Event == [type: {"transaction"}, state: PoolState]
            \cup [type: {"rollback"}, slot: Nat]

PipelineTypeOK ==
    /\ chain \in Seq([slot: Nat, hash: Nat, outs: Seq(DOMAIN Outputs)])
    /\ sent \in 0..Len(chain)
    /\ blocks \in Nat /\ reorgs \in Nat /\ faults \in Nat
    /\ queue \in Seq(Event)
    /\ cursor \in [slot: Nat, hash: Nat]

StoreTypeOK ==
    /\ dpools \subseteq PoolState
    /\ dmeta \in Nat \cup {NoMeta}
    /\ dswaps \subseteq SwapTransition
    /\ IsFiniteSet(dswaps)

MemoryTypeOK ==
    /\ pools \subseteq PoolState
    /\ confirmed \subseteq PoolState
    /\ latest \in Nat
    /\ swaps \subseteq SwapTransition

HandlerTypeOK ==
    /\ pc \in {"idle", "persist", "publish", "batch", "memory", "delete"}
    /\ cur \subseteq PoolState
    /\ recorded \subseteq SwapTransition
    /\ IsFiniteSet(recorded)
    /\ firstInvalid \in Nat
    /\ toDelete \subseteq PoolState
    /\ condemned \subseteq SwapTransition
    /\ stranded \subseteq PoolState \cup SwapTransition

FlagsTypeOK ==
    /\ up \in BOOLEAN /\ failed \in BOOLEAN
    /\ rejected \in BOOLEAN /\ refused \in BOOLEAN

\* Type invariant: every variable holds the kind of value its field in
\* oracle.go, activity.go, activity_storage.go or indexer.go can hold.
TypeOK ==
    /\ PipelineTypeOK
    /\ StoreTypeOK
    /\ MemoryTypeOK
    /\ HandlerTypeOK
    /\ FlagsTypeOK

\* Every committed state of the store, also one between two batches of a
\* rollback that a crash interrupted, keeps the swaps at or below the recorded
\* latest slot (the invariant rollbackActivityBatch documents).
NoSwapAboveLatest == \A w \in dswaps : w.slot <= dmeta

\* So no crash leaves activity that LoadActivityState or Restore refuses: the
\* oracle starts again whenever chain-sync can intersect.
StartNeverRefused == ~refused

\* No event chain-sync can send is refused by the tracker as out of order or
\* as contradicting a recorded swap: only storage failures end the process.
EventsNeverRejected == ~rejected

\* A confirmed state is visible to mempool consumers only once it is durable,
\* and is withdrawn before its durable copy is deleted.
PublishedIsDurable ==
    \A s \in confirmed :
        \E t \in dpools : t.pool = s.pool /\ t.slot >= s.slot

CaughtUp == up /\ pc = "idle" /\ queue = <<>>

\* With every event handled, each counted swap, each tracked pool state and
\* each published one belongs to a block the client still follows: a reorg,
\* crash or restart leaves no volume and no baseline of an abandoned fork,
\* except what was stored of a rollback when a process ended that had already
\* written the cursor of a later block.
CountedIsOnChain ==
    CaughtUp =>
        \A r \in (swaps \cup pools \cup confirmed) \ stranded :
            \E k \in 1..sent :
                /\ chain[k].hash = r.hash
                /\ r.utxo \in Elements(chain[k].outs)

\* Once a rollback set out to remove a swap, the swap is counted again only
\* after a block that carries it was saved again ("an interrupted rollback
\* never leaves a rolled-back swap ... where a restart would count its volume
\* again", RollbackActivity).
RolledBackStaysGone == CaughtUp => swaps \cap condemned = {}

\* The only rolled-back swaps that a restart counts again are those: the swaps
\* whose rollback a process left unfinished after the cursor had passed it.
OnlyStrandedComesBack == CaughtUp => swaps \cap condemned \subseteq stranded

InWindow(ws, at) == {w \in ws : w.slot >= Cutoff(at)}

\* Between events the tracker's window and the stored one are the same swaps:
\* a restart would not change a reported volume (pruneActivityKeys: leftover
\* keys change "retention only, never the volume reported for a window").
RestartKeepsVolume ==
    up /\ pc = "idle" =>
        swaps = InWindow(dswaps, RestoredLatest(dmeta))

\* getPoolVolume evaluates the volume at the newest slot of the tracked pools;
\* ActivityTracker.Volume refuses a slot before its latest one.
VolumeAtSlot == CHOOSE n \in {s.slot : s \in pools} : \A s \in pools : s.slot <= n
VolumeRejects(at) == at < latest

\* Between events the volume of a tracked pool can be read: "Activity is
\* advanced by all confirmed pool transitions handled by an oracle, so evaluate
\* at that oracle's newest locally tracked slot" (api.go, getPoolVolume).
VolumeQueryAnswers ==
    up /\ pc = "idle" /\ pools # {} => ~VolumeRejects(VolumeAtSlot)

\* Once the node, the faults and the reconnects have stopped, the oracle has
\* handled everything on the chain: rollbacks end, whatever the size of the
\* batches, and restarts end, unless the cursor's block left the chain.
CatchesUp ==
    <>[](IF up THEN CaughtUp /\ sent = Len(chain) ELSE ~OnChain(cursor))

\* A swap leaves the store only because its slot fell out of the window, or
\* because the same transaction rewound the recorded latest slot below it.
DurableSwapsLeaveForAReason ==
    [][\A w \in dswaps \ dswaps' :
            w.slot < Cutoff(dmeta') \/ w.slot > dmeta']_vars

=============================================================================
