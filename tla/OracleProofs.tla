---------------------------- MODULE OracleProofs ----------------------------
(***************************************************************************)
(* The oracle's store is always in an order a restart accepts, and what    *)
(* the pipeline delivers is what the oracle can take: the order of the     *)
(* queued events, the three copies of the pool states, and the two of the  *)
(* window of swaps.  For any pools, outputs and blocks, any window, any    *)
(* size of a Badger transaction and any number of reorgs and crashes.      *)
(***************************************************************************)
EXTENDS Oracle, FiniteSetTheorems, WellFoundedInduction, SequenceTheorems, TLAPS

-----------------------------------------------------------------------------
(* What one transaction of the activity store leaves on disk, for any      *)
(* swaps, any slot and any size of a Badger transaction                    *)

\* A nonempty set of slots has a least element.
LEMMA LeastElement ==
    ASSUME NEW T, T \subseteq Nat, T # {}
    PROVE  \E m \in T : \A n \in T : m <= n
<1>1. PICK m \in T : \A n \in T : ~(<<n, m>> \in OpToRel(<, Nat))
  BY NatLessThanWellFounded, WFMin, Zenon
<1>2. \A n \in T : ~(n < m)
  BY <1>1 DEF OpToRel
<1> QED
  BY <1>2

\* A nonempty set of swaps below some slot has a newest swap.
LEMMA NewestSwap ==
    ASSUME NEW ws, ws \subseteq SwapTransition, ws # {},
           NEW top \in Nat, \A w \in ws : w.slot <= top
    PROVE  \E w \in ws : \A v \in ws : v.slot <= w.slot
<1> DEFINE T == {top - w.slot : w \in ws}
<1>1. \A w \in ws : w.slot \in Nat
  BY DEF SwapTransition
<1>2. T \subseteq Nat /\ T # {}
  BY <1>1
<1>3. PICK m \in T : \A n \in T : m <= n
  <2> HIDE DEF T
  <2> QED
    BY <1>2, LeastElement
<1>4. PICK w \in ws : m = top - w.slot
  OBVIOUS
<1>5. \A v \in ws : top - w.slot <= top - v.slot
  BY <1>3, <1>4
<1> QED
  BY <1>1, <1>5

\* The keys of a batch are the newest: what it leaves is older than each of
\* them (rolledBackActivityKeys takes whole slots, newest first).
LEMMA BatchTakesTheNewest ==
    ASSUME NEW ws, ws \subseteq SwapTransition, IsFiniteSet(ws),
           NEW first \in Nat,
           NEW k \in BatchKeys(ws, first),
           NEW w \in BatchSwaps(ws, first)
    PROVE  w.slot < k.slot
<1> DEFINE Newer(v) == {u \in ws : u.slot > v.slot}
<1>1. k \in ws /\ w \in ws /\ k.slot \in Nat /\ w.slot \in Nat /\ k.slot >= first
  BY DEF BatchKeys, BatchSwaps, SwapTransition
<1>2. \A v \in ws : v.slot \in Nat
  BY DEF SwapTransition
<1>3. SUFFICES ASSUME w.slot >= k.slot PROVE FALSE
  BY <1>1
<1>4. /\ ~(\A v \in ws : v.slot <= w.slot)
      /\ ~(Cardinality(Newer(w)) < DeleteBudget)
  BY <1>1, <1>3 DEF BatchKeys, BatchSwaps
<1>5. Newer(w) \in SUBSET Newer(k)
  BY <1>1, <1>2, <1>3
<1>6. IsFiniteSet(Newer(k)) /\ IsFiniteSet(Newer(w))
  BY FS_Subset
<1>7. /\ Cardinality(Newer(w)) \in Nat
      /\ Cardinality(Newer(k)) \in Nat
      /\ Cardinality(Newer(w)) <= Cardinality(Newer(k))
  <2> HIDE DEF Newer
  <2> QED
    BY <1>5, <1>6, FS_Subset, FS_CardinalityType
<1>8. ~(Cardinality(Newer(k)) < DeleteBudget)
  <2> HIDE DEF Newer
  <2> QED
    BY <1>4, <1>7, BudgetAssumption
<1>9. \A v \in ws : v.slot <= k.slot
  BY <1>8 DEF BatchKeys
<1> QED
  BY <1>1, <1>2, <1>3, <1>4, <1>9

\* A batch that leaves something to roll back removed something: every pass of
\* RollbackActivity's loop makes progress, whatever the transaction limit.
LEMMA BatchMakesProgress ==
    ASSUME NEW ws, ws \subseteq SwapTransition,
           NEW top \in Nat, \A w \in ws : w.slot <= top,
           NEW first \in Nat, ~BatchExhausts(ws, first)
    PROVE  BatchKeys(ws, first) # {}
<1>1. PICK w \in ws : w.slot >= first
  BY DEF BatchExhausts
<1>2. PICK n \in ws : \A v \in ws : v.slot <= n.slot
  BY NewestSwap, <1>1
<1>3. n.slot \in Nat /\ w.slot \in Nat /\ w.slot <= n.slot
  BY <1>2 DEF SwapTransition
<1>4. n \in BatchKeys(ws, first)
  BY <1>1, <1>2, <1>3 DEF BatchKeys
<1> QED
  BY <1>4

\* The slot an unfinished batch rewinds to is the lowest one it removed.
LEMMA BatchRewindsToAKey ==
    ASSUME NEW ws, ws \subseteq SwapTransition,
           NEW top \in Nat, \A w \in ws : w.slot <= top,
           NEW first \in Nat, ~BatchExhausts(ws, first)
    PROVE  \E k \in BatchKeys(ws, first) : BatchFirstInvalid(ws, first) = k.slot
<1> DEFINE S == {w.slot : w \in BatchKeys(ws, first)}
<1>1. S # {} /\ S \subseteq Nat
  <2>1. BatchKeys(ws, first) # {}
    BY BatchMakesProgress
  <2>2. \A w \in BatchKeys(ws, first) : w.slot \in Nat
    BY DEF BatchKeys, SwapTransition
  <2> QED
    BY <2>1, <2>2
<1>2. \E s \in S : \A t \in S : s <= t
  <2> HIDE DEF S
  <2> QED
    BY <1>1, LeastElement
<1>3. \E s \in S : \A w \in BatchKeys(ws, first) : s <= w.slot
  BY <1>2
<1>4. BatchFirstInvalid(ws, first) \in S
  BY <1>3 DEF BatchFirstInvalid
<1> QED
  BY <1>4

\* A batch leaves the store with no swap above its latest slot: a rollback may
\* be cut short after any of its transactions (rollbackActivityBatch).
THEOREM BatchKeepsOrder ==
    ASSUME NEW ws, ws \subseteq SwapTransition, IsFiniteSet(ws),
           NEW meta \in Nat \cup {NoMeta}, \A w \in ws : w.slot <= meta,
           NEW first \in Nat
    PROVE  /\ BatchMeta(meta, ws, first) \in Nat \cup {NoMeta}
           /\ \A w \in BatchSwaps(ws, first) : w.slot <= BatchMeta(meta, ws, first)
<1>1. \A w \in ws : w.slot \in Nat
  BY DEF SwapTransition
<1>2. BatchSwaps(ws, first) \subseteq ws
  BY DEF BatchSwaps
<1>3. CASE meta = NoMeta
  BY <1>1, <1>2, <1>3 DEF BatchMeta, RewindMeta, NoMeta
<1>4. CASE meta \in Nat /\ BatchExhausts(ws, first)
  <2>1. \A w \in BatchSwaps(ws, first) : w.slot < first
    BY <1>1, <1>4 DEF BatchSwaps, BatchExhausts
  <2>2. BatchMeta(meta, ws, first) = Lower(LastValid(first), meta)
    BY <1>4 DEF BatchMeta, RewindMeta, BatchFirstInvalid, NoMeta
  <2> QED
    BY <1>1, <1>2, <1>4, <2>1, <2>2 DEF Lower, LastValid
<1>5. CASE meta \in Nat /\ ~BatchExhausts(ws, first)
  <2>1. PICK k \in BatchKeys(ws, first) : BatchFirstInvalid(ws, first) = k.slot
    BY <1>5, BatchRewindsToAKey
  <2>2. k.slot \in Nat
    BY <1>1 DEF BatchKeys
  <2>3. \A w \in BatchSwaps(ws, first) : w.slot < k.slot
    BY BatchTakesTheNewest
  <2>4. BatchMeta(meta, ws, first) = Lower(LastValid(k.slot), meta)
    BY <1>5, <2>1 DEF BatchMeta, RewindMeta, NoMeta
  <2> QED
    BY <1>1, <1>2, <1>5, <2>2, <2>3, <2>4 DEF Lower, LastValid
<1> QED
  BY <1>3, <1>4, <1>5

\* Saving a state and its swap keeps the order too, and the swaps finite.
LEMMA SaveKeepsOrder ==
    ASSUME NEW ws, ws \subseteq SwapTransition, IsFiniteSet(ws),
           NEW meta \in Nat \cup {NoMeta}, \A w \in ws : w.slot <= meta,
           NEW s \in PoolState,
           NEW rec, rec \subseteq SwapTransition, IsFiniteSet(rec),
           \A w \in rec : w.slot = s.slot
    PROVE  /\ SavedMeta(meta, s) \in Nat \cup {NoMeta}
           /\ SavedSwaps(meta, ws, s, rec) \subseteq SwapTransition
           /\ IsFiniteSet(SavedSwaps(meta, ws, s, rec))
           /\ \A w \in SavedSwaps(meta, ws, s, rec) : w.slot <= SavedMeta(meta, s)
<1>1. SavedSwaps(meta, ws, s, rec) \in SUBSET (ws \cup rec)
  BY DEF SavedSwaps, PutSwap
<1>2. IsFiniteSet(ws \cup rec)
  BY FS_Union
<1>3. s.slot \in Nat /\ \A w \in ws : w.slot \in Nat
  BY DEF PoolState, SwapTransition
<1>4. SavedMeta(meta, s) \in Nat \cup {NoMeta}
  BY <1>3 DEF SavedMeta
<1>5. \A w \in ws \cup rec : w.slot <= SavedMeta(meta, s)
  BY <1>3 DEF SavedMeta, NoMeta
<1> QED
  BY <1>1, <1>2, <1>4, <1>5, FS_Subset

-----------------------------------------------------------------------------
(* The inductive invariant                                                 *)

UniquePools(states) == \A s, t \in states : s.pool = t.pool => s = t

\* The pools in memory and on disk are maps from pool to state.
PoolsAreMaps == UniquePools(pools) /\ UniquePools(dpools)

\* The swap to be persisted was inferred for the state being handled.
RecordedAtCur == \A s \in cur, w \in recorded : w.slot = s.slot

\* The inductive strengthening of NoSwapAboveLatest.
StorageInv == TypeOK /\ PoolsAreMaps /\ RecordedAtCur /\ NoSwapAboveLatest

-----------------------------------------------------------------------------
(* Helpers of the model                                                    *)

\* Assigning a pool's entry keeps the map a map.
LEMMA PutType ==
    ASSUME NEW states, states \subseteq PoolState, UniquePools(states),
           NEW s \in PoolState
    PROVE  Put(states, s) \subseteq PoolState /\ UniquePools(Put(states, s))
  BY DEF Put, UniquePools

\* What InferSwapTransition returns is at most one swap, at the slot of the
\* new state.
LEMMA InferType ==
    ASSUME NEW prev \in PoolState, NEW s \in PoolState
    PROVE  /\ InferSwapTransition(prev, s) \subseteq SwapTransition
           /\ \A w \in InferSwapTransition(prev, s) : w.slot = s.slot
           /\ IsFiniteSet(InferSwapTransition(prev, s))
<1> DEFINE swap == [pool |-> s.pool, utxo |-> s.utxo, slot |-> s.slot,
                    hash |-> s.hash,
                    amountX |-> IF s.x > prev.x THEN s.x - prev.x ELSE prev.x - s.x,
                    amountY |-> IF s.x > prev.x THEN prev.y - s.y ELSE s.y - prev.y,
                    inputIsX |-> s.x > prev.x]
<1>1. CASE (s.x > prev.x /\ s.y < prev.y) \/ (s.x < prev.x /\ s.y > prev.y)
  <2>1. InferSwapTransition(prev, s) = {swap}
    BY <1>1 DEF InferSwapTransition
  <2>2. swap.amountX \in Nat /\ swap.amountY \in Nat
    BY <1>1 DEF PoolState
  <2>3. (s.x > prev.x) \in BOOLEAN
    BY DEF PoolState
  <2>4. swap \in SwapTransition /\ swap.slot = s.slot
    BY <2>2, <2>3 DEF PoolState, SwapTransition
  <2> QED
    BY <2>1, <2>4, FS_Singleton
<1>2. CASE ~((s.x > prev.x /\ s.y < prev.y) \/ (s.x < prev.x /\ s.y > prev.y))
  BY <1>2, FS_EmptySet DEF InferSwapTransition
<1> QED
  BY <1>1, <1>2

\* The transition from the tracked state of the pool is at most one swap, at
\* the slot of the new state.
LEMMA InferFromType ==
    ASSUME NEW states, states \subseteq PoolState, UniquePools(states),
           NEW s \in PoolState
    PROVE  /\ InferFrom(states, s) \subseteq SwapTransition
           /\ \A w \in InferFrom(states, s) : w.slot = s.slot
           /\ IsFiniteSet(InferFrom(states, s))
<1>1. CASE \E t \in states : t.pool = s.pool
  <2>1. PICK t \in states : t.pool = s.pool
    BY <1>1
  <2>2. {u \in states : u.pool = s.pool} = {t}
    BY <2>1 DEF UniquePools
  <2>3. InferFrom(states, s) = InferSwapTransition(t, s)
    BY <2>2 DEF InferFrom
  <2> QED
    BY <2>1, <2>3, InferType
<1>2. CASE ~\E t \in states : t.pool = s.pool
  <2>1. InferFrom(states, s) = {}
    BY <1>2 DEF InferFrom
  <2> QED
    BY <2>1, FS_EmptySet
<1> QED
  BY <1>1, <1>2

\* Every point chain-sync can name is a block of the chain or its origin.
LEMMA BlockType ==
    ASSUME PipelineTypeOK, NEW k \in 0..Len(chain)
    PROVE  BlockAt(k) \in [slot: Nat, hash: Nat, outs: Seq(DOMAIN Outputs)]
<1>1. CASE k = 0
  BY <1>1, EmptySeq DEF BlockAt, Origin
<1>2. CASE k # 0
  <2>1. k \in 1..Len(chain)
    BY <1>2, LenProperties DEF PipelineTypeOK
  <2> QED
    BY <1>2, <2>1, ElementOfSeq DEF BlockAt, PipelineTypeOK
<1> QED
  BY <1>1, <1>2

\* A rollback event carries a slot.
LEMMA RollbackEventType == ASSUME NEW n \in Nat PROVE RollbackEvent(n) \in Event
  BY DEF RollbackEvent, Event

\* An output of a block is a pool state.
LEMMA StateType ==
    ASSUME NEW b \in [slot: Nat, hash: Nat, outs: Seq(DOMAIN Outputs)],
           NEW u \in DOMAIN Outputs
    PROVE  StateOf(b, u) \in PoolState
  BY OutputsAssumption DEF StateOf, PoolState

-----------------------------------------------------------------------------
(* The parts of the invariant the actions of the node and pipeline disturb *)

\* The node and the pipeline keep the types of chain, queue and cursor.
LEMMA NodeKeepsPipeline ==
    ASSUME PipelineTypeOK, Node
    PROVE  PipelineTypeOK'
<1> DEFINE Block == [slot: Nat, hash: Nat, outs: Seq(DOMAIN Outputs)]
<1>0. /\ chain \in Seq(Block) /\ Len(chain) \in Nat /\ sent \in 0..Len(chain)
      /\ queue \in Seq(Event)
  BY LenProperties DEF PipelineTypeOK
<1>1. ASSUME NEW outs \in Payloads, NEW slot \in 1..MaxSlot, NewBlock(outs, slot)
      PROVE  PipelineTypeOK'
  <2>1. [slot |-> slot, hash |-> blocks + 1, outs |-> outs] \in Block
    BY PayloadsAssumption, SlotsAssumption DEF PipelineTypeOK
  <2>2. chain' \in Seq(Block) /\ Len(chain') = Len(chain) + 1
    <3> HIDE DEF Block
    <3> QED
      BY <1>0, <1>1, <2>1, AppendProperties DEF NewBlock
  <2> QED
    BY <1>0, <1>1, <2>2 DEF NewBlock, PipelineTypeOK
<1>2. ASSUME NEW k \in 0..Len(chain), Reorg(k)
      PROVE  PipelineTypeOK'
  <2>1. k \in Nat /\ k < Len(chain)
    BY <1>0, <1>2 DEF Reorg
  <2>2. chain' \in Seq(Block) /\ Len(chain') = k
    <3>1. \A i \in 1..k : chain[i] \in Block
      <4> HIDE DEF Block
      <4>1. ASSUME NEW i \in 1..k PROVE i \in 1..Len(chain)
        BY <1>0, <2>1
      <4> QED
        BY <1>0, <4>1, ElementOfSeq
    <3>2. SubSeq(chain, 1, k) \in Seq(Block) /\ Len(SubSeq(chain, 1, k)) = k
      <4> HIDE DEF Block
      <4> QED
        BY <2>1, <3>1, SubSeqProperties
    <3> QED
      BY <1>2, <3>2 DEF Reorg
  <2>3. queue' \in Seq(Event)
    <3>1. RollbackEvent(BlockAt(k).slot) \in Event
      BY BlockType, RollbackEventType
    <3>2. queue' = queue \/ queue' = Append(queue, RollbackEvent(BlockAt(k).slot))
      BY <1>2 DEF Reorg
    <3>3. Append(queue, RollbackEvent(BlockAt(k).slot)) \in Seq(Event)
      BY <1>0, <3>1, AppendProperties
    <3> QED
      BY <1>0, <3>2, <3>3
  <2>4. sent' \in 0..k
    BY SMTT(30), <1>0, <1>2, <2>1 DEF Reorg, Lower
  <2> QED
    BY <1>2, <2>2, <2>3, <2>4 DEF Reorg, PipelineTypeOK
<1>3. CASE RollForward
  <2> DEFINE b == chain[sent + 1]
             ups == [i \in 1..Len(b.outs) |-> UpdateEvent(StateOf(b, b.outs[i]))]
  <2>1. sent + 1 \in 1..Len(chain)
    BY <1>0, <1>3 DEF RollForward
  <2>2. b \in Block
    BY <1>0, <2>1, ElementOfSeq
  <2>3. Len(b.outs) \in Nat /\ \A i \in 1..Len(b.outs) : b.outs[i] \in DOMAIN Outputs
    BY <2>2, LenProperties, ElementOfSeq
  <2>4. \A i \in 1..Len(b.outs) : UpdateEvent(StateOf(b, b.outs[i])) \in Event
    BY <2>2, <2>3, StateType DEF UpdateEvent, Event
  <2>5. ups \in Seq(Event)
    <3> HIDE DEF b
    <3> QED
      BY <2>3, <2>4, IsASeq
  <2>6. queue' \in Seq(Event)
    <3>1. queue' = queue \o ups
      BY <1>3 DEF RollForward
    <3> HIDE DEF ups
    <3> QED
      BY <1>0, <2>5, <3>1, ConcatProperties
  <2> QED
    BY <1>0, <1>3, <2>1, <2>6 DEF RollForward, PipelineTypeOK
<1>4. CASE Reconnect
  <2>1. RollbackEvent(BlockAt(sent).slot) \in Event
    BY <1>0, BlockType, RollbackEventType
  <2>2. queue' \in Seq(Event)
    BY <1>0, <1>4, <2>1, AppendProperties DEF Reconnect
  <2> QED
    BY <1>4, <2>2 DEF Reconnect, PipelineTypeOK
<1>5. CASE UpdateStatus
  <2>1. cursor' \in [slot: Nat, hash: Nat]
    BY <1>0, <1>5, BlockType DEF UpdateStatus, Point
  <2> QED
    BY <1>5, <2>1 DEF UpdateStatus, chainVars, PipelineTypeOK
<1> QED
  BY <1>1, <1>2, <1>3, <1>4, <1>5 DEF Node

\* The node and the pipeline touch neither store, memory nor handler.
LEMMA NodeKeepsTheRest ==
    ASSUME Node
    PROVE  UNCHANGED <<up, diskVars, memoryVars, handlerVars, historyVars>>
  BY DEF Node, NewBlock, Reorg, RollForward, Reconnect, UpdateStatus

-----------------------------------------------------------------------------
(* One step of the specification                                           *)

\* The handler's locals are reset and no flag but up changes its type.
LEMMA EndType ==
    ASSUME ProcessEnds
    PROVE  /\ MemoryTypeOK' /\ UniquePools(pools') /\ RecordedAtCur'
           /\ queue' \in Seq(Event) /\ up' \in BOOLEAN /\ failed' \in BOOLEAN
           /\ pc' = "idle" /\ cur' = {} /\ recorded' = {} /\ toDelete' = {}
           /\ firstInvalid' = 0
<1>1. up' \in BOOLEAN /\ failed' \in BOOLEAN
  BY DEF ProcessEnds, HandlerIdle
<1>2. queue' \in Seq(Event)
  BY EmptySeq DEF ProcessEnds
<1> QED
  BY <1>1, <1>2 DEF ProcessEnds, HandlerIdle, MemoryTypeOK, UniquePools,
                    RecordedAtCur

\* A process that ends leaves no half-handled event behind.
LEMMA EndKeepsHandler ==
    ASSUME HandlerTypeOK, StoreTypeOK, ProcessEnds, condemned' = condemned
    PROVE  HandlerTypeOK'
<1>1. /\ pc' = "idle" /\ cur' = {} /\ recorded' = {} /\ toDelete' = {}
      /\ firstInvalid' = 0
  BY DEF ProcessEnds, HandlerIdle
<1>2. IsFiniteSet(recorded')
  BY <1>1, FS_EmptySet
<1>3. stranded' \subseteq PoolState \cup SwapTransition
  BY DEF ProcessEnds, PassedByCursor, HandlerTypeOK, StoreTypeOK
<1> QED
  BY <1>1, <1>2, <1>3 DEF HandlerTypeOK

\* handleTransaction: the observation, the save and the publication.
LEMMA UpdateStep ==
    ASSUME StorageInv,
           ObserveState \/ SavePoolStateAndActivity \/ PublishState
    PROVE  StorageInv'
<1> USE DEF StorageInv, TypeOK
<1>1. CASE ObserveState
  <2> DEFINE s == Head(queue).state
             inferred == InferFrom(pools, s)
  <2>1. queue \in Seq(Event) /\ queue # <<>> /\ Head(queue).type = "transaction"
    BY <1>1 DEF ObserveState, NextIsUpdate, PipelineTypeOK
  <2>2. Head(queue) \in Event /\ Tail(queue) \in Seq(Event)
    BY <2>1, HeadTailProperties
  <2>3. s \in PoolState
    BY <2>1, <2>2 DEF Event
  <2>4. /\ inferred \subseteq SwapTransition
        /\ \A w \in inferred : w.slot = s.slot
        /\ IsFiniteSet(inferred)
    <3> HIDE DEF s
    <3> QED
      BY <2>3, InferFromType DEF PoolsAreMaps, MemoryTypeOK
  <2>5. UNCHANGED <<chainVars, faults, cursor, diskVars, refused, condemned>>
    BY <1>1 DEF ObserveState
  <2>6. StoreTypeOK' /\ UniquePools(dpools') /\ NoSwapAboveLatest'
    BY <2>5 DEF diskVars, StoreTypeOK, PoolsAreMaps, UniquePools, NoSwapAboveLatest
  <2>7. CASE RejectState
    <3>1. PipelineTypeOK'
      BY <2>5, <2>7, EndType DEF RejectState, chainVars, PipelineTypeOK
    <3>2. HandlerTypeOK'
      <4>1. ProcessEnds /\ condemned' = condemned
        BY <2>5, <2>7 DEF RejectState
      <4> QED
        BY <4>1, EndKeepsHandler
    <3>3. FlagsTypeOK'
      BY <2>5, <2>7, EndType DEF RejectState, FlagsTypeOK
    <3> QED
      BY <2>6, <2>7, <3>1, <3>2, <3>3, EndType DEF RejectState, PoolsAreMaps
  <2>8. CASE AcceptState(s, inferred)
    <3>1. PipelineTypeOK'
      BY <2>2, <2>5, <2>8 DEF AcceptState, chainVars, PipelineTypeOK
    <3>2. IsFiniteSet(RecordedSwap(swaps, inferred))
      <4> HIDE DEF inferred
      <4> QED
        BY <2>4, FS_Subset DEF RecordedSwap
    <3>3. HandlerTypeOK'
      <4> HIDE DEF s, inferred
      <4> QED
        BY <2>3, <2>4, <2>5, <2>8, <3>2 DEF AcceptState, RecordedSwap, HandlerTypeOK
    <3>4. FlagsTypeOK'
      BY <2>5, <2>8 DEF AcceptState, FlagsTypeOK
    <3>5. MemoryTypeOK' /\ UniquePools(pools')
      <4>1. s.slot \in Nat
        BY <2>3 DEF PoolState
      <4>2. ObservedSwaps(swaps, s, inferred) \subseteq SwapTransition
        BY <2>4 DEF ObservedSwaps, Prune, MemoryTypeOK
      <4> HIDE DEF s, inferred
      <4> QED
        BY <2>3, <2>8, <4>1, <4>2, PutType DEF AcceptState, MemoryTypeOK, PoolsAreMaps
    <3>6. RecordedAtCur'
      <4> HIDE DEF s, inferred
      <4> QED
        BY <2>4, <2>8 DEF AcceptState, RecordedSwap, RecordedAtCur
    <3> QED
      BY <2>6, <3>1, <3>3, <3>4, <3>5, <3>6 DEF PoolsAreMaps
  <2> QED
    BY <1>1, <2>7, <2>8 DEF ObserveState
<1>2. CASE SavePoolStateAndActivity
  <2>1. PICK s \in cur : /\ dpools' = Put(dpools, s)
                         /\ dmeta' = SavedMeta(dmeta, s)
                         /\ dswaps' = SavedSwaps(dmeta, dswaps, s, recorded)
    BY <1>2 DEF SavePoolStateAndActivity
  <2>2. s \in PoolState /\ \A w \in recorded : w.slot = s.slot
    BY DEF HandlerTypeOK, RecordedAtCur
  <2>3. dpools' \subseteq PoolState /\ UniquePools(dpools')
    BY <2>1, <2>2, PutType DEF StoreTypeOK, PoolsAreMaps
  <2>4. /\ dmeta' \in Nat \cup {NoMeta}
        /\ dswaps' \subseteq SwapTransition /\ IsFiniteSet(dswaps')
        /\ NoSwapAboveLatest'
    BY <2>1, <2>2, SaveKeepsOrder DEF StoreTypeOK, HandlerTypeOK, NoSwapAboveLatest
  <2>5. PipelineTypeOK' /\ MemoryTypeOK' /\ RecordedAtCur' /\ UniquePools(pools')
    BY <1>2 DEF SavePoolStateAndActivity, chainVars, memoryVars, PipelineTypeOK,
                MemoryTypeOK, RecordedAtCur, PoolsAreMaps, UniquePools
  <2>6. HandlerTypeOK'
    BY <1>2 DEF SavePoolStateAndActivity, HandlerTypeOK
  <2>7. FlagsTypeOK'
    BY <1>2 DEF SavePoolStateAndActivity, FlagsTypeOK
  <2> QED
    BY <2>3, <2>4, <2>5, <2>6, <2>7 DEF StoreTypeOK, PoolsAreMaps
<1>3. CASE PublishState
  <2>1. confirmed' \subseteq PoolState
    BY <1>3 DEF PublishState, Put, MemoryTypeOK, HandlerTypeOK
  <2>2. HandlerTypeOK' /\ RecordedAtCur'
    BY <1>3, FS_EmptySet DEF PublishState, HandlerIdle, historyVars, HandlerTypeOK,
                             RecordedAtCur
  <2>3. FlagsTypeOK'
    BY <1>3 DEF PublishState, HandlerIdle, historyVars, FlagsTypeOK
  <2>4. PipelineTypeOK' /\ StoreTypeOK' /\ PoolsAreMaps' /\ NoSwapAboveLatest'
    BY <1>3 DEF PublishState, chainVars, diskVars, PipelineTypeOK, StoreTypeOK,
                PoolsAreMaps, UniquePools, NoSwapAboveLatest
  <2> QED
    BY <1>3, <2>1, <2>2, <2>3, <2>4 DEF PublishState, MemoryTypeOK
<1> QED
  BY <1>1, <1>2, <1>3

\* handleRollback: its start and the durable, the in-memory and the per-pool
\* part, failures included.
LEMMA RollbackStep ==
    ASSUME StorageInv,
           \/ StartRollback \/ RollbackActivityBatch \/ RollbackActivityFails
           \/ RollbackMemory
           \/ \E s \in toDelete : DeletePoolState(s) \/ DeletePoolStateFails(s)
           \/ RollbackReturns
    PROVE  StorageInv'
<1> USE DEF StorageInv, TypeOK
<1>1. CASE StartRollback
  <2>1. queue \in Seq(Event) /\ queue # <<>> /\ Head(queue).type = "rollback"
    BY <1>1 DEF StartRollback, NextIsRollback, PipelineTypeOK
  <2>2. Head(queue) \in Event /\ Tail(queue) \in Seq(Event)
    BY <2>1, HeadTailProperties
  <2>3. FirstRolledBackSlot(Head(queue).slot) \in Nat
    BY <2>1, <2>2 DEF Event, FirstRolledBackSlot
  <2>4. PipelineTypeOK' /\ StoreTypeOK' /\ NoSwapAboveLatest' /\ RecordedAtCur'
    BY <1>1, <2>2 DEF StartRollback, chainVars, diskVars, PipelineTypeOK,
                      StoreTypeOK, NoSwapAboveLatest, RecordedAtCur
  <2>5. HandlerTypeOK'
    BY <1>1, <2>3 DEF StartRollback, Invalidated, diskVars, HandlerTypeOK,
                      StoreTypeOK, MemoryTypeOK
  <2>6. MemoryTypeOK' /\ PoolsAreMaps'
    BY <1>1 DEF StartRollback, diskVars, MemoryTypeOK, PoolsAreMaps, UniquePools
  <2>7. FlagsTypeOK'
    BY <1>1 DEF StartRollback, FlagsTypeOK
  <2> QED
    BY <2>4, <2>5, <2>6, <2>7
<1>2. CASE RollbackActivityBatch
  <2>1. dswaps' \in SUBSET dswaps
    BY <1>2 DEF RollbackActivityBatch, BatchSwaps
  <2>2. IsFiniteSet(dswaps')
    BY <2>1, FS_Subset DEF StoreTypeOK
  <2>3. dmeta' \in Nat \cup {NoMeta} /\ NoSwapAboveLatest'
    BY <1>2, BatchKeepsOrder DEF RollbackActivityBatch, StoreTypeOK, HandlerTypeOK,
                                 NoSwapAboveLatest
  <2>4. StoreTypeOK'
    BY <1>2, <2>1, <2>2, <2>3 DEF RollbackActivityBatch, StoreTypeOK
  <2>5. PipelineTypeOK' /\ MemoryTypeOK' /\ PoolsAreMaps' /\ RecordedAtCur'
    BY <1>2 DEF RollbackActivityBatch, chainVars, memoryVars, PipelineTypeOK,
                MemoryTypeOK, PoolsAreMaps, UniquePools, RecordedAtCur
  <2>6. HandlerTypeOK'
    BY <1>2 DEF RollbackActivityBatch, historyVars, HandlerTypeOK
  <2>7. FlagsTypeOK'
    BY <1>2 DEF RollbackActivityBatch, historyVars, FlagsTypeOK
  <2> QED
    BY <2>3, <2>4, <2>5, <2>6, <2>7
<1>3. CASE RollbackActivityFails
  <2>1. PipelineTypeOK' /\ StoreTypeOK' /\ MemoryTypeOK' /\ PoolsAreMaps'
    BY <1>3 DEF RollbackActivityFails, chainVars, diskVars, memoryVars,
                PipelineTypeOK, StoreTypeOK, MemoryTypeOK, PoolsAreMaps, UniquePools
  <2>2. HandlerTypeOK' /\ RecordedAtCur' /\ NoSwapAboveLatest'
    BY <1>3 DEF RollbackActivityFails, diskVars, historyVars, HandlerTypeOK,
                RecordedAtCur, NoSwapAboveLatest
  <2>3. FlagsTypeOK'
    BY <1>3 DEF RollbackActivityFails, historyVars, FlagsTypeOK
  <2> QED
    BY <2>1, <2>2, <2>3
<1>4. CASE RollbackMemory
  <2>1. latest' \in Nat /\ swaps' \subseteq SwapTransition
    <3>1. RolledBackLatest(latest, firstInvalid) \in Nat
      BY DEF RolledBackLatest, Lower, LastValid, MemoryTypeOK, HandlerTypeOK
    <3>2. RolledBackSwaps(latest, swaps, firstInvalid) \subseteq SwapTransition
      BY DEF RolledBackSwaps, Prune, MemoryTypeOK
    <3>3. \/ UNCHANGED <<latest, swaps>>
          \/ /\ latest' = RolledBackLatest(latest, firstInvalid)
             /\ swaps' = RolledBackSwaps(latest, swaps, firstInvalid)
      BY <1>4 DEF RollbackMemory
    <3> QED
      BY <3>1, <3>2, <3>3 DEF MemoryTypeOK
  <2>2. MemoryTypeOK'
    BY <1>4, <2>1 DEF RollbackMemory, Withdraw, MemoryTypeOK
  <2>3. PipelineTypeOK' /\ StoreTypeOK' /\ PoolsAreMaps' /\ NoSwapAboveLatest'
    BY <1>4 DEF RollbackMemory, chainVars, diskVars, PipelineTypeOK, StoreTypeOK,
                PoolsAreMaps, UniquePools, NoSwapAboveLatest
  <2>4. HandlerTypeOK' /\ RecordedAtCur'
    BY <1>4 DEF RollbackMemory, historyVars, HandlerTypeOK, RecordedAtCur
  <2>5. FlagsTypeOK'
    BY <1>4 DEF RollbackMemory, historyVars, FlagsTypeOK
  <2> QED
    BY <2>2, <2>3, <2>4, <2>5
<1>5. ASSUME NEW s \in toDelete, DeletePoolState(s) \/ DeletePoolStateFails(s)
      PROVE  StorageInv'
  <2>1. dpools' \subseteq dpools /\ dmeta' = dmeta /\ dswaps' = dswaps
    BY <1>5 DEF DeletePoolState, DeletePoolStateFails, diskVars
  <2>2. StoreTypeOK' /\ UniquePools(dpools') /\ NoSwapAboveLatest'
    BY <2>1 DEF StoreTypeOK, PoolsAreMaps, UniquePools, NoSwapAboveLatest
  <2>3. PipelineTypeOK' /\ MemoryTypeOK' /\ UniquePools(pools')
    <3>1. UNCHANGED <<chainVars, cursor, queue, up, memoryVars>>
      BY <1>5 DEF DeletePoolState, DeletePoolStateFails
    <3>2. faults' \in Nat
      BY <1>5 DEF DeletePoolState, DeletePoolStateFails, PipelineTypeOK
    <3>3. PipelineTypeOK'
      BY <3>1, <3>2 DEF chainVars, PipelineTypeOK
    <3>4. MemoryTypeOK' /\ UniquePools(pools')
      BY <3>1 DEF memoryVars, MemoryTypeOK, PoolsAreMaps, UniquePools
    <3> QED
      BY <3>3, <3>4
  <2>4. HandlerTypeOK' /\ RecordedAtCur'
    BY <1>5 DEF DeletePoolState, DeletePoolStateFails, historyVars, HandlerTypeOK,
                RecordedAtCur
  <2>5. FlagsTypeOK'
    BY <1>5 DEF DeletePoolState, DeletePoolStateFails, historyVars, FlagsTypeOK
  <2> QED
    BY <2>2, <2>3, <2>4, <2>5 DEF PoolsAreMaps
<1>6. CASE RollbackReturns
  <2>1. PipelineTypeOK' /\ StoreTypeOK' /\ MemoryTypeOK' /\ PoolsAreMaps'
    BY <1>6 DEF RollbackReturns, chainVars, diskVars, memoryVars,
                PipelineTypeOK, StoreTypeOK, MemoryTypeOK, PoolsAreMaps, UniquePools
  <2>2. HandlerTypeOK' /\ RecordedAtCur' /\ NoSwapAboveLatest'
    BY <1>6, FS_EmptySet DEF RollbackReturns, HandlerIdle, diskVars, historyVars,
                             HandlerTypeOK, RecordedAtCur, NoSwapAboveLatest
  <2>3. FlagsTypeOK'
    BY <1>6 DEF RollbackReturns, HandlerIdle, historyVars, FlagsTypeOK
  <2> QED
    BY <2>1, <2>2, <2>3
<1> QED
  BY <1>1, <1>2, <1>3, <1>4, <1>5, <1>6

\* The process ends, or starts again from what is on disk.
LEMMA ProcessStep ==
    ASSUME StorageInv, RollbackReturnsError \/ Crash \/ Restart
    PROVE  StorageInv'
<1> USE DEF StorageInv, TypeOK
<1>1. UNCHANGED diskVars
  BY DEF RollbackReturnsError, Crash, Restart
<1>2. StoreTypeOK' /\ UniquePools(dpools') /\ NoSwapAboveLatest'
  BY <1>1 DEF diskVars, StoreTypeOK, PoolsAreMaps, UniquePools, NoSwapAboveLatest
<1>3. CASE RollbackReturnsError \/ Crash
  <2>1. ProcessEnds /\ UNCHANGED <<chainVars, cursor, rejected, refused, condemned>>
    BY <1>3 DEF RollbackReturnsError, Crash
  <2>2. faults' \in Nat
    BY <1>3 DEF RollbackReturnsError, Crash, PipelineTypeOK
  <2>3. PipelineTypeOK'
    BY <2>1, <2>2, EndType DEF chainVars, PipelineTypeOK
  <2>4. HandlerTypeOK'
    BY <2>1, EndKeepsHandler
  <2>5. FlagsTypeOK'
    BY <2>1, EndType DEF FlagsTypeOK
  <2> QED
    BY <1>2, <2>1, <2>3, <2>4, <2>5, EndType DEF PoolsAreMaps
<1>4. CASE Restart
  <2>1. HandlerTypeOK' /\ RecordedAtCur'
    BY <1>4 DEF Restart, handlerVars, HandlerTypeOK, RecordedAtCur
  <2>2. FlagsTypeOK'
    BY <1>4 DEF Restart, handlerVars, FlagsTypeOK
  <2>3. CASE RestoreRejects(dmeta, dswaps)
    <3>1. UNCHANGED <<chain, sent, blocks, reorgs, faults, queue, cursor, memoryVars>>
      BY <1>4, <2>3 DEF Restart
    <3> QED
      BY <1>2, <2>1, <2>2, <3>1 DEF memoryVars, PipelineTypeOK, MemoryTypeOK,
                                    PoolsAreMaps, UniquePools
  <2>4. CASE ~RestoreRejects(dmeta, dswaps)
    <3>1. /\ sent' = CHOOSE k \in 0..Len(chain) : Point(BlockAt(k)) = cursor
          /\ queue' = <<RollbackEvent(cursor.slot)>>
          /\ LoadPersistedStates
          /\ UNCHANGED <<chain, blocks, reorgs, faults, cursor>>
      BY <1>4, <2>4 DEF Restart
    <3>2. sent' \in 0..Len(chain)
      BY <1>4, <3>1 DEF Restart, OnChain
    <3>3. queue' \in Seq(Event)
      <4>1. RollbackEvent(cursor.slot) \in Event
        BY RollbackEventType DEF PipelineTypeOK
      <4> QED
        BY <3>1, <4>1
    <3>4. PipelineTypeOK'
      BY <3>1, <3>2, <3>3 DEF PipelineTypeOK
    <3>5. MemoryTypeOK' /\ UniquePools(pools')
      BY <3>1 DEF LoadPersistedStates, RestoredLatest, RestoredSwaps, Prune,
                  StoreTypeOK, MemoryTypeOK, PoolsAreMaps, UniquePools
    <3> QED
      BY <1>2, <2>1, <2>2, <3>4, <3>5 DEF PoolsAreMaps
  <2> QED
    BY <2>3, <2>4
<1> QED
  BY <1>3, <1>4

\* What the node and the pipeline do disturbs no part of the store.
LEMMA NodeStep == ASSUME StorageInv, Node PROVE StorageInv'
<1> USE DEF StorageInv, TypeOK
<1>1. PipelineTypeOK'
  BY NodeKeepsPipeline
<1>2. UNCHANGED <<up, diskVars, memoryVars, handlerVars, historyVars>>
  BY NodeKeepsTheRest
<1>3. StoreTypeOK' /\ MemoryTypeOK' /\ PoolsAreMaps' /\ NoSwapAboveLatest'
  BY <1>2 DEF diskVars, memoryVars, StoreTypeOK, MemoryTypeOK, PoolsAreMaps,
              UniquePools, NoSwapAboveLatest
<1>4. HandlerTypeOK' /\ RecordedAtCur'
  BY <1>2 DEF handlerVars, historyVars, HandlerTypeOK, RecordedAtCur
<1>5. FlagsTypeOK'
  BY <1>2 DEF handlerVars, historyVars, FlagsTypeOK
<1> QED
  BY <1>1, <1>3, <1>4, <1>5

\* A fresh database satisfies the invariant.
LEMMA StorageInit == ASSUME Init PROVE StorageInv
<1>1. FlagsTypeOK
  BY DEF Init, FlagsTypeOK
<1>2. PipelineTypeOK
  <2>1. chain \in Seq([slot: Nat, hash: Nat, outs: Seq(DOMAIN Outputs)])
    BY EmptySeq DEF Init
  <2>2. sent \in 0..Len(chain)
    BY DEF Init
  <2>3. queue \in Seq(Event)
    <3>1. RollbackEvent(0) \in Event
      BY RollbackEventType
    <3> QED
      BY <3>1 DEF Init
  <2>4. cursor \in [slot: Nat, hash: Nat]
    BY DEF Init, Point, Origin
  <2>5. blocks \in Nat /\ reorgs \in Nat /\ faults \in Nat
    BY DEF Init
  <2> QED
    BY <2>1, <2>2, <2>3, <2>4, <2>5 DEF PipelineTypeOK
<1>3. StoreTypeOK /\ MemoryTypeOK
  BY FS_EmptySet DEF Init, StoreTypeOK, MemoryTypeOK
<1>4. HandlerTypeOK
  BY FS_EmptySet DEF Init, HandlerTypeOK
<1>5. PoolsAreMaps /\ RecordedAtCur /\ NoSwapAboveLatest
  BY DEF Init, PoolsAreMaps, UniquePools, RecordedAtCur, NoSwapAboveLatest
<1> QED
  BY <1>1, <1>2, <1>3, <1>4, <1>5 DEF StorageInv, TypeOK

\* A step that changes nothing keeps the invariant.
LEMMA StorageStutters == ASSUME StorageInv, UNCHANGED vars PROVE StorageInv'
<1> USE DEF StorageInv, TypeOK, vars
<1>1. PipelineTypeOK' /\ StoreTypeOK' /\ MemoryTypeOK'
  BY DEF chainVars, diskVars, memoryVars, PipelineTypeOK, StoreTypeOK, MemoryTypeOK
<1>2. HandlerTypeOK'
  BY DEF handlerVars, historyVars, HandlerTypeOK
<1>3. FlagsTypeOK'
  BY DEF handlerVars, historyVars, FlagsTypeOK
<1>4. PoolsAreMaps' /\ RecordedAtCur' /\ NoSwapAboveLatest'
  BY DEF diskVars, memoryVars, handlerVars, PoolsAreMaps, UniquePools,
         RecordedAtCur, NoSwapAboveLatest
<1> QED
  BY <1>1, <1>2, <1>3, <1>4

\* The invariant is inductive.
LEMMA StorageStep == ASSUME StorageInv, [Next]_vars PROVE StorageInv'
<1>1. CASE Handler
  BY <1>1, UpdateStep, RollbackStep, ProcessStep DEF Handler
<1>2. CASE Faults
  BY <1>2, RollbackStep, ProcessStep DEF Faults
<1>3. CASE Node
  BY <1>3, NodeStep
<1>4. CASE Restart
  BY <1>4, ProcessStep
<1>5. CASE UNCHANGED vars
  BY <1>5, StorageStutters
<1> QED
  BY <1>1, <1>2, <1>3, <1>4, <1>5 DEF Next

\* It holds in every reachable state.
LEMMA StorageInvariant == Spec => []StorageInv
<1>1. Init => StorageInv
  BY StorageInit
<1> QED
  BY <1>1, StorageStep, PTL DEF Spec

-----------------------------------------------------------------------------

\* Type correctness, for every value of the constants.
THEOREM TypeCorrect == Spec => []TypeOK
<1>1. StorageInv => TypeOK
  BY DEF StorageInv
<1> QED
  BY <1>1, StorageInvariant, PTL

\* No step of a save or of a rollback, and no crash between two of them, leaves
\* a swap on disk above the recorded latest slot.
THEOREM StoreStaysOrdered == Spec => []NoSwapAboveLatest
<1>1. StorageInv => NoSwapAboveLatest
  BY DEF StorageInv
<1> QED
  BY <1>1, StorageInvariant, PTL

\* Whatever was interrupted, loadPersistedStates accepts what it finds.
THEOREM StartSucceeds == Spec => []StartNeverRefused
<1>1. Init => StartNeverRefused
  BY DEF Init, StartNeverRefused
<1>2. ASSUME StorageInv, StartNeverRefused, [Next]_vars PROVE StartNeverRefused'
  <2>1. ~RestoreRejects(dmeta, dswaps)
    <3>1. \A w \in dswaps : w.slot \in Nat /\ w.slot <= dmeta
      BY <1>2 DEF StorageInv, TypeOK, StoreTypeOK, SwapTransition, NoSwapAboveLatest
    <3>2. dmeta \in Int
      BY <1>2 DEF StorageInv, TypeOK, StoreTypeOK, NoMeta
    <3> QED
      BY <3>1, <3>2 DEF RestoreRejects
  <2>2. CASE Restart
    BY <1>2, <2>1, <2>2 DEF Restart, StartNeverRefused
  <2>3. CASE Node
    BY <1>2, <2>3, NodeKeepsTheRest DEF historyVars, StartNeverRefused
  <2>4. CASE Handler \/ Faults \/ UNCHANGED vars
    BY <1>2, <2>4
       DEF Handler, Faults, vars, historyVars, StartNeverRefused, ObserveState,
           SavePoolStateAndActivity, PublishState, StartRollback,
           RollbackActivityBatch, RollbackMemory, DeletePoolState, RollbackReturns,
           RollbackReturnsError, RollbackActivityFails, DeletePoolStateFails, Crash
  <2> QED
    BY <1>2, <2>2, <2>3, <2>4 DEF Next
<1> QED
  BY <1>1, <1>2, StorageInvariant, PTL DEF Spec

-----------------------------------------------------------------------------
(* The queue                                                               *)

\* All events from the i-th to the j-th are updates.
Updates(q, i, j) == \A m \in i..j : q[m].type = "transaction"

\* Updates that no queued rollback precedes, and whether there is a rollback.
Leading(q) == {q[j].state : j \in {k \in 1..Len(q) : Updates(q, 1, k)}}
NoRollback(q) == Updates(q, 1, Len(q))
RollbackSlots(q) == {q[j].slot : j \in {k \in 1..Len(q) : q[k].type = "rollback"}}

\* State s comes after r, which has a slot and an output.
Before(r, s) == r.slot < s.slot \/ (r.slot = s.slot /\ r.utxo # s.utxo)

\* State s may come after event e if only updates are between them.
Follows(e, s) == IF e.type = "transaction" THEN Before(e.state, s)
                 ELSE e.slot < s.slot
SlotOf(e) == IF e.type = "transaction" THEN e.state.slot ELSE e.slot

InOrder(q) ==
    \A i, j \in 1..Len(q) :
        i < j /\ Updates(q, i + 1, j) => Follows(q[i], q[j].state)

\* What is after the last rollback, and that rollback, are not later than n.
EndsBy(q, n) ==
    \A i \in 1..Len(q) : Updates(q, i + 1, Len(q)) => SlotOf(q[i]) <= n

\* An event is an update with a pool state or a rollback with a slot.
LEMMA EventParts ==
    ASSUME NEW e \in Event
    PROVE  \/ e.type = "transaction" /\ e.state \in PoolState /\ e.state.slot \in Nat
           \/ e.type = "rollback" /\ e.slot \in Nat
  BY DEF Event, PoolState

\* The queue after its first event was taken.
LEMMA TailOfQueue ==
    ASSUME NEW q \in Seq(Event), q # <<>>
    PROVE  /\ Tail(q) \in Seq(Event) /\ Len(q) \in Nat /\ Len(q) >= 1
           /\ Len(Tail(q)) = Len(q) - 1 /\ Head(q) = q[1] /\ Head(q) \in Event
           /\ \A i \in 1..Len(Tail(q)) : Tail(q)[i] = q[i + 1]
           /\ \A i, j \in Nat : i >= 1 /\ j <= Len(Tail(q)) =>
                (Updates(Tail(q), i, j) <=> Updates(q, i + 1, j + 1))
<1> DEFINE t == Tail(q)
<1>1. /\ t \in Seq(Event) /\ Len(q) \in Nat /\ Len(q) >= 1 /\ Len(t) = Len(q) - 1
      /\ \A i \in 1..Len(t) : t[i] = q[i + 1]
      /\ Head(q) = q[1] /\ Head(q) \in Event
  BY HeadTailProperties, EmptySeq
<1> HIDE DEF t
<1>2. ASSUME NEW i \in Nat, NEW j \in Nat, i >= 1, j <= Len(t)
      PROVE  Updates(t, i, j) <=> Updates(q, i + 1, j + 1)
  <2>1. ASSUME Updates(t, i, j), NEW m \in (i + 1)..(j + 1)
        PROVE  q[m].type = "transaction"
    <3>1. m - 1 \in i..j /\ m - 1 \in 1..Len(t) /\ (m - 1) + 1 = m
      BY <1>1, <1>2, <2>1
    <3> QED
      BY <1>1, <2>1, <3>1 DEF Updates
  <2>2. ASSUME Updates(q, i + 1, j + 1), NEW m \in i..j
        PROVE  t[m].type = "transaction"
    <3>1. m + 1 \in (i + 1)..(j + 1) /\ m \in 1..Len(t)
      BY <1>1, <1>2, <2>2
    <3> QED
      BY <1>1, <2>2, <3>1 DEF Updates
  <2> QED
    BY <2>1, <2>2 DEF Updates
<1> QED
  BY <1>1, <1>2 DEF t

\* Taking an event leaves the rest in order.
LEMMA TakeFromQueue ==
    ASSUME NEW q \in Seq(Event), q # <<>>, InOrder(q), NEW n \in Nat, EndsBy(q, n)
    PROVE  /\ InOrder(Tail(q)) /\ EndsBy(Tail(q), n)
           /\ \A s \in Leading(Tail(q)) : Follows(Head(q), s)
           /\ RollbackSlots(Tail(q)) \subseteq RollbackSlots(q)
           /\ NoRollback(Tail(q)) => SlotOf(Head(q)) <= n
           /\ Head(q).type = "transaction" =>
                 /\ Head(q).state \in Leading(q)
                 /\ Leading(Tail(q)) \subseteq Leading(q)
                 /\ NoRollback(Tail(q)) => NoRollback(q)
           /\ Head(q).type = "rollback" => Head(q).slot \in RollbackSlots(q)
<1> DEFINE t == Tail(q)
<1>1. /\ t \in Seq(Event) /\ Len(q) \in Nat /\ Len(q) >= 1
      /\ Len(t) = Len(q) - 1 /\ Head(q) = q[1] /\ Head(q) \in Event
      /\ \A i \in 1..Len(t) : t[i] = q[i + 1]
      /\ \A i, j \in Nat : i >= 1 /\ j <= Len(t) =>
                (Updates(t, i, j) <=> Updates(q, i + 1, j + 1))
  BY TailOfQueue
<1> HIDE DEF t
<1>2. InOrder(t)
  <2> SUFFICES ASSUME NEW i \in 1..Len(t), NEW j \in 1..Len(t), i < j,
                      Updates(t, i + 1, j)
               PROVE  Follows(t[i], t[j].state)
    BY DEF InOrder
  <2>1. /\ i + 1 \in 1..Len(q) /\ j + 1 \in 1..Len(q) /\ i + 1 < j + 1
        /\ i + 1 \in Nat /\ j \in Nat /\ i + 1 >= 1 /\ j <= Len(t)
    BY <1>1
  <2>2. Updates(q, (i + 1) + 1, j + 1)
    BY <1>1, <2>1
  <2>3. Follows(q[i + 1], q[j + 1].state)
    BY <2>1, <2>2 DEF InOrder
  <2> QED
    BY <1>1, <2>3
<1>3. EndsBy(t, n)
  <2> SUFFICES ASSUME NEW i \in 1..Len(t), Updates(t, i + 1, Len(t))
               PROVE  SlotOf(t[i]) <= n
    BY DEF EndsBy
  <2>1. /\ i + 1 \in 1..Len(q) /\ i + 1 \in Nat /\ Len(t) \in Nat /\ i + 1 >= 1
        /\ Len(t) + 1 = Len(q)
    BY <1>1
  <2>2. Updates(q, (i + 1) + 1, Len(t) + 1)
    BY <1>1, <2>1
  <2>3. SlotOf(q[i + 1]) <= n
    BY <2>1, <2>2 DEF EndsBy
  <2> QED
    BY <1>1, <2>3
<1>4. ASSUME NEW s \in Leading(t) PROVE Follows(q[1], s)
  <2>1. PICK k \in 1..Len(t) : Updates(t, 1, k) /\ s = t[k].state
    BY DEF Leading
  <2>2. /\ 1 \in Nat /\ k \in Nat /\ 1 \in 1..Len(q) /\ k + 1 \in 1..Len(q)
        /\ 1 < k + 1
    BY <1>1
  <2>3. Updates(q, 1 + 1, k + 1)
    BY <1>1, <2>1, <2>2
  <2>4. s = q[k + 1].state
    BY <1>1, <2>1
  <2> QED
    BY <2>2, <2>3, <2>4 DEF InOrder
<1>5. RollbackSlots(t) \subseteq RollbackSlots(q)
  <2> SUFFICES ASSUME NEW k \in 1..Len(t), t[k].type = "rollback"
               PROVE  t[k].slot \in RollbackSlots(q)
    BY DEF RollbackSlots
  <2>1. k + 1 \in 1..Len(q) /\ t[k] = q[k + 1]
    BY <1>1
  <2> QED
    BY <2>1 DEF RollbackSlots
<1>6. ASSUME NoRollback(t) PROVE SlotOf(q[1]) <= n
  <2>1. 1 \in Nat /\ Len(t) \in Nat /\ 1 \in 1..Len(q) /\ Len(t) + 1 = Len(q)
    BY <1>1
  <2>2. Updates(q, 1 + 1, Len(t) + 1)
    BY <1>1, <1>6, <2>1 DEF NoRollback
  <2> QED
    BY <2>1, <2>2 DEF EndsBy
<1>7. ASSUME q[1].type = "transaction"
      PROVE  /\ q[1].state \in Leading(q) /\ Leading(t) \subseteq Leading(q)
             /\ NoRollback(t) => NoRollback(q)
  <2>1. \A k \in 1..Len(q) : Updates(q, 2, k) => Updates(q, 1, k)
    BY <1>1, <1>7 DEF Updates
  <2>2. 1 \in 1..Len(q) /\ Updates(q, 2, 1)
    BY <1>1 DEF Updates
  <2>3. ASSUME NEW k \in 1..Len(t), Updates(t, 1, k)
        PROVE  t[k].state \in Leading(q)
    <3>1. /\ 1 \in Nat /\ k \in Nat /\ k + 1 \in 1..Len(q) /\ 1 + 1 = 2
          /\ t[k] = q[k + 1] /\ k <= Len(t)
      BY <1>1
    <3>2. Updates(q, 1 + 1, k + 1)
      BY <1>1, <2>3, <3>1
    <3> QED
      BY <2>1, <3>1, <3>2 DEF Leading
  <2>4. ASSUME NoRollback(t) PROVE NoRollback(q)
    <3>1. 1 \in Nat /\ Len(t) \in Nat /\ Len(q) \in 1..Len(q) /\ Len(t) + 1 = Len(q) /\ 1 + 1 = 2
      BY <1>1
    <3>2. Updates(q, 1 + 1, Len(t) + 1)
      BY <1>1, <2>4, <3>1 DEF NoRollback
    <3> QED
      BY <2>1, <3>1, <3>2 DEF NoRollback
  <2>5. q[1].state \in Leading(q)
    BY <2>1, <2>2 DEF Leading
  <2> QED
    BY <2>3, <2>4, <2>5 DEF Leading
<1>8. q[1].type = "rollback" => q[1].slot \in RollbackSlots(q)
  BY <1>1 DEF RollbackSlots
<1> QED
  BY <1>1, <1>2, <1>3, <1>4, <1>5, <1>6, <1>7, <1>8 DEF t

\* Chain-sync rolls backward: the rollback follows everything in the queue.
LEMMA RollbackJoinsQueue ==
    ASSUME NEW q \in Seq(Event), InOrder(q), NEW n \in Nat
    PROVE  LET r == Append(q, RollbackEvent(n))
           IN  /\ InOrder(r) /\ EndsBy(r, n) /\ ~NoRollback(r)
               /\ Leading(r) \subseteq Leading(q)
               /\ RollbackSlots(r) = RollbackSlots(q) \cup {n}
<1> DEFINE e == RollbackEvent(n)
           r == Append(q, e)
<1>1. /\ Len(q) \in Nat /\ Len(r) = Len(q) + 1 /\ r[Len(r)] = e
      /\ \A i \in 1..Len(q) : r[i] = q[i]
  BY RollbackEventType
<1>2. e.type = "rollback" /\ e.slot = n
  BY DEF RollbackEvent
<1> HIDE DEF e, r
<1>3. ASSUME NEW j \in Nat, j >= Len(r), NEW i \in Nat, i <= Len(r) PROVE ~Updates(r, i, j)
  BY <1>1, <1>2, <1>3 DEF Updates
<1>4. ASSUME NEW i \in Nat, NEW j \in Nat, i >= 1, j <= Len(q)
      PROVE  Updates(r, i, j) <=> Updates(q, i, j)
  BY <1>1, <1>4 DEF Updates
<1>5. InOrder(r)
  <2> SUFFICES ASSUME NEW i \in 1..Len(r), NEW j \in 1..Len(r), i < j, Updates(r, i + 1, j)
               PROVE  Follows(r[i], r[j].state)
    BY DEF InOrder
  <2>1. i + 1 \in Nat /\ j \in Nat /\ i + 1 <= Len(r) /\ i + 1 >= 1
    BY <1>1
  <2>2. j <= Len(q) /\ i \in 1..Len(q) /\ j \in 1..Len(q)
    BY <1>1, <1>3, <2>1
  <2> QED
    BY <1>1, <1>4, <2>1, <2>2 DEF InOrder
<1>6. EndsBy(r, n)
  <2> SUFFICES ASSUME NEW i \in 1..Len(r), Updates(r, i + 1, Len(r))
               PROVE  SlotOf(r[i]) <= n
    BY DEF EndsBy
  <2>1. i = Len(r)
    BY <1>1, <1>3
  <2> QED
    BY <1>1, <1>2, <2>1 DEF SlotOf
<1>7. ~NoRollback(r)
  BY <1>1, <1>3 DEF NoRollback
<1>8. Leading(r) \subseteq Leading(q)
  <2> SUFFICES ASSUME NEW k \in 1..Len(r), Updates(r, 1, k)
               PROVE  r[k].state \in Leading(q)
    BY DEF Leading
  <2>1. k \in 1..Len(q)
    BY <1>1, <1>3
  <2>2. Updates(q, 1, k)
    BY <1>1, <1>4, <2>1
  <2> QED
    BY <1>1, <2>1, <2>2 DEF Leading
<1>9. RollbackSlots(r) = RollbackSlots(q) \cup {n}
  <2>1. ASSUME NEW k \in 1..Len(r), r[k].type = "rollback"
        PROVE  r[k].slot \in RollbackSlots(q) \cup {n}
    <3>1. k = Len(r) \/ k \in 1..Len(q)
      BY <1>1
    <3> QED
      BY <1>1, <1>2, <2>1, <3>1 DEF RollbackSlots
  <2>2. ASSUME NEW k \in 1..Len(q), q[k].type = "rollback"
        PROVE  q[k].slot \in RollbackSlots(r)
    <3>1. k \in 1..Len(r) /\ r[k] = q[k]
      BY <1>1
    <3> QED
      BY <2>2, <3>1 DEF RollbackSlots
  <2>3. n \in RollbackSlots(r)
    <3>1. Len(r) \in 1..Len(r)
      BY <1>1
    <3> QED
      BY <1>1, <1>2, <3>1 DEF RollbackSlots
  <2> QED
    BY <2>1, <2>2, <2>3 DEF RollbackSlots
<1> QED
  BY <1>5, <1>6, <1>7, <1>8, <1>9 DEF r, e

\* The events of a block.
BlockEvents(b) == [i \in 1..Len(b.outs) |-> UpdateEvent(StateOf(b, b.outs[i]))]

\* Queue r is queue q and updates of block b.
JoinedBy(r, q, b) ==
    /\ Len(q) <= Len(r) /\ \A k \in 1..Len(q) : r[k] = q[k]
    /\ \A k \in 1..Len(r) :
          \/ k <= Len(q) /\ r[k] = q[k]
          \/ /\ k > Len(q) /\ r[k].type = "transaction"
             /\ \E u \in Elements(b.outs) : r[k].state = StateOf(b, u)

\* Chain-sync rolls forward to a block after everything the queue ends with:
\* the block's outputs join it, each once.
LEMMA BlockJoinsQueue ==
    ASSUME NEW q \in Seq(Event), InOrder(q), NEW n \in Nat, EndsBy(q, n),
           NEW b \in [slot: Nat, hash: Nat, outs: Seq(DOMAIN Outputs)], n < b.slot,
           \A i, j \in 1..Len(b.outs) : b.outs[i] = b.outs[j] => i = j
    PROVE  LET r == q \o BlockEvents(b)
           IN  /\ InOrder(r) /\ EndsBy(r, b.slot)
               /\ NoRollback(r) => NoRollback(q)
               /\ \A s \in Leading(r) :
                     s \in Leading(q) \/ (NoRollback(q) /\ s.slot = b.slot)
               /\ RollbackSlots(r) = RollbackSlots(q)
               /\ JoinedBy(r, q, b)
<1> DEFINE new == BlockEvents(b)
           r == q \o new
           l == Len(q)
           d == Len(b.outs)
<1>1. d \in Nat /\ l \in Nat /\ b.outs \in Seq(DOMAIN Outputs) /\ b.slot \in Nat
  OBVIOUS
<1>2. \A i \in 1..d : b.outs[i] \in DOMAIN Outputs
  BY <1>1, ElementOfSeq
<1>3. ASSUME NEW i \in 1..d
      PROVE  /\ new[i].type = "transaction" /\ new[i].state = StateOf(b, b.outs[i])
             /\ new[i].state.slot = b.slot /\ new[i].state.utxo = b.outs[i]
             /\ new[i] \in Event
  <2>1. new[i] = UpdateEvent(StateOf(b, b.outs[i]))
    BY DEF BlockEvents
  <2>2. StateOf(b, b.outs[i]) \in PoolState
    BY <1>2, StateType
  <2> QED
    BY <2>1, <2>2 DEF UpdateEvent, StateOf, Event
<1>4. new \in Seq(Event) /\ Len(new) = d
  <2>1. new \in [1..d -> Event]
    BY <1>3 DEF BlockEvents
  <2> QED
    BY <1>1, <2>1 DEF BlockEvents
<1>5. /\ Len(r) = l + d
      /\ \A k \in 1..l : r[k] = q[k]
      /\ \A k \in (l + 1)..(l + d) : r[k] = new[k - l]
  BY <1>1, <1>4, ConcatProperties
<1> HIDE DEF new, r, l, d
<1>6. ASSUME NEW k \in 1..Len(r), k > l
      PROVE  /\ k - l \in 1..d /\ r[k] = new[k - l]
             /\ r[k].type = "transaction" /\ r[k].state = StateOf(b, b.outs[k - l])
             /\ r[k].state.slot = b.slot /\ r[k].state.utxo = b.outs[k - l]
  <2>1. k - l \in 1..d /\ k \in (l + 1)..(l + d)
    BY <1>1, <1>5, <1>6
  <2> QED
    BY <1>3, <1>5, <2>1
<1>7. ASSUME NEW i \in Nat, NEW j \in Nat, i >= 1, j <= l
      PROVE  Updates(r, i, j) <=> Updates(q, i, j)
  <2>1. \A m \in i..j : m \in 1..l
    BY <1>1, <1>7
  <2> QED
    BY <1>5, <2>1 DEF Updates
<1>8. ASSUME NEW i \in Nat, NEW j \in Nat, i >= 1, j >= l, Updates(r, i, j)
      PROVE  Updates(q, i, l)
  BY <1>1, <1>5, <1>8 DEF Updates, l
<1>9. l <= Len(r) /\ Len(r) \in Nat
  BY <1>1, <1>5
<1>10. InOrder(r)
  <2> SUFFICES ASSUME NEW i \in 1..Len(r), NEW j \in 1..Len(r), i < j, Updates(r, i + 1, j)
               PROVE  Follows(r[i], r[j].state)
    BY DEF InOrder
  <2>1. i + 1 \in Nat /\ j \in Nat /\ i + 1 >= 1
    BY <1>9
  <2>2. CASE j <= l
    <3>1. i \in 1..Len(q) /\ j \in 1..Len(q) /\ i \in 1..l /\ j \in 1..l
      BY <1>1, <2>2 DEF l
    <3>2. Follows(q[i], q[j].state)
      BY <1>7, <2>1, <2>2, <3>1 DEF InOrder
    <3> QED
      BY <1>5, <3>1, <3>2
  <2>3. CASE i <= l /\ j > l
    <3>1. Updates(q, i + 1, l) /\ i \in 1..l
      BY <1>1, <1>8, <2>1, <2>3
    <3>2. SlotOf(q[i]) <= n /\ r[i] = q[i]
      BY <1>5, <3>1 DEF EndsBy, l
    <3>3. r[j].state.slot = b.slot
      BY <1>6, <2>3
    <3>4. q[i] \in Event
      BY <3>1, ElementOfSeq DEF l
    <3>5. \/ /\ q[i].type = "transaction" /\ q[i].state.slot \in Nat
             /\ q[i].state.slot <= n
          \/ q[i].type = "rollback" /\ q[i].slot \in Nat /\ q[i].slot <= n
      BY <3>2, <3>4, EventParts DEF SlotOf
    <3> QED
      BY SMTT(30), <1>1, <3>2, <3>3, <3>5 DEF Follows, Before
  <2>4. CASE i > l
    <3>1. j > l
      BY <1>1, <1>9, <2>4
    <3>2. /\ i - l \in 1..d /\ r[i].type = "transaction"
          /\ r[i].state.slot = b.slot /\ r[i].state.utxo = b.outs[i - l]
      BY <1>6, <2>4
    <3>3. /\ j - l \in 1..d /\ r[j].state.slot = b.slot /\ r[j].state.utxo = b.outs[j - l]
      BY <1>6, <3>1
    <3>4. i - l # j - l
      BY <1>1, <1>9
    <3>5. b.outs[i - l] # b.outs[j - l]
      BY <3>2, <3>3, <3>4 DEF d
    <3> QED
      BY <3>2, <3>3, <3>5 DEF Follows, Before
  <2> QED
    BY <1>1, <1>9, <2>2, <2>3, <2>4
<1>11. EndsBy(r, b.slot)
  <2> SUFFICES ASSUME NEW i \in 1..Len(r), Updates(r, i + 1, Len(r))
               PROVE  SlotOf(r[i]) <= b.slot
    BY DEF EndsBy
  <2>1. CASE i > l
    BY <1>1, <1>6, <2>1 DEF SlotOf
  <2>2. CASE i <= l
    <3>1. i \in 1..l /\ i + 1 \in Nat /\ i + 1 >= 1
      BY <1>1, <1>9, <2>2
    <3>2. Updates(q, i + 1, l)
      BY <1>8, <1>9, <3>1
    <3>3. SlotOf(q[i]) <= n /\ r[i] = q[i]
      BY <1>5, <3>1, <3>2 DEF EndsBy, l
    <3>4. q[i] \in Event
      BY <3>1, ElementOfSeq DEF l
    <3>5. SlotOf(q[i]) \in Nat
      BY <3>4, EventParts DEF SlotOf
    <3> QED
      BY <1>1, <3>3, <3>5
  <2> QED
    BY <1>1, <1>9, <2>1, <2>2
<1>12. NoRollback(r) => NoRollback(q)
  BY <1>8, <1>9 DEF NoRollback, l
<1>13. ASSUME NEW s \in Leading(r)
       PROVE  s \in Leading(q) \/ (NoRollback(q) /\ s.slot = b.slot)
  <2>1. PICK k \in 1..Len(r) : Updates(r, 1, k) /\ s = r[k].state
    BY DEF Leading
  <2>2. CASE k <= l
    <3>1. k \in 1..l /\ Updates(q, 1, k) /\ r[k] = q[k]
      BY <1>1, <1>5, <1>7, <2>1, <2>2
    <3> QED
      BY <2>1, <3>1 DEF Leading, l
  <2>3. CASE k > l
    <3>1. 1 \in Nat /\ k \in Nat /\ k >= l
      BY <1>1, <1>9, <2>3
    <3>2. Updates(q, 1, l)
      BY <1>8, <2>1, <3>1
    <3> QED
      BY <1>6, <2>1, <2>3, <3>2 DEF NoRollback, l
  <2> QED
    BY <1>1, <1>9, <2>2, <2>3
<1>14. RollbackSlots(r) = RollbackSlots(q)
  <2>1. ASSUME NEW k \in 1..Len(r), r[k].type = "rollback"
        PROVE  k \in 1..l /\ r[k] = q[k]
    <3>1. ~(k > l)
      BY <1>6, <2>1
    <3> QED
      BY <1>1, <1>5, <1>9, <3>1
  <2>2. ASSUME NEW k \in 1..l PROVE k \in 1..Len(r) /\ r[k] = q[k]
    BY <1>1, <1>5, <1>9
  <2> QED
    BY SMTT(30), <2>1, <2>2 DEF RollbackSlots, l
<1>15. ASSUME NEW k \in 1..Len(r)
       PROVE  \/ k <= Len(q) /\ r[k] = q[k]
              \/ /\ k > Len(q) /\ r[k].type = "transaction"
                 /\ \E u \in Elements(b.outs) : r[k].state = StateOf(b, u)
  <2>1. CASE k <= l
    <3>1. k \in 1..l
      BY <1>1, <1>9, <2>1
    <3> QED
      BY <1>5, <2>1, <3>1 DEF l
  <2>2. CASE k > l
    <3>1. b.outs[k - l] \in Elements(b.outs)
      BY <1>6, <2>2 DEF Elements, d
    <3> QED
      BY <1>6, <2>2, <3>1 DEF l
  <2> QED
    BY <1>1, <1>9, <2>1, <2>2
<1>16. JoinedBy(r, q, b)
  <2>1. Len(q) <= Len(r)
    BY <1>1, <1>9 DEF l
  <2>2. \A k \in 1..Len(q) : r[k] = q[k]
    BY <1>5 DEF l
  <2> QED
    BY <1>15, <2>1, <2>2 DEF JoinedBy
<1> QED
  BY <1>10, <1>11, <1>12, <1>13, <1>14, <1>16 DEF new, r

-----------------------------------------------------------------------------
(* The inductive invariant                                                 *)

\* The slot of the newest block the client was sent.
Top == BlockAt(sent).slot

\* handleRollback runs; the tracker has not been rewound, or never will be.
RollbackRuns == pc \in {"batch", "memory", "delete"}
NotRewound == pc \in {"batch", "memory"} \/ failed

ChainInv ==
    /\ \A i \in 1..Len(chain) :
          /\ chain[i].slot \in 1..MaxSlot
          /\ \A a, b \in 1..Len(chain[i].outs) : chain[i].outs[a] = chain[i].outs[b] => a = b
    /\ \A i, j \in 1..Len(chain) : i < j => chain[i].slot < chain[j].slot
    /\ cursor.slot <= MaxSlot

QueueInv ==
    /\ InOrder(queue) /\ EndsBy(queue, Top)
    /\ \A n \in RollbackSlots(queue) : n <= MaxSlot

\* Everything the oracle holds is before state s, or the running rollback will
\* leave nothing that is not.
Ahead(s) ==
    /\ RollbackRuns => firstInvalid <= s.slot
    /\ ~NotRewound =>
          /\ latest <= s.slot
          /\ \A r \in swaps \cup dswaps \cup cur : Before(r, s)
          /\ \A r \in pools : r.slot <= s.slot
Reached(n) ==
    /\ RollbackRuns => firstInvalid <= n + 1
    /\ ~NotRewound =>
          /\ latest <= n
          /\ \A r \in swaps \cup dswaps \cup cur \cup pools : r.slot <= n

\* So it is before the updates it will handle first, and not after the client.
AheadInv == \A s \in Leading(queue) : Ahead(s)
ReachedInv == NoRollback(queue) => Reached(Top)

RollInv ==
    /\ RollbackRuns =>
          /\ firstInvalid > 0
          /\ \A s \in pools : s.slot < firstInvalid
          /\ \A s \in toDelete : s.slot >= firstInvalid
    /\ pc \in {"memory", "delete"} /\ ~failed => \A w \in dswaps : w.slot < firstInvalid
    /\ failed => pc \in {"memory", "delete"}
    /\ pc \notin {"persist", "publish"} => cur = {} /\ recorded = {}
    /\ pc \in {"persist", "publish"} => cur # {}

\* The pool states in the map, in the store and in the mempool manager differ
\* only by what the handler is doing.
CopiesInv ==
    /\ pc = "idle" => pools = dpools /\ confirmed = dpools
    /\ pc = "persist" =>
          /\ confirmed = dpools
          /\ \A s \in cur : /\ pools = Put(dpools, s)
                            /\ \A w \in dswaps : Before(w, s)
                            /\ \A w \in recorded : w.slot = s.slot /\ w.utxo = s.utxo
    /\ pc = "publish" => dpools = pools /\ \A s \in cur : dpools = Put(confirmed, s)
    /\ pc \in {"persist", "publish"} => \A s \in cur, c \in confirmed : c.slot <= s.slot
    /\ pc \in {"batch", "memory"} => confirmed = dpools /\ dpools = pools \cup toDelete
    /\ pc = "delete" => /\ confirmed = pools /\ pools \subseteq dpools
                        /\ toDelete \subseteq dpools
                        /\ ~failed => dpools = pools \cup toDelete

UpInv == QueueInv /\ AheadInv /\ ReachedInv /\ RollInv /\ CopiesInv
DownInv == confirmed = {} /\ pc = "idle" /\ cur = {} /\ recorded = {} /\ ~failed

PipeInv ==
    /\ ChainInv
    /\ ~rejected
    /\ up => UpInv
    /\ ~up => DownInv

-----------------------------------------------------------------------------
(* The node and the pipeline                                               *)

\* Slots grow along the chain, from the origin.
LEMMA BlockOrder ==
    ASSUME PipelineTypeOK, ChainInv, NEW i \in 0..Len(chain), NEW j \in 0..Len(chain)
    PROVE  /\ BlockAt(i).slot \in Nat /\ BlockAt(i).slot <= MaxSlot
           /\ i < j => BlockAt(i).slot < BlockAt(j).slot
<1>1. Len(chain) \in Nat /\ MaxSlot \in Nat
  BY SlotsAssumption DEF PipelineTypeOK
<1>2. \A k \in 0..Len(chain) : k = 0 \/ k \in 1..Len(chain)
  BY <1>1
<1>3. BlockAt(0).slot = 0
  BY DEF BlockAt, Origin
<1>4. \A k \in 1..Len(chain) : BlockAt(k) = chain[k] /\ chain[k].slot \in 1..MaxSlot
  BY <1>1 DEF BlockAt, ChainInv
<1>5. BlockAt(i).slot \in 0..MaxSlot
  BY <1>1, <1>2, <1>3, <1>4
<1>6. ASSUME i < j PROVE BlockAt(i).slot < BlockAt(j).slot
  <2>1. j \in 1..Len(chain)
    BY <1>1, <1>6
  <2>2. CASE i = 0
    BY <1>3, <1>4, <2>1, <2>2
  <2>3. CASE i \in 1..Len(chain)
    BY <1>4, <1>6, <2>1, <2>3 DEF ChainInv
  <2> QED
    BY <1>2, <2>2, <2>3
<1> QED
  BY <1>1, <1>5, <1>6

\* The newest block sent has a slot.
LEMMA TopType ==
    ASSUME PipelineTypeOK, ChainInv PROVE Top \in Nat /\ Top <= MaxSlot
  BY BlockOrder DEF Top, PipelineTypeOK

\* What the queue leads with are pool states.
LEMMA LeadingType ==
    ASSUME NEW q \in Seq(Event) PROVE Leading(q) \subseteq PoolState
<1> SUFFICES ASSUME NEW k \in 1..Len(q), Updates(q, 1, k) PROVE q[k].state \in PoolState
  BY DEF Leading
<1>1. q[k] \in Event
  BY ElementOfSeq
<1>2. q[k].type = "transaction"
  BY DEF Updates
<1> QED
  BY <1>1, <1>2, EventParts

\* Everything after the newest block sent is ahead.
LEMMA ReachedIsBehind ==
    ASSUME TypeOK, NEW n \in Nat, Reached(n), NEW m \in Nat, n <= m
    PROVE  Reached(m) /\ \A s \in PoolState : n < s.slot => Ahead(s)
<1>1. firstInvalid \in Nat /\ latest \in Nat
  BY DEF TypeOK, MemoryTypeOK, HandlerTypeOK
<1>2. \A r \in swaps \cup dswaps \cup cur \cup pools : r.slot \in Nat
  BY DEF TypeOK, MemoryTypeOK, HandlerTypeOK, StoreTypeOK, SwapTransition, PoolState
<1>3. Reached(m)
  BY <1>1, <1>2 DEF Reached
<1>4. ASSUME NEW s \in PoolState, n < s.slot PROVE Ahead(s)
  <2>1. s.slot \in Nat
    BY DEF PoolState
  <2> QED
    BY <1>1, <1>2, <1>4, <2>1 DEF Reached, Ahead, Before
<1> QED
  BY <1>3, <1>4

\* The pipeline may gain events after the newest block and rollbacks.
LEMMA NodeMovesQueue ==
    ASSUME TypeOK, ChainInv, UpInv, UNCHANGED <<diskVars, memoryVars, handlerVars>>,
           PipelineTypeOK', ChainInv',
           InOrder(queue'), EndsBy(queue', Top'),
           \A n \in RollbackSlots(queue') : n <= MaxSlot,
           \A s \in Leading(queue') : s \in Leading(queue) \/ (NoRollback(queue) /\ Top < s.slot),
           NoRollback(queue') => NoRollback(queue) /\ Top <= Top'
    PROVE  UpInv'
<1>1. UNCHANGED <<dpools, dmeta, dswaps, pools, confirmed, latest, swaps, pc, cur,
                  recorded, firstInvalid, toDelete, failed>>
  BY DEF diskVars, memoryVars, handlerVars
<1>2. QueueInv'
  BY DEF QueueInv
<1>3. \A s : Ahead(s)' <=> Ahead(s)
  BY <1>1 DEF Ahead, RollbackRuns, NotRewound
<1>4. \A n : Reached(n)' <=> Reached(n)
  BY <1>1 DEF Reached, RollbackRuns, NotRewound
<1>5. Top \in Nat
  BY TopType DEF TypeOK
<1>6. Top' \in Nat
  <2>1. BlockAt(sent)'.slot \in Nat
    <3>1. /\ chain' \in Seq([slot: Nat, hash: Nat, outs: Seq(DOMAIN Outputs)])
          /\ sent' \in 0..Len(chain')
      BY DEF PipelineTypeOK
    <3>2. sent' = 0 \/ sent' \in 1..Len(chain')
      BY <3>1
    <3>3. \A k \in 1..Len(chain') : chain'[k].slot \in Nat
      BY SlotsAssumption DEF ChainInv
    <3> QED
      BY <3>2, <3>3 DEF BlockAt, Origin
  <2> QED
    BY <2>1 DEF Top
<1>7. Leading(queue') \subseteq PoolState
  BY LeadingType DEF PipelineTypeOK
<1>8. NoRollback(queue) => Reached(Top)
  BY DEF UpInv, ReachedInv
<1>9. AheadInv'
  <2> SUFFICES ASSUME NEW s \in Leading(queue') PROVE Ahead(s)
    BY <1>3 DEF AheadInv
  <2>1. CASE s \in Leading(queue)
    BY <2>1 DEF UpInv, AheadInv
  <2>2. CASE NoRollback(queue) /\ Top < s.slot
    BY <1>5, <1>7, <1>8, <2>2, ReachedIsBehind
  <2> QED
    BY <2>1, <2>2
<1>10. ReachedInv'
  <2> SUFFICES ASSUME NoRollback(queue') PROVE Reached(Top')
    BY <1>4 DEF ReachedInv
  <2> QED
    BY <1>5, <1>6, <1>8, ReachedIsBehind
<1>11. RollInv'
  BY <1>1 DEF UpInv, RollInv, RollbackRuns
<1>12. CopiesInv'
  BY <1>1 DEF UpInv, CopiesInv
<1> QED
  BY <1>2, <1>9, <1>10, <1>11, <1>12 DEF UpInv

\* The chain grows by a later block or loses its newest ones; its other blocks
\* stay where they are.
LEMMA NodeKeepsChain ==
    ASSUME PipelineTypeOK, PipelineTypeOK', ChainInv, Node
    PROVE  /\ ChainInv'
           /\ \A k \in 0..Len(chain) : k <= Len(chain') => BlockAt(k)' = BlockAt(k)
<1>1. /\ Len(chain) \in Nat /\ MaxSlot \in Nat /\ sent \in 0..Len(chain)
      /\ chain \in Seq([slot: Nat, hash: Nat, outs: Seq(DOMAIN Outputs)])
  BY SlotsAssumption DEF PipelineTypeOK
<1>2. ASSUME NEW outs \in Payloads, NEW slot \in 1..MaxSlot, NewBlock(outs, slot)
      PROVE  /\ ChainInv'
             /\ \A k \in 0..Len(chain) : k <= Len(chain') => BlockAt(k)' = BlockAt(k)
  <2> DEFINE b == [slot |-> slot, hash |-> blocks + 1, outs |-> outs]
  <2>1. chain' = Append(chain, b) /\ cursor' = cursor /\ slot > BlockAt(Len(chain)).slot
    BY <1>2 DEF NewBlock
  <2>2. b.slot = slot /\ b.outs = outs
    OBVIOUS
  <2> HIDE DEF b
  <2>3. /\ Len(chain') = Len(chain) + 1 /\ chain'[Len(chain) + 1] = b
        /\ \A k \in 1..Len(chain) : chain'[k] = chain[k]
    BY <1>1, <2>1, AppendProperties
  <2>4. \A k \in 1..Len(chain) : chain[k].slot < slot
    <3> SUFFICES ASSUME NEW k \in 1..Len(chain) PROVE chain[k].slot < slot
      OBVIOUS
    <3>1. k \in 0..Len(chain) /\ Len(chain) \in 0..Len(chain) /\ BlockAt(k) = chain[k]
      BY <1>1 DEF BlockAt
    <3>2. /\ BlockAt(k).slot \in Nat /\ BlockAt(Len(chain)).slot \in Nat
          /\ k < Len(chain) => BlockAt(k).slot < BlockAt(Len(chain)).slot
      BY <3>1, BlockOrder
    <3>3. slot \in Nat /\ (k = Len(chain) \/ k < Len(chain))
      BY <1>1
    <3>4. BlockAt(k).slot <= BlockAt(Len(chain)).slot
      BY <3>2, <3>3
    <3> QED
      BY <2>1, <3>1, <3>2, <3>3, <3>4
  <2>5. ChainInv'
    <3>1. \A k \in 1..Len(chain') : k \in 1..Len(chain) \/ k = Len(chain) + 1
      BY <1>1, <2>3
    <3>2. \A i, j \in 1..Len(outs) : outs[i] = outs[j] => i = j
      BY PayloadsAssumption
    <3>3. ASSUME NEW k \in 1..Len(chain')
          PROVE  /\ chain'[k].slot \in 1..MaxSlot
                 /\ \A i, j \in 1..Len(chain'[k].outs) :
                       chain'[k].outs[i] = chain'[k].outs[j] => i = j
      BY <2>2, <2>3, <3>1, <3>2 DEF ChainInv
    <3>4. ASSUME NEW i \in 1..Len(chain'), NEW j \in 1..Len(chain'), i < j
          PROVE  chain'[i].slot < chain'[j].slot
      <4>1. i \in 1..Len(chain)
        BY <1>1, <2>3, <3>4
      <4> QED
        BY <2>2, <2>3, <2>4, <3>1, <3>4, <4>1 DEF ChainInv
    <3> QED
      BY <2>1, <3>3, <3>4 DEF ChainInv
  <2> QED
    BY <1>1, <2>3, <2>5 DEF BlockAt
<1>3. ASSUME NEW k \in 0..Len(chain), Reorg(k)
      PROVE  /\ ChainInv'
             /\ \A i \in 0..Len(chain) : i <= Len(chain') => BlockAt(i)' = BlockAt(i)
  <2>1. chain' = SubSeq(chain, 1, k) /\ cursor' = cursor /\ k < Len(chain)
    BY <1>3 DEF Reorg
  <2>2. Len(chain') = k /\ \A i \in 1..k : chain'[i] = chain[i]
    BY <1>1, <2>1, SubSeqProperties
  <2>3. \A i \in 1..k : i \in 1..Len(chain)
    BY <1>1
  <2>4. ChainInv'
    BY <2>1, <2>2, <2>3 DEF ChainInv
  <2> QED
    BY SMTT(30), <1>1, <2>2, <2>4 DEF BlockAt
<1>4. ASSUME RollForward \/ Reconnect
      PROVE  UNCHANGED <<chain, cursor>>
  BY <1>4 DEF RollForward, Reconnect
<1>5. ASSUME UpdateStatus
      PROVE  UNCHANGED chain /\ ChainInv'
  <2>1. UNCHANGED chain /\ cursor' = Point(BlockAt(sent))
    BY <1>5 DEF UpdateStatus, chainVars
  <2>2. cursor'.slot = Top /\ Top <= MaxSlot
    BY <2>1, TopType DEF Point, Top
  <2> QED
    BY <2>1, <2>2 DEF ChainInv
<1>6. ASSUME UNCHANGED <<chain, cursor>> PROVE ChainInv'
  BY <1>6 DEF ChainInv
<1>7. ASSUME UNCHANGED chain
      PROVE  \A k \in 0..Len(chain) : BlockAt(k)' = BlockAt(k)
  BY <1>7 DEF BlockAt
<1> QED
  BY <1>2, <1>3, <1>4, <1>5, <1>6, <1>7 DEF Node

\* Whatever the node and the pipeline do, the queue stays in order.
LEMMA NodeKeepsOrder ==
    ASSUME TypeOK, PipelineTypeOK', PipeInv, Node
    PROVE  PipeInv'
<1>1. /\ ChainInv' /\ PipelineTypeOK
      /\ \A k \in 0..Len(chain) : k <= Len(chain') => BlockAt(k)' = BlockAt(k)
  BY NodeKeepsChain DEF PipeInv, TypeOK
<1>2. UNCHANGED <<up, diskVars, memoryVars, handlerVars, historyVars>>
  BY NodeKeepsTheRest
<1>3. ~rejected' /\ (~up' => DownInv')
  BY <1>2 DEF PipeInv, DownInv, memoryVars, handlerVars, historyVars
<1>4. /\ Len(chain) \in Nat /\ MaxSlot \in Nat /\ sent \in 0..Len(chain)
      /\ queue \in Seq(Event) /\ chain \in Seq([slot: Nat, hash: Nat, outs: Seq(DOMAIN Outputs)])
  BY <1>1, SlotsAssumption DEF PipelineTypeOK
<1>5. Top \in Nat /\ Top <= MaxSlot
  BY <1>1, TopType DEF PipeInv
<1>6. ASSUME up PROVE UpInv'
  <2>1. /\ ChainInv /\ UpInv /\ InOrder(queue) /\ EndsBy(queue, Top)
        /\ \A n \in RollbackSlots(queue) : n <= MaxSlot
    BY <1>6 DEF PipeInv, UpInv, QueueInv
  <2>2. ASSUME UNCHANGED queue, Top' = Top PROVE UpInv'
    BY <1>1, <1>2, <1>5, <2>1, <2>2, NodeMovesQueue
  <2>3. ASSUME NEW n \in Nat, n <= MaxSlot, queue' = Append(queue, RollbackEvent(n)), Top' = n
        PROVE  UpInv'
    <3>1. /\ InOrder(queue') /\ EndsBy(queue', n) /\ ~NoRollback(queue')
          /\ Leading(queue') \subseteq Leading(queue)
          /\ RollbackSlots(queue') = RollbackSlots(queue) \cup {n}
      BY <1>4, <2>1, <2>3, RollbackJoinsQueue
    <3> QED
      BY <1>1, <1>2, <2>1, <2>3, <3>1, NodeMovesQueue
  <2>4. ASSUME NEW outs \in Payloads, NEW slot \in 1..MaxSlot, NewBlock(outs, slot)
        PROVE  UpInv'
    <3>1. UNCHANGED <<sent, queue>>
      BY <2>4 DEF NewBlock
    <3>2. Len(chain') = Len(chain) + 1
      BY <1>4, <2>4, AppendProperties DEF NewBlock
    <3>3. sent' = sent /\ sent <= Len(chain')
      BY <1>4, <3>1, <3>2
    <3>4. Top' = Top
      BY <1>1, <1>4, <3>3 DEF Top
    <3> QED
      BY <2>2, <3>1, <3>4
  <2>5. ASSUME NEW k \in 0..Len(chain), Reorg(k) PROVE UpInv'
    <3>1. chain' = SubSeq(chain, 1, k) /\ k < Len(chain) /\ k \in Nat
      BY <1>4, <2>5 DEF Reorg
    <3>2. Len(chain') = k
      BY <1>4, <3>1, SubSeqProperties
    <3>3. CASE sent > k
      <4>1. queue' = Append(queue, RollbackEvent(BlockAt(k).slot)) /\ sent' = k
        BY <1>6, <2>5, <3>3 DEF Reorg
      <4>2. Top' = BlockAt(k).slot
        BY <1>1, <3>1, <3>2, <4>1 DEF Top
      <4>3. BlockAt(k).slot \in Nat /\ BlockAt(k).slot <= MaxSlot
        BY <1>1, BlockOrder DEF PipeInv
      <4> QED
        BY <2>3, <4>1, <4>2, <4>3
    <3>4. CASE ~(sent > k)
      <4>1. queue' = queue /\ sent' = Lower(sent, k)
        BY <1>6, <2>5, <3>4 DEF Reorg
      <4>2. sent' = sent /\ sent <= Len(chain')
        BY <1>4, <3>1, <3>2, <3>4, <4>1 DEF Lower
      <4>3. Top' = Top
        BY <1>1, <1>4, <4>2 DEF Top
      <4> QED
        BY <2>2, <4>1, <4>3
    <3> QED
      BY <3>3, <3>4
  <2>6. ASSUME RollForward PROVE UpInv'
    <3> DEFINE b == chain[sent + 1]
    <3>1. /\ sent + 1 \in 1..Len(chain) /\ sent + 1 \in 0..Len(chain) /\ sent < sent + 1
          /\ BlockAt(sent + 1) = b
      BY SMTT(30), <1>4, <2>6 DEF RollForward, BlockAt
    <3>2. b \in [slot: Nat, hash: Nat, outs: Seq(DOMAIN Outputs)]
      BY <1>4, <3>1, ElementOfSeq
    <3>3. Top < b.slot /\ \A i, j \in 1..Len(b.outs) : b.outs[i] = b.outs[j] => i = j
      <4>1. BlockAt(sent).slot < BlockAt(sent + 1).slot
        BY <1>1, <1>4, <2>1, <3>1, BlockOrder
      <4>2. \A i, j \in 1..Len(b.outs) : b.outs[i] = b.outs[j] => i = j
        BY <2>1, <3>1 DEF ChainInv
      <4> QED
        BY <3>1, <4>1, <4>2 DEF Top
    <3>4. Top' = b.slot /\ b.slot \in Nat
      <4>1. sent' = sent + 1 /\ chain' = chain
        BY <2>6 DEF RollForward
      <4> QED
        BY <3>1, <3>2, <4>1 DEF Top, BlockAt
    <3>5. queue' = queue \o BlockEvents(b)
      BY <2>6 DEF RollForward, BlockEvents
    <3> HIDE DEF b
    <3>6. /\ InOrder(queue') /\ EndsBy(queue', b.slot)
          /\ NoRollback(queue') => NoRollback(queue)
          /\ \A s \in Leading(queue') :
                s \in Leading(queue) \/ (NoRollback(queue) /\ s.slot = b.slot)
          /\ RollbackSlots(queue') = RollbackSlots(queue)
      <4> DEFINE r == queue \o BlockEvents(b)
      <4>1. /\ InOrder(r) /\ EndsBy(r, b.slot)
            /\ NoRollback(r) => NoRollback(queue)
            /\ \A s \in Leading(r) :
                  s \in Leading(queue) \/ (NoRollback(queue) /\ s.slot = b.slot)
            /\ RollbackSlots(r) = RollbackSlots(queue)
        <5>1. /\ queue \in Seq(Event) /\ InOrder(queue) /\ Top \in Nat /\ EndsBy(queue, Top)
              /\ Top < b.slot /\ b \in [slot: Nat, hash: Nat, outs: Seq(DOMAIN Outputs)]
              /\ \A i, j \in 1..Len(b.outs) : b.outs[i] = b.outs[j] => i = j
          BY <1>4, <1>5, <2>1, <3>2, <3>3
        <5> QED
          BY <5>1, BlockJoinsQueue
      <4>2. queue' = r
        BY <3>5
      <4> HIDE DEF r
      <4> QED
        BY <4>1, <4>2
    <3>7. Top <= Top'
      BY <1>5, <3>3, <3>4
    <3> QED
      BY <1>1, <1>2, <2>1, <3>3, <3>4, <3>6, <3>7, NodeMovesQueue
  <2>7. ASSUME Reconnect PROVE UpInv'
    <3>1. /\ queue' = Append(queue, RollbackEvent(Top)) /\ UNCHANGED <<chain, sent>>
      BY <2>7 DEF Reconnect, Top
    <3>2. Top' = Top
      BY <3>1 DEF Top, BlockAt
    <3> QED
      BY <1>5, <2>3, <3>1, <3>2
  <2>8. ASSUME UpdateStatus PROVE UpInv'
    <3>1. UNCHANGED <<queue, chain, sent>>
      BY <2>8 DEF UpdateStatus, chainVars
    <3>2. Top' = Top
      BY <3>1 DEF Top, BlockAt
    <3> QED
      BY <2>2, <3>1, <3>2
  <2> QED
    BY <2>4, <2>5, <2>6, <2>7, <2>8 DEF Node
<1> QED
  BY <1>1, <1>2, <1>3, <1>6 DEF PipeInv

-----------------------------------------------------------------------------
(* The handler                                                             *)

\* What is not the node's stays with the node.
LEMMA ChainStays ==
    ASSUME ChainInv, UNCHANGED <<chain, sent, cursor>>
    PROVE  ChainInv' /\ Top' = Top
  BY DEF ChainInv, Top, BlockAt

\* The swap inferred for a state carries the state's output and block.
LEMMA InferredIdentity ==
    ASSUME NEW states, NEW s, NEW w \in InferFrom(states, s)
    PROVE  w.slot = s.slot /\ w.utxo = s.utxo /\ w.hash = s.hash
<1>1. PICK prev \in states : w \in InferSwapTransition(prev, s)
  BY DEF InferFrom
<1>2. ASSUME NEW x, NEW y, NEW z,
             w = [pool |-> s.pool, utxo |-> s.utxo, slot |-> s.slot, hash |-> s.hash,
                  amountX |-> x, amountY |-> y, inputIsX |-> z]
      PROVE  w.slot = s.slot /\ w.utxo = s.utxo /\ w.hash = s.hash
  BY <1>2
<1> QED
  BY <1>1, <1>2, Zenon DEF InferSwapTransition

\* handleTransaction for the first update: the tracker does not refuse it.
LEMMA ObserveKeepsOrder ==
    ASSUME StorageInv, PipeInv, ObserveState
    PROVE  PipeInv'
<1> DEFINE s == Head(queue).state
           inferred == InferFrom(pools, s)
<1>1. /\ up /\ pc = "idle" /\ queue # <<>> /\ Head(queue).type = "transaction"
      /\ UNCHANGED <<chain, sent, cursor, dpools, dmeta, dswaps>>
  BY DEF ObserveState, NextIsUpdate, chainVars, diskVars
<1>2. queue \in Seq(Event) /\ TypeOK /\ ChainInv /\ UpInv /\ ~rejected
  BY <1>1 DEF StorageInv, TypeOK, PipelineTypeOK, PipeInv
<1>3. Top \in Nat /\ Head(queue) \in Event
  BY <1>1, <1>2, TopType, TailOfQueue DEF TypeOK
<1>4. s \in PoolState /\ s.slot \in Nat
  BY <1>1, <1>3, EventParts
<1>5. /\ InOrder(Tail(queue)) /\ EndsBy(Tail(queue), Top)
      /\ \A t \in Leading(Tail(queue)) : Follows(Head(queue), t)
      /\ RollbackSlots(Tail(queue)) \subseteq RollbackSlots(queue)
      /\ NoRollback(Tail(queue)) => SlotOf(Head(queue)) <= Top
      /\ s \in Leading(queue) /\ Leading(Tail(queue)) \subseteq Leading(queue)
      /\ NoRollback(Tail(queue)) => NoRollback(queue)
  BY <1>1, <1>2, <1>3, TakeFromQueue DEF UpInv, QueueInv
<1>6. ~failed /\ ~NotRewound /\ ~RollbackRuns
  BY <1>1, <1>2 DEF UpInv, RollInv, NotRewound, RollbackRuns
<1>7. /\ latest <= s.slot /\ latest \in Nat
      /\ \A r \in swaps \cup dswaps : Before(r, s)
      /\ \A r \in pools : r.slot <= s.slot
  BY <1>2, <1>5, <1>6 DEF UpInv, AheadInv, Ahead, TypeOK, MemoryTypeOK
<1>8. \A w \in inferred : w.slot = s.slot /\ w.utxo = s.utxo
  BY InferredIdentity
<1> HIDE DEF s, inferred
<1>9. ~ObserveRejects(latest, swaps, s, inferred)
  <2>1. ~(s.slot < latest)
    BY <1>4, <1>7
  <2>2. ASSUME NEW t \in inferred, NEW w \in swaps, SameSwapIdentity(w, t) PROVE FALSE
    <3>1. w.slot = s.slot /\ w.utxo = s.utxo /\ Before(w, s)
      BY <1>7, <1>8, <2>2 DEF SameSwapIdentity
    <3> QED
      BY <1>4, <3>1 DEF Before
  <2> QED
    BY <2>1, <2>2 DEF ObserveRejects
<1>10. AcceptState(s, inferred)
  BY <1>9 DEF ObserveState, s, inferred
<1>11. /\ latest' = s.slot /\ cur' = {s} /\ pc' = "persist" /\ pools' = Put(pools, s)
       /\ queue' = Tail(queue) /\ recorded' \subseteq inferred
       /\ swaps' \subseteq swaps \cup inferred
       /\ UNCHANGED <<up, confirmed, failed, rejected>>
  BY <1>10 DEF AcceptState, RecordedSwap, ObservedSwaps, Prune
<1>12. ChainInv' /\ Top' = Top
  BY <1>1, <1>2, ChainStays
<1>13. QueueInv'
  BY <1>2, <1>5, <1>11, <1>12 DEF UpInv, QueueInv
<1>14. ~RollbackRuns'
  BY <1>11 DEF RollbackRuns
<1>15. AheadInv'
  <2> SUFFICES ASSUME NEW t \in Leading(Tail(queue)) PROVE Ahead(t)'
    BY <1>11 DEF AheadInv
  <2>1. Before(s, t)
    BY <1>1, <1>5 DEF Follows, s
  <2>2. t \in PoolState /\ t.slot \in Nat
    <3>1. Tail(queue) \in Seq(Event)
      BY <1>1, <1>2, TailOfQueue
    <3> QED
      BY <3>1, LeadingType DEF PoolState
  <2>3. s.slot <= t.slot
    BY <1>4, <2>1, <2>2 DEF Before
  <2>4. /\ \A r \in swaps \cup dswaps : Before(r, t)
        /\ \A r \in pools : r.slot <= t.slot
    BY <1>2, <1>5, <1>6 DEF UpInv, AheadInv, Ahead
  <2>5. \A w \in inferred : Before(w, t)
    BY <1>8, <2>1 DEF Before
  <2>6. \A r \in pools' : r.slot <= t.slot
    BY <1>11, <2>3, <2>4 DEF Put
  <2>7. \A r \in swaps' \cup dswaps' \cup cur' : Before(r, t)
    BY <1>1, <1>11, <2>1, <2>4, <2>5
  <2> QED
    BY <1>11, <1>14, <2>3, <2>6, <2>7 DEF Ahead
<1>16. ReachedInv'
  <2> SUFFICES ASSUME NoRollback(Tail(queue)) PROVE Reached(Top)'
    BY <1>11 DEF ReachedInv
  <2>1. s.slot <= Top
    BY <1>1, <1>5 DEF SlotOf, s
  <2>2. \A r \in swaps \cup dswaps \cup pools : r.slot <= Top
    BY <1>2, <1>5, <1>6 DEF UpInv, ReachedInv, Reached
  <2>3. \A r \in swaps' \cup dswaps' \cup cur' \cup pools' : r.slot <= Top
    BY <1>1, <1>8, <1>11, <2>1, <2>2 DEF Put
  <2> QED
    BY <1>11, <1>12, <1>14, <2>1, <2>3 DEF Reached
<1>17. RollInv'
  BY <1>6, <1>11, <1>14 DEF RollInv
<1>18. CopiesInv'
  <2>1. confirmed' = dpools' /\ pools' = Put(dpools', s)
    BY <1>1, <1>2, <1>11 DEF UpInv, CopiesInv
  <2>2. \A w \in dswaps' : Before(w, s)
    BY <1>1, <1>7
  <2>3. \A c \in confirmed' : c.slot <= s.slot
    BY <1>1, <1>2, <1>7, <1>11 DEF UpInv, CopiesInv
  <2> QED
    BY <1>8, <1>11, <2>1, <2>2, <2>3 DEF CopiesInv
<1> QED
  BY <1>1, <1>2, <1>11, <1>12, <1>13, <1>15, <1>16, <1>17, <1>18 DEF PipeInv, UpInv

\* The state is saved, and then published.
LEMMA SaveKeepsCopies ==
    ASSUME StorageInv, PipeInv, SavePoolStateAndActivity
    PROVE  /\ PipeInv'
           /\ \A w \in dswaps \ dswaps' : w.slot < Cutoff(dmeta')
<1>1. /\ up /\ pc = "persist" /\ pc' = "publish"
      /\ UNCHANGED <<chain, sent, cursor, queue, up, pools, confirmed, latest, swaps, cur,
                     recorded, firstInvalid, toDelete, failed, rejected>>
  BY DEF SavePoolStateAndActivity, chainVars, memoryVars
<1>2. PICK s \in cur : /\ dpools' = Put(dpools, s) /\ dmeta' = SavedMeta(dmeta, s)
                       /\ dswaps' = SavedSwaps(dmeta, dswaps, s, recorded)
  BY DEF SavePoolStateAndActivity
<1>3. TypeOK /\ ChainInv /\ UpInv /\ ~rejected
  BY <1>1 DEF StorageInv, PipeInv
<1>4. /\ pools = Put(dpools, s) /\ confirmed = dpools
      /\ \A w \in dswaps : Before(w, s)
      /\ \A w \in recorded : w.slot = s.slot /\ w.utxo = s.utxo
      /\ \A t \in cur : pools = Put(dpools, t)
  <2>1. /\ confirmed = dpools
        /\ \A t \in cur : /\ pools = Put(dpools, t)
                          /\ \A w \in dswaps : Before(w, t)
                          /\ \A w \in recorded : w.slot = t.slot /\ w.utxo = t.utxo
    BY <1>1, <1>3, Zenon DEF UpInv, CopiesInv
  <2> QED
    BY <1>2, <2>1
<1>5. s.slot \in Nat /\ \A w \in dswaps : w.slot \in Nat
  BY <1>3 DEF TypeOK, HandlerTypeOK, StoreTypeOK, PoolState, SwapTransition
<1>6. dswaps' \subseteq dswaps \cup recorded
  BY <1>2 DEF SavedSwaps, PutSwap
<1>7. ~NotRewound /\ ~NotRewound' /\ ~RollbackRuns'
  BY <1>1, <1>3 DEF UpInv, RollInv, NotRewound, RollbackRuns
<1>8. ChainInv' /\ Top' = Top /\ QueueInv'
  BY <1>1, <1>3, ChainStays DEF UpInv, QueueInv
<1>9. AheadInv'
  <2> SUFFICES ASSUME NEW t \in Leading(queue) PROVE Ahead(t)'
    BY <1>1 DEF AheadInv
  <2>1. /\ latest <= t.slot
        /\ \A r \in swaps \cup dswaps \cup cur : Before(r, t)
        /\ \A r \in pools : r.slot <= t.slot
    BY <1>3, <1>7 DEF UpInv, AheadInv, Ahead
  <2>2. \A w \in recorded : Before(w, t)
    BY <1>4, <2>1 DEF Before
  <2> QED
    BY <1>1, <1>6, <1>7, <2>1, <2>2 DEF Ahead
<1>10. ReachedInv'
  <2> SUFFICES ASSUME NoRollback(queue) PROVE Reached(Top)'
    BY <1>1 DEF ReachedInv
  <2>1. /\ latest <= Top
        /\ \A r \in swaps \cup dswaps \cup cur \cup pools : r.slot <= Top
    BY <1>3, <1>7 DEF UpInv, ReachedInv, Reached
  <2> QED
    BY <1>1, <1>4, <1>6, <1>7, <1>8, <2>1 DEF Reached
<1>11. RollInv'
  BY <1>1, <1>3, <1>7 DEF UpInv, RollInv
<1>12. CopiesInv'
  BY <1>1, <1>2, <1>3, <1>4 DEF UpInv, CopiesInv
<1>13. ASSUME NEW w \in dswaps \ dswaps' PROVE w.slot < Cutoff(dmeta')
  <2>1. \A t \in recorded : ~SameSwapIdentity(w, t)
    BY <1>4, <1>5 DEF SameSwapIdentity, Before
  <2>2. w \in PutSwap(dswaps, recorded)
    BY <2>1 DEF PutSwap
  <2>3. w \in PruneKeys(PutSwap(dswaps, recorded), Cutoff(dmeta'))
    BY <1>2, <2>2 DEF SavedSwaps
  <2> QED
    BY <2>3 DEF PruneKeys
<1> QED
  BY <1>1, <1>3, <1>8, <1>9, <1>10, <1>11, <1>12, <1>13 DEF PipeInv, UpInv

\* The published state is the saved one.
LEMMA PublishKeepsCopies ==
    ASSUME StorageInv, PipeInv, PublishState
    PROVE  PipeInv'
<1>1. /\ up /\ pc = "publish" /\ pc' = "idle" /\ cur' = {} /\ recorded' = {} /\ ~failed'
      /\ UNCHANGED <<chain, sent, cursor, queue, up, dpools, dmeta, dswaps, pools, latest,
                     swaps, rejected>>
  BY DEF PublishState, HandlerIdle, chainVars, diskVars, historyVars
<1>2. PICK s \in cur : confirmed' = Put(confirmed, s)
  BY DEF PublishState
<1>3. ChainInv /\ UpInv /\ ~rejected
  BY <1>1 DEF PipeInv
<1>4. ~NotRewound /\ ~NotRewound' /\ ~RollbackRuns'
  BY <1>1, <1>3 DEF UpInv, RollInv, NotRewound, RollbackRuns
<1>5. ChainInv' /\ Top' = Top /\ QueueInv'
  BY <1>1, <1>3, ChainStays DEF UpInv, QueueInv
<1>6. AheadInv' /\ ReachedInv'
  BY <1>1, <1>3, <1>4, <1>5 DEF UpInv, AheadInv, Ahead, ReachedInv, Reached
<1>7. RollInv' /\ CopiesInv'
  BY <1>1, <1>2, <1>3, <1>4 DEF UpInv, RollInv, CopiesInv
<1> QED
  BY <1>1, <1>3, <1>5, <1>6, <1>7 DEF PipeInv, UpInv

\* The rollback that heads the queue: every update before the next one is
\* after its slot.
LEMMA StartKeepsOrder ==
    ASSUME StorageInv, PipeInv, StartRollback
    PROVE  PipeInv'
<1> DEFINE n == Head(queue).slot
<1>1. /\ up /\ pc = "idle" /\ queue # <<>> /\ Head(queue).type = "rollback"
      /\ pc' = "batch" /\ queue' = Tail(queue)
      /\ UNCHANGED <<chain, sent, cursor, up, dpools, dmeta, dswaps, confirmed, latest,
                     swaps, cur, recorded, failed, rejected>>
  BY DEF StartRollback, NextIsRollback, chainVars, diskVars
<1>2. queue \in Seq(Event) /\ TypeOK /\ ChainInv /\ UpInv /\ ~rejected
  BY <1>1 DEF StorageInv, TypeOK, PipelineTypeOK, PipeInv
<1>3. Top \in Nat /\ Head(queue) \in Event
  BY <1>1, <1>2, TopType, TailOfQueue DEF TypeOK
<1>4. n \in Nat
  BY <1>1, <1>3, EventParts
<1>5. /\ InOrder(Tail(queue)) /\ EndsBy(Tail(queue), Top)
      /\ \A t \in Leading(Tail(queue)) : Follows(Head(queue), t)
      /\ RollbackSlots(Tail(queue)) \subseteq RollbackSlots(queue)
      /\ NoRollback(Tail(queue)) => SlotOf(Head(queue)) <= Top
      /\ n \in RollbackSlots(queue)
  BY <1>1, <1>2, <1>3, TakeFromQueue DEF UpInv, QueueInv
<1>6. n <= MaxSlot /\ n # MaxUint64
  <2>1. n <= MaxSlot
    BY <1>2, <1>5 DEF UpInv, QueueInv
  <2> QED
    BY <1>4, <2>1, SlotsAssumption, MaxUint64Assumption
<1>7. /\ firstInvalid' = n + 1
      /\ toDelete' = {s \in pools : s.slot >= n + 1}
      /\ pools' = pools \ {s \in pools : s.slot >= n + 1}
  BY <1>6 DEF StartRollback, FirstRolledBackSlot, Invalidated
<1>8. ~failed /\ cur = {} /\ recorded = {}
  BY <1>1, <1>2 DEF UpInv, RollInv
<1>9. ChainInv' /\ Top' = Top
  BY <1>1, <1>2, ChainStays
<1>10. QueueInv'
  BY <1>1, <1>2, <1>5, <1>9 DEF UpInv, QueueInv
<1>11. RollbackRuns' /\ NotRewound'
  BY <1>1 DEF RollbackRuns, NotRewound
<1>12. AheadInv'
  <2> SUFFICES ASSUME NEW t \in Leading(Tail(queue)) PROVE n + 1 <= t.slot
    BY <1>1, <1>7, <1>11 DEF AheadInv, Ahead
  <2>1. n < t.slot
    BY <1>1, <1>5 DEF Follows
  <2>2. t.slot \in Nat
    <3>1. Tail(queue) \in Seq(Event)
      BY <1>1, <1>2, TailOfQueue
    <3> QED
      BY <3>1, LeadingType DEF PoolState
  <2> QED
    BY <1>4, <2>1, <2>2
<1>13. ReachedInv'
  <2> SUFFICES ASSUME NoRollback(Tail(queue)) PROVE n + 1 <= Top + 1
    BY <1>1, <1>7, <1>9, <1>11 DEF ReachedInv, Reached
  <2>1. n <= Top
    BY <1>1, <1>5 DEF SlotOf
  <2> QED
    BY <1>3, <1>4, <2>1
<1>14. RollInv'
  <2>1. \A s \in pools : s.slot \in Nat
    BY <1>2 DEF TypeOK, MemoryTypeOK, PoolState
  <2>2. firstInvalid' > 0 /\ \A s \in pools' : s.slot < firstInvalid'
    BY <1>4, <1>7, <2>1
  <2>3. \A s \in toDelete' : s.slot >= firstInvalid'
    BY <1>7
  <2> QED
    BY <1>1, <1>8, <2>2, <2>3 DEF RollInv
<1>15. CopiesInv'
  <2>1. confirmed' = dpools' /\ dpools' = pools' \cup toDelete'
    BY <1>1, <1>2, <1>7 DEF UpInv, CopiesInv
  <2> QED
    BY <1>1, <2>1 DEF CopiesInv
<1> QED
  BY <1>1, <1>2, <1>9, <1>10, <1>12, <1>13, <1>14, <1>15 DEF PipeInv, UpInv

\* RollbackActivity, in batches; a swap leaves the store only in a batch that
\* rewinds the recorded slot below it.
LEMMA BatchKeepsCopies ==
    ASSUME StorageInv, PipeInv, RollbackActivityBatch \/ RollbackActivityFails
    PROVE  /\ PipeInv'
           /\ \A w \in dswaps \ dswaps' : w.slot > dmeta'
<1>1. /\ up /\ pc = "batch" /\ pc' \in {"batch", "memory"}
      /\ UNCHANGED <<chain, sent, cursor, queue, up, dpools, pools, confirmed, latest, swaps,
                     cur, recorded, firstInvalid, toDelete, rejected>>
  BY DEF RollbackActivityBatch, RollbackActivityFails, chainVars, diskVars, memoryVars, historyVars
<1>2. TypeOK /\ ChainInv /\ UpInv /\ ~rejected /\ NoSwapAboveLatest
  BY <1>1 DEF StorageInv, PipeInv
<1>3. RollbackRuns /\ RollbackRuns' /\ NotRewound'
  BY <1>1 DEF RollbackRuns, NotRewound
<1>4. /\ firstInvalid \in Nat /\ firstInvalid > 0 /\ \A w \in dswaps : w.slot \in Nat
      /\ dmeta \in Nat \cup {NoMeta}
  BY <1>2, <1>3 DEF UpInv, RollInv, TypeOK, StoreTypeOK, HandlerTypeOK, SwapTransition
<1>5. ChainInv' /\ Top' = Top /\ QueueInv'
  BY <1>1, <1>2, ChainStays DEF UpInv, QueueInv
<1>6. AheadInv' /\ ReachedInv'
  BY <1>1, <1>2, <1>3, <1>5 DEF UpInv, AheadInv, Ahead, ReachedInv, Reached
<1>7. pc' = "memory" /\ ~failed' => \A w \in dswaps' : w.slot < firstInvalid
  <2>1. ASSUME RollbackActivityBatch, pc' = "memory", NEW w \in dswaps'
        PROVE  w.slot < firstInvalid
    <3>1. w \in dswaps /\ w \notin BatchKeys(dswaps, firstInvalid)
      BY <2>1 DEF RollbackActivityBatch, BatchSwaps
    <3>2. BatchExhausts(dswaps, firstInvalid)
      BY <2>1 DEF RollbackActivityBatch
    <3> QED
      BY <1>4, <3>1, <3>2 DEF BatchExhausts
  <2>2. RollbackActivityFails => failed'
    BY DEF RollbackActivityFails
  <2> QED
    BY <2>1, <2>2
<1>8. RollInv' /\ CopiesInv'
  <2>1. failed' => pc' = "memory"
    BY <1>1, <1>2 DEF UpInv, RollInv, RollbackActivityBatch, RollbackActivityFails
  <2> QED
    BY <1>1, <1>2, <1>3, <1>7, <2>1 DEF UpInv, RollInv, CopiesInv
<1>9. ASSUME NEW w \in dswaps \ dswaps' PROVE w.slot > dmeta'
  <2>1. RollbackActivityBatch
    BY <1>9 DEF RollbackActivityFails, diskVars
  <2>2. /\ w \in BatchKeys(dswaps, firstInvalid)
        /\ dmeta' = RewindMeta(dmeta, BatchFirstInvalid(dswaps, firstInvalid))
    BY <1>9, <2>1 DEF RollbackActivityBatch, BatchSwaps, BatchMeta
  <2>3. w.slot \in Nat /\ w.slot >= firstInvalid
    BY <1>4, <2>2 DEF BatchKeys
  <2>4. /\ BatchFirstInvalid(dswaps, firstInvalid) \in Nat
        /\ 0 < BatchFirstInvalid(dswaps, firstInvalid)
        /\ BatchFirstInvalid(dswaps, firstInvalid) <= w.slot
    <3>1. CASE BatchExhausts(dswaps, firstInvalid)
      BY <1>4, <2>3, <3>1 DEF BatchFirstInvalid
    <3>2. CASE ~BatchExhausts(dswaps, firstInvalid)
      <4> DEFINE T == {v.slot : v \in BatchKeys(dswaps, firstInvalid)}
                 m == CHOOSE x \in T : \A v \in BatchKeys(dswaps, firstInvalid) : x <= v.slot
      <4>1. T \subseteq Nat /\ T # {}
        BY <1>4, <2>2 DEF BatchKeys
      <4>2. \E x \in T : \A y \in T : x <= y
        BY <4>1, LeastElement
      <4>3. \E x \in T : \A v \in BatchKeys(dswaps, firstInvalid) : x <= v.slot
        BY <4>2
      <4>4. m \in T /\ \A v \in BatchKeys(dswaps, firstInvalid) : m <= v.slot
        BY <4>3
      <4>5. BatchFirstInvalid(dswaps, firstInvalid) = m
        BY <3>2 DEF BatchFirstInvalid
      <4>6. \A x \in T : x >= firstInvalid
        BY DEF BatchKeys
      <4> HIDE DEF m, T
      <4> QED
        BY <1>4, <2>2, <4>1, <4>4, <4>5, <4>6
    <3> QED
      BY <3>1, <3>2
  <2> QED
    BY <1>4, <2>2, <2>3, <2>4 DEF RewindMeta, LastValid, Lower, NoMeta
<1> QED
  BY <1>1, <1>2, <1>5, <1>6, <1>8, <1>9 DEF PipeInv, UpInv

\* The tracker is rewound and the withdrawn states leave the mempool manager.
LEMMA MemoryKeepsCopies ==
    ASSUME StorageInv, PipeInv, RollbackMemory
    PROVE  PipeInv'
<1>1. /\ up /\ pc = "memory" /\ pc' = "delete" /\ confirmed' = Withdraw(confirmed, toDelete)
      /\ UNCHANGED <<chain, sent, cursor, queue, up, dpools, dmeta, dswaps, pools,
                     cur, recorded, firstInvalid, toDelete, failed, rejected>>
      /\ ~failed => /\ latest' = RolledBackLatest(latest, firstInvalid)
                    /\ swaps' = RolledBackSwaps(latest, swaps, firstInvalid)
  BY DEF RollbackMemory, chainVars, diskVars, historyVars
<1>2. TypeOK /\ ChainInv /\ UpInv /\ ~rejected /\ UniquePools(dpools)
  BY <1>1 DEF StorageInv, PipeInv, PoolsAreMaps
<1>3. RollbackRuns /\ RollbackRuns' /\ (NotRewound' => failed)
  BY <1>1 DEF RollbackRuns, NotRewound
<1>4. /\ firstInvalid \in Nat /\ firstInvalid > 0 /\ latest \in Nat
      /\ \A r \in swaps \cup dswaps \cup pools \cup toDelete : r.slot \in Nat
      /\ \A r \in pools : r.slot < firstInvalid
      /\ \A r \in toDelete : r.slot >= firstInvalid
      /\ ~failed => \A w \in dswaps : w.slot < firstInvalid
      /\ cur = {}
  BY <1>1, <1>2, <1>3 DEF UpInv, RollInv, TypeOK, StoreTypeOK, HandlerTypeOK, MemoryTypeOK,
                          SwapTransition, PoolState
<1>5. ChainInv' /\ Top' = Top /\ QueueInv' /\ Top \in Nat
  BY <1>1, <1>2, ChainStays, TopType DEF UpInv, QueueInv, TypeOK
<1>6. ASSUME ~failed
      PROVE  /\ latest' \in Nat /\ latest' < firstInvalid
             /\ \A r \in swaps' \cup dswaps' \cup cur' \cup pools' : r.slot \in Nat /\ r.slot < firstInvalid
  <2>1. latest' \in Nat /\ latest' < firstInvalid
    BY <1>1, <1>4, <1>6 DEF RolledBackLatest, Lower, LastValid
  <2>2. \A r \in swaps' : r.slot \in Nat /\ r.slot < firstInvalid
    BY <1>1, <1>4, <1>6 DEF RolledBackSwaps, Prune
  <2> QED
    BY <1>1, <1>4, <1>6, <2>1, <2>2
<1>7. AheadInv'
  <2> SUFFICES ASSUME NEW t \in Leading(queue) PROVE Ahead(t)'
    BY <1>1 DEF AheadInv
  <2>1. firstInvalid <= t.slot
    BY <1>2, <1>3 DEF UpInv, AheadInv, Ahead
  <2>2. t.slot \in Nat
    BY <1>2, LeadingType DEF TypeOK, PipelineTypeOK, PoolState
  <2>3. ~failed => /\ latest' <= t.slot
                   /\ \A r \in swaps' \cup dswaps' \cup cur' : Before(r, t)
                   /\ \A r \in pools' : r.slot <= t.slot
    BY <1>4, <1>6, <2>1, <2>2 DEF Before
  <2> QED
    BY <1>1, <1>3, <2>1, <2>3 DEF Ahead, NotRewound
<1>8. ReachedInv'
  <2> SUFFICES ASSUME NoRollback(queue) PROVE Reached(Top)'
    BY <1>1 DEF ReachedInv
  <2>1. firstInvalid <= Top + 1
    BY <1>2, <1>3 DEF UpInv, ReachedInv, Reached
  <2>2. ~failed => /\ latest' <= Top
                   /\ \A r \in swaps' \cup dswaps' \cup cur' \cup pools' : r.slot <= Top
    BY <1>4, <1>5, <1>6, <2>1
  <2> QED
    BY <1>1, <1>3, <1>5, <2>1, <2>2 DEF Reached, NotRewound
<1>9. RollInv'
  BY <1>1, <1>2, <1>3, <1>4 DEF UpInv, RollInv
<1>10. CopiesInv'
  <2>1. confirmed = dpools /\ dpools = pools \cup toDelete
    BY <1>1, <1>2 DEF UpInv, CopiesInv
  <2>2. confirmed' = pools
    <3>1. \A t \in pools, u \in toDelete : t.pool # u.pool
      BY <1>2, <1>4, <2>1 DEF UniquePools
    <3> QED
      BY <1>1, <2>1, <3>1 DEF Withdraw
  <2> QED
    BY <1>1, <2>1, <2>2 DEF CopiesInv
<1> QED
  BY <1>1, <1>2, <1>5, <1>7, <1>8, <1>9, <1>10 DEF PipeInv, UpInv

\* The invalidated pool states leave the store.
LEMMA DeleteKeepsCopies ==
    ASSUME StorageInv, PipeInv, NEW s \in toDelete,
           DeletePoolState(s) \/ DeletePoolStateFails(s)
    PROVE  PipeInv'
<1>1. /\ up /\ pc = "delete" /\ pc' = "delete" /\ toDelete' = toDelete \ {s}
      /\ UNCHANGED <<chain, sent, cursor, queue, up, dmeta, dswaps, pools, confirmed, latest,
                     swaps, cur, recorded, firstInvalid, rejected>>
      /\ \/ failed' = failed /\ dpools' = {t \in dpools : t.pool # s.pool}
         \/ failed' /\ dpools' = dpools
  BY DEF DeletePoolState, DeletePoolStateFails, chainVars, diskVars, memoryVars, historyVars
<1>2. TypeOK /\ ChainInv /\ UpInv /\ ~rejected /\ UniquePools(dpools)
  BY <1>1 DEF StorageInv, PipeInv, PoolsAreMaps
<1>3. RollbackRuns /\ RollbackRuns' /\ (NotRewound => NotRewound')
  BY <1>1 DEF RollbackRuns, NotRewound
<1>4. ChainInv' /\ Top' = Top /\ QueueInv'
  BY <1>1, <1>2, ChainStays DEF UpInv, QueueInv
<1>5. AheadInv' /\ ReachedInv'
  BY <1>1, <1>2, <1>3, <1>4 DEF UpInv, AheadInv, Ahead, ReachedInv, Reached
<1>6. RollInv'
  BY <1>1, <1>2, <1>3 DEF UpInv, RollInv
<1>7. CopiesInv'
  <2>1. /\ confirmed = pools /\ pools \subseteq dpools /\ toDelete \subseteq dpools
        /\ ~failed => dpools = pools \cup toDelete
    BY <1>1, <1>2 DEF UpInv, CopiesInv
  <2>2. s \notin pools
    <3>1. /\ \A r \in pools : r.slot < firstInvalid /\ r.slot \in Nat
          /\ s.slot >= firstInvalid /\ firstInvalid \in Nat
      BY <1>2, <1>3 DEF UpInv, RollInv, TypeOK, MemoryTypeOK, HandlerTypeOK, PoolState
    <3> QED
      BY <3>1
  <2>3. {t \in dpools : t.pool # s.pool} = dpools \ {s}
    BY <1>2, <2>1 DEF UniquePools
  <2> QED
    BY <1>1, <2>1, <2>2, <2>3 DEF CopiesInv
<1> QED
  BY <1>1, <1>2, <1>4, <1>5, <1>6, <1>7 DEF PipeInv, UpInv

\* A rollback that succeeded leaves the three copies equal.
LEMMA ReturnKeepsCopies ==
    ASSUME PipeInv, RollbackReturns
    PROVE  PipeInv'
<1>1. /\ up /\ pc = "delete" /\ pc' = "idle" /\ toDelete = {} /\ ~failed
      /\ cur' = {} /\ recorded' = {} /\ ~failed'
      /\ UNCHANGED <<chain, sent, cursor, queue, up, dpools, dmeta, dswaps, pools, confirmed,
                     latest, swaps, rejected>>
  BY DEF RollbackReturns, HandlerIdle, chainVars, diskVars, memoryVars, historyVars
<1>2. ChainInv /\ UpInv /\ ~rejected
  BY <1>1 DEF PipeInv
<1>3. ~RollbackRuns' /\ ~NotRewound
  BY <1>1 DEF RollbackRuns, NotRewound
<1>4. ChainInv' /\ Top' = Top /\ QueueInv'
  BY <1>1, <1>2, ChainStays DEF UpInv, QueueInv
<1>5. AheadInv' /\ ReachedInv'
  BY <1>1, <1>2, <1>3, <1>4 DEF UpInv, AheadInv, Ahead, ReachedInv, Reached
<1>6. RollInv' /\ CopiesInv'
  BY <1>1, <1>2, <1>3 DEF UpInv, RollInv, CopiesInv
<1> QED
  BY <1>1, <1>2, <1>4, <1>5, <1>6 DEF PipeInv, UpInv

\* The process ends, or starts again and is rolled back to the cursor.
LEMMA EndKeepsOrder ==
    ASSUME PipeInv, ProcessEnds, ~rejected', UNCHANGED <<chain, sent, cursor>>
    PROVE  PipeInv'
<1>1. ~up' /\ DownInv'
  BY DEF ProcessEnds, HandlerIdle, DownInv
<1>2. ChainInv'
  BY ChainStays DEF PipeInv
<1> QED
  BY <1>1, <1>2 DEF PipeInv

\* A restart loads the store and begins with a rollback to the cursor.
LEMMA RestartKeepsOrder ==
    ASSUME StorageInv, PipeInv, Restart
    PROVE  PipeInv'
<1>1. /\ ~up /\ DownInv /\ ChainInv /\ ~rejected /\ OnChain(cursor) /\ TypeOK
      /\ UNCHANGED <<chain, cursor, dpools, dmeta, dswaps, pc, cur, recorded, firstInvalid,
                     toDelete, failed, rejected>>
  BY DEF Restart, PipeInv, StorageInv, handlerVars, diskVars
<1>2. ChainInv'
  BY <1>1 DEF ChainInv
<1>3. CASE RestoreRejects(dmeta, dswaps)
  <2>1. UNCHANGED <<up, confirmed>>
    BY <1>3 DEF Restart, memoryVars
  <2> QED
    BY <1>1, <1>2, <2>1 DEF PipeInv, DownInv
<1>4. CASE ~RestoreRejects(dmeta, dswaps)
  <2>1. /\ up' /\ sent' = CHOOSE k \in 0..Len(chain) : Point(BlockAt(k)) = cursor
        /\ queue' = <<RollbackEvent(cursor.slot)>>
        /\ pools' = dpools /\ confirmed' = dpools
    BY <1>4 DEF Restart, LoadPersistedStates
  <2>2. sent' \in 0..Len(chain) /\ Point(BlockAt(sent')) = cursor
    BY <1>1, <2>1 DEF OnChain
  <2>3. cursor.slot \in Nat /\ cursor.slot <= MaxSlot
    BY <1>1 DEF TypeOK, PipelineTypeOK, ChainInv
  <2>4. Top' = cursor.slot
    <3>1. BlockAt(sent').slot = cursor.slot
      BY <2>2 DEF Point
    <3>2. Top' = BlockAt(sent').slot
      BY <1>1 DEF Top, BlockAt
    <3> QED
      BY <3>1, <3>2
  <2>5. /\ <<>> \in Seq(Event) /\ InOrder(<<>>) /\ Leading(<<>>) = {}
        /\ RollbackSlots(<<>>) = {}
    BY EmptySeq DEF InOrder, Leading, RollbackSlots
  <2>6. /\ InOrder(queue') /\ EndsBy(queue', cursor.slot) /\ ~NoRollback(queue')
        /\ Leading(queue') \subseteq {} /\ RollbackSlots(queue') = {} \cup {cursor.slot}
    <3>1. queue' = Append(<<>>, RollbackEvent(cursor.slot))
      BY <2>1
    <3> QED
      BY <2>3, <2>5, <3>1, RollbackJoinsQueue
  <2>7. QueueInv' /\ AheadInv' /\ ReachedInv'
    BY <2>3, <2>4, <2>6 DEF QueueInv, AheadInv, ReachedInv
  <2>8. RollInv' /\ CopiesInv'
    BY <1>1, <2>1 DEF DownInv, RollInv, RollbackRuns, CopiesInv
  <2> QED
    BY <1>1, <1>2, <2>1, <2>7, <2>8 DEF PipeInv, UpInv
<1> QED
  BY <1>3, <1>4

-----------------------------------------------------------------------------
(* The theorems                                                            *)

\* A fresh database, and the rollback chain-sync begins with.
LEMMA PipeInit == ASSUME Init PROVE PipeInv
<1>1. /\ chain = <<>> /\ sent = 0 /\ cursor = Point(Origin) /\ up /\ ~rejected
      /\ queue = <<RollbackEvent(0)>> /\ pc = "idle" /\ cur = {} /\ recorded = {} /\ ~failed
      /\ pools = {} /\ dpools = {} /\ confirmed = {}
  BY DEF Init
<1>2. ChainInv /\ Top = 0
  BY <1>1, SlotsAssumption DEF ChainInv, Point, Origin, Top, BlockAt
<1>3. /\ <<>> \in Seq(Event) /\ InOrder(<<>>) /\ Leading(<<>>) = {} /\ RollbackSlots(<<>>) = {}
  BY EmptySeq DEF InOrder, Leading, RollbackSlots
<1>4. /\ InOrder(queue) /\ EndsBy(queue, 0) /\ ~NoRollback(queue)
      /\ Leading(queue) \subseteq {} /\ RollbackSlots(queue) = {} \cup {0}
  <2>1. queue = Append(<<>>, RollbackEvent(0))
    BY <1>1
  <2> QED
    BY <1>3, <2>1, RollbackJoinsQueue
<1>5. QueueInv /\ AheadInv /\ ReachedInv
  BY <1>2, <1>4, SlotsAssumption DEF QueueInv, AheadInv, ReachedInv
<1>6. RollInv /\ CopiesInv
  BY <1>1 DEF RollInv, RollbackRuns, CopiesInv
<1> QED
  BY <1>1, <1>2, <1>5, <1>6 DEF PipeInv, UpInv

\* The invariant reads nothing but the variables.
LEMMA PipeStutters == ASSUME PipeInv, UNCHANGED vars PROVE PipeInv'
<1>1. UNCHANGED <<chain, sent, queue, up, cursor, dpools, dmeta, dswaps, pools, confirmed,
                  latest, swaps, pc, cur, recorded, firstInvalid, toDelete, failed, rejected>>
  BY DEF vars, chainVars, diskVars, memoryVars, handlerVars, historyVars
<1>2. ChainInv' /\ Top' = Top
  BY <1>1, ChainStays DEF PipeInv
<1>3. QueueInv' <=> QueueInv
  BY <1>1, <1>2 DEF QueueInv
<1>4. AheadInv' <=> AheadInv
  BY <1>1 DEF AheadInv, Ahead, RollbackRuns, NotRewound
<1>5. ReachedInv' <=> ReachedInv
  BY <1>1, <1>2 DEF ReachedInv, Reached, RollbackRuns, NotRewound
<1>6. (RollInv' <=> RollInv) /\ (CopiesInv' <=> CopiesInv) /\ (DownInv' <=> DownInv)
  BY <1>1 DEF RollInv, RollbackRuns, CopiesInv, DownInv
<1> QED
  BY <1>1, <1>2, <1>3, <1>4, <1>5, <1>6 DEF PipeInv, UpInv

\* Every step keeps the invariant.
LEMMA PipeStep ==
    ASSUME StorageInv, StorageInv', PipeInv, [Next]_vars
    PROVE  PipeInv'
<1>1. CASE Handler
  <2>1. RollbackReturnsError => PipeInv'
    BY EndKeepsOrder DEF RollbackReturnsError, chainVars, historyVars, PipeInv
  <2> QED
    BY <1>1, <2>1, ObserveKeepsOrder, SaveKeepsCopies, PublishKeepsCopies, StartKeepsOrder,
       BatchKeepsCopies, MemoryKeepsCopies, DeleteKeepsCopies, ReturnKeepsCopies DEF Handler
<1>2. CASE Faults
  <2>1. Crash => PipeInv'
    BY EndKeepsOrder DEF Crash, chainVars, historyVars, PipeInv
  <2> QED
    BY <1>2, <2>1, BatchKeepsCopies, DeleteKeepsCopies DEF Faults
<1>3. CASE Node
  BY <1>3, NodeKeepsOrder DEF StorageInv, TypeOK
<1>4. CASE Restart
  BY <1>4, RestartKeepsOrder
<1>5. CASE UNCHANGED vars
  BY <1>5, PipeStutters
<1> QED
  BY <1>1, <1>2, <1>3, <1>4, <1>5 DEF Next

\* The invariant holds in every reachable state, also when the cursor leads.
THEOREM PipelineCorrect == Spec => [](StorageInv /\ PipeInv)
<1>1. Init => PipeInv
  BY PipeInit
<1>2. StorageInv /\ StorageInv' /\ PipeInv /\ [Next]_vars => PipeInv'
  BY PipeStep
<1> QED
  BY <1>1, <1>2, StorageInvariant, PTL DEF Spec

\* No event that chain-sync can deliver is refused by ObserveTransition, in any
\* interleaving of reorganisations, reconnections, crashes and restarts.
THEOREM EventsAccepted == Spec => []EventsNeverRejected
<1>1. PipeInv => EventsNeverRejected
  BY DEF PipeInv, EventsNeverRejected
<1> QED
  BY <1>1, PipelineCorrect, PTL

\* The mempool manager shows a pool's state only while the store has it or a
\* later one.
THEOREM DurableFirst == Spec => []PublishedIsDurable
<1>1. ASSUME StorageInv, PipeInv PROVE PublishedIsDurable
  <2>1. \A s \in confirmed : s.slot \in Nat
    BY <1>1 DEF StorageInv, TypeOK, MemoryTypeOK, PoolState
  <2>2. ASSUME confirmed \subseteq dpools PROVE PublishedIsDurable
    BY <2>1, <2>2 DEF PublishedIsDurable
  <2>3. CASE ~up
    BY <1>1, <2>2, <2>3 DEF PipeInv, DownInv
  <2>4. CASE up /\ pc # "publish"
    <3>1. pc \in {"idle", "persist", "batch", "memory", "delete"}
      BY <1>1, <2>4 DEF StorageInv, TypeOK, HandlerTypeOK
    <3>2. confirmed \subseteq dpools
      BY <1>1, <2>4, <3>1 DEF PipeInv, UpInv, CopiesInv
    <3> QED
      BY <2>2, <3>2
  <2>5. CASE up /\ pc = "publish"
    <3>1. \A s \in cur : dpools = Put(confirmed, s) /\ \A c \in confirmed : c.slot <= s.slot
      BY <1>1, <2>5, Zenon DEF PipeInv, UpInv, CopiesInv
    <3>2. ASSUME NEW s \in cur PROVE PublishedIsDurable
      <4>1. dpools = Put(confirmed, s) /\ \A c \in confirmed : c.slot <= s.slot
        BY <3>1
      <4> QED
        BY <2>1, <4>1 DEF PublishedIsDurable, Put
    <3>3. cur # {}
      BY <1>1, <2>5 DEF PipeInv, UpInv, RollInv
    <3> QED
      BY <3>2, <3>3
  <2> QED
    BY <2>3, <2>4, <2>5
<1> QED
  BY <1>1, PipelineCorrect, PTL

\* The store forgets a swap only by pruning what fell out of the window, or in
\* a transaction of RollbackActivity that also rewinds the recorded latest slot
\* below it: the two writers of the store, whatever runs between them.
THEOREM SwapsLeaveForAReason == Spec => DurableSwapsLeaveForAReason
<1>1. ASSUME StorageInv, PipeInv, [Next]_vars, NEW w \in dswaps \ dswaps'
      PROVE  w.slot < Cutoff(dmeta') \/ w.slot > dmeta'
  <2>1. dswaps' # dswaps
    BY <1>1
  <2>2. SavePoolStateAndActivity \/ RollbackActivityBatch
    <3>1. ~UNCHANGED vars /\ ~Restart
      BY <2>1 DEF vars, diskVars, Restart
    <3>2. ~Node
      BY <2>1 DEF Node, NewBlock, Reorg, RollForward, Reconnect, UpdateStatus, diskVars
    <3>3. ~Faults
      BY <2>1 DEF Faults, RollbackActivityFails, DeletePoolStateFails, Crash, diskVars
    <3> QED
      BY <1>1, <2>1, <3>1, <3>2, <3>3 DEF Next, Handler, ObserveState, PublishState,
         StartRollback, RollbackMemory, DeletePoolState, RollbackReturns,
         RollbackReturnsError, diskVars
  <2> QED
    BY <1>1, <2>2, SaveKeepsCopies, BatchKeepsCopies
<1>2. ASSUME StorageInv /\ PipeInv, [Next]_vars
      PROVE  [\A w \in dswaps \ dswaps' : w.slot < Cutoff(dmeta') \/ w.slot > dmeta']_vars
  BY <1>1, <1>2
<1> QED
  BY <1>2, PipelineCorrect, PTL DEF Spec, DurableSwapsLeaveForAReason

-----------------------------------------------------------------------------
(* The volume a restart reports                                            *)

\* All stored swaps fit the deletions of one transaction: pruning is complete.
StoreFits == Cardinality(dswaps) < DeleteBudget

\* The latest slot a restart would restore.
Stored == RestoredLatest(dmeta)

Earlier(ws, first) == {w \in ws : w.slot < first}

\* The tracker and the store hold the same window, or differ by what the
\* handler is doing.
TrackerInv ==
    /\ pc \in {"idle", "publish"} \/ (pc = "delete" /\ ~failed) =>
          swaps = dswaps /\ latest = Stored
    /\ pc = "persist" =>
          \A s \in cur : /\ Stored <= s.slot /\ latest = s.slot
                         /\ swaps = Prune(dswaps, s.slot) \cup recorded
    /\ pc = "batch" =>
          /\ Earlier(dswaps, firstInvalid) = Earlier(swaps, firstInvalid)
          /\ Lower(LastValid(firstInvalid), Stored) = Lower(LastValid(firstInvalid), latest)
    /\ pc = "memory" /\ ~failed =>
          /\ dswaps = Earlier(swaps, firstInvalid)
          /\ Stored = Lower(LastValid(firstInvalid), latest)
WindowInv ==
    /\ \A w \in dswaps : w.slot >= Cutoff(Stored)
    /\ up => TrackerInv

\* The window moves back with the latest slot.
LEMMA CutoffMonotone ==
    ASSUME NEW m \in Nat, NEW n \in Nat, m <= n
    PROVE  /\ Cutoff(m) \in Nat /\ Cutoff(n) \in Nat
           /\ Cutoff(m) <= Cutoff(n) /\ Cutoff(n) <= n
  BY WindowAssumption DEF Cutoff

\* The slots the window is computed from are numbers.
LEMMA StoredType ==
    ASSUME StorageInv PROVE Stored \in Nat /\ latest \in Nat /\ firstInvalid \in Nat
  BY DEF StorageInv, TypeOK, StoreTypeOK, MemoryTypeOK, HandlerTypeOK, Stored, RestoredLatest

\* handleTransaction advances the tracker.
LEMMA ObserveKeepsWindow ==
    ASSUME StorageInv, PipeInv, PipeInv', WindowInv, ObserveState
    PROVE  WindowInv'
<1> DEFINE s == Head(queue).state
           inferred == InferFrom(pools, s)
<1>1. /\ up /\ pc = "idle" /\ queue # <<>> /\ Head(queue).type = "transaction"
      /\ UNCHANGED <<dmeta, dswaps>>
  BY DEF ObserveState, NextIsUpdate, diskVars
<1>2. swaps = dswaps /\ latest = Stored /\ Stored \in Nat
  BY <1>1, StoredType DEF WindowInv, TrackerInv
<1>3. s.slot \in Nat
  <2>1. Head(queue) \in Event
    BY <1>1, TailOfQueue DEF StorageInv, TypeOK, PipelineTypeOK
  <2> QED
    BY <1>1, <2>1, EventParts
<1>4. \A w \in inferred : w.slot = s.slot
  BY InferredIdentity
<1>5. AcceptState(s, inferred) /\ ~ObserveRejects(latest, swaps, s, inferred)
  <2>1. ~RejectState
    BY DEF PipeInv, RejectState
  <2> QED
    BY <2>1 DEF ObserveState
<1> HIDE DEF s, inferred
<1>6. /\ cur' = {s} /\ pc' = "persist" /\ latest' = s.slot /\ recorded' = inferred \ swaps
      /\ swaps' = Prune(swaps, s.slot) \cup inferred
  BY <1>5 DEF AcceptState, RecordedSwap, ObservedSwaps
<1>7. Stored' = Stored /\ Stored <= s.slot
  BY <1>1, <1>2, <1>3, <1>5 DEF Stored, ObserveRejects
<1>8. \A w \in inferred \cap swaps : w \in Prune(swaps, s.slot)
  BY <1>3, <1>4, CutoffMonotone DEF Prune
<1>9. swaps' = Prune(dswaps', s.slot) \cup recorded'
  BY <1>1, <1>2, <1>6, <1>8
<1>10. TrackerInv'
  BY <1>6, <1>7, <1>9 DEF TrackerInv
<1> QED
  BY <1>1, <1>7, <1>10 DEF WindowInv

\* The save brings the store to where the tracker is: it forgets the same swaps
\* because the budget suffices.
LEMMA SaveKeepsWindow ==
    ASSUME StorageInv, PipeInv, WindowInv, StoreFits, SavePoolStateAndActivity
    PROVE  WindowInv'
<1>1. /\ up /\ pc = "persist" /\ pc' = "publish" /\ UNCHANGED <<latest, swaps, recorded>>
  BY DEF SavePoolStateAndActivity, memoryVars
<1>2. PICK s \in cur : dmeta' = SavedMeta(dmeta, s) /\ dswaps' = SavedSwaps(dmeta, dswaps, s, recorded)
  BY DEF SavePoolStateAndActivity
<1>3. /\ s.slot \in Nat /\ IsFiniteSet(dswaps) /\ dmeta \in Nat \cup {NoMeta}
      /\ \A w \in dswaps \cup recorded : w.slot \in Nat
  BY DEF StorageInv, TypeOK, HandlerTypeOK, StoreTypeOK, PoolState, SwapTransition
<1>4. /\ \A w \in dswaps : Before(w, s)
      /\ \A w \in recorded : w.slot = s.slot /\ w.utxo = s.utxo
  <2>1. \A t \in cur : /\ \A w \in dswaps : Before(w, t)
                       /\ \A w \in recorded : w.slot = t.slot /\ w.utxo = t.utxo
    BY <1>1, Zenon DEF PipeInv, UpInv, CopiesInv
  <2> QED
    BY <1>2, <2>1
<1>5. Stored <= s.slot /\ latest = s.slot /\ swaps = Prune(dswaps, s.slot) \cup recorded
  BY <1>1 DEF WindowInv, TrackerInv
<1>6. dmeta' = s.slot /\ Stored' = s.slot
  BY <1>2, <1>3, <1>5 DEF SavedMeta, Stored, RestoredLatest, NoMeta
<1>7. PutSwap(dswaps, recorded) = dswaps \cup recorded
  BY <1>3, <1>4 DEF PutSwap, SameSwapIdentity, Before
<1>8. Cutoff(s.slot) <= s.slot /\ Cutoff(s.slot) \in Nat
  BY <1>3, CutoffMonotone
<1> DEFINE put == dswaps \cup recorded
<1>9. ASSUME NEW w \in put, w.slot < Cutoff(s.slot)
      PROVE  Cardinality({v \in put : KeyBefore(v, w)}) < DeleteBudget
  <2>1. {v \in put : KeyBefore(v, w)} \subseteq dswaps
    BY <1>3, <1>4, <1>8, <1>9 DEF KeyBefore
  <2>2. Cardinality({v \in put : KeyBefore(v, w)}) <= Cardinality(dswaps)
    BY <1>3, <2>1, FS_Subset
  <2>3. Cardinality({v \in put : KeyBefore(v, w)}) \in Nat /\ Cardinality(dswaps) \in Nat
    BY <1>3, <2>1, FS_Subset, FS_CardinalityType
  <2> QED
    BY <2>2, <2>3, BudgetAssumption DEF StoreFits
<1>10. PruneKeys(put, Cutoff(s.slot)) = {w \in put : w.slot < Cutoff(s.slot)}
  BY <1>9 DEF PruneKeys
<1>11. dswaps' = put \ PruneKeys(put, Cutoff(s.slot))
  BY <1>2, <1>6, <1>7 DEF SavedSwaps
<1>12. dswaps' = {w \in put : w.slot >= Cutoff(s.slot)}
  <2>1. \A w \in put : ~(w.slot < Cutoff(s.slot)) <=> w.slot >= Cutoff(s.slot)
    BY <1>3, <1>8
  <2> HIDE DEF put
  <2> QED
    BY <1>10, <1>11, <2>1
<1>13. dswaps' = Prune(dswaps, s.slot) \cup recorded
  BY <1>4, <1>8, <1>12 DEF Prune
<1>14. TrackerInv'
  BY <1>1, <1>5, <1>6, <1>13 DEF TrackerInv
<1> QED
  BY <1>6, <1>12, <1>14 DEF WindowInv

\* A rollback begins with the tracker and the store in step.
LEMMA StartKeepsWindow ==
    ASSUME WindowInv, StartRollback PROVE WindowInv'
<1>1. /\ up /\ pc = "idle" /\ pc' = "batch" /\ UNCHANGED <<dmeta, dswaps, latest, swaps, failed>>
  BY DEF StartRollback, NextIsRollback, diskVars
<1>2. swaps = dswaps /\ latest = Stored /\ Stored' = Stored
  BY <1>1 DEF WindowInv, TrackerInv, Stored
<1>3. TrackerInv'
  BY <1>1, <1>2 DEF TrackerInv
<1> QED
  BY <1>1, <1>2, <1>3 DEF WindowInv

\* A batch removes swaps after the rollback slot only, and the last one leaves
\* none of them and rewinds the latest slot as the tracker will.
LEMMA BatchKeepsWindow ==
    ASSUME StorageInv, WindowInv, RollbackActivityBatch \/ RollbackActivityFails
    PROVE  WindowInv'
<1>1. /\ up /\ pc = "batch" /\ UNCHANGED <<latest, swaps, firstInvalid>>
  BY DEF RollbackActivityBatch, RollbackActivityFails, memoryVars
<1>2. /\ Stored \in Nat /\ latest \in Nat /\ firstInvalid \in Nat /\ dmeta \in Nat \cup {NoMeta}
      /\ dswaps \subseteq SwapTransition /\ IsFiniteSet(dswaps)
      /\ \A w \in dswaps \cup swaps : w.slot \in Nat
      /\ \A w \in dswaps : w.slot <= dmeta
  BY StoredType DEF StorageInv, TypeOK, StoreTypeOK, MemoryTypeOK, SwapTransition, NoSwapAboveLatest
<1>3. /\ Earlier(dswaps, firstInvalid) = Earlier(swaps, firstInvalid)
      /\ Lower(LastValid(firstInvalid), Stored) = Lower(LastValid(firstInvalid), latest)
      /\ \A w \in dswaps : w.slot >= Cutoff(Stored)
  BY <1>1 DEF WindowInv, TrackerInv
<1>4. CASE RollbackActivityFails
  <2>1. UNCHANGED <<dmeta, dswaps>> /\ failed' /\ pc' = "memory"
    BY <1>4 DEF RollbackActivityFails, diskVars
  <2> QED
    BY <1>1, <1>3, <2>1 DEF WindowInv, TrackerInv, Stored
<1>5. CASE RollbackActivityBatch
  <2> DEFINE first == BatchFirstInvalid(dswaps, firstInvalid)
  <2>1. /\ dmeta' = RewindMeta(dmeta, first) /\ dswaps' = BatchSwaps(dswaps, firstInvalid)
        /\ pc' = IF BatchExhausts(dswaps, firstInvalid) THEN "memory" ELSE "batch"
        /\ UNCHANGED failed
    BY <1>5 DEF RollbackActivityBatch, BatchMeta
  <2>2. /\ first \in Nat /\ first >= firstInvalid
        /\ BatchExhausts(dswaps, firstInvalid) => first = firstInvalid
    <3>1. CASE BatchExhausts(dswaps, firstInvalid)
      BY <1>2, <3>1 DEF BatchFirstInvalid
    <3>2. CASE ~BatchExhausts(dswaps, firstInvalid)
      <4>1. PICK k \in BatchKeys(dswaps, firstInvalid) : first = k.slot
        BY <1>2, <3>2, BatchRewindsToAKey
      <4>2. k \in dswaps /\ k.slot >= firstInvalid
        BY DEF BatchKeys
      <4> QED
        BY <1>2, <3>2, <4>1, <4>2
    <3> QED
      BY <3>1, <3>2
  <2> HIDE DEF first
  <2>3. Stored' = Lower(LastValid(first), Stored)
    BY <1>2, <2>1, <2>2 DEF Stored, RestoredLatest, RewindMeta, Lower, LastValid, NoMeta
  <2>4. /\ LastValid(first) \in Nat /\ LastValid(firstInvalid) \in Nat
        /\ LastValid(firstInvalid) <= LastValid(first)
    BY <1>2, <2>2 DEF LastValid
  <2>5. Stored' \in Nat /\ Stored' <= Stored
    BY <1>2, <2>3, <2>4 DEF Lower
  <2>6. dswaps' \subseteq dswaps /\ Earlier(dswaps', firstInvalid) = Earlier(dswaps, firstInvalid)
    BY <1>2, <2>1 DEF BatchSwaps, BatchKeys, Earlier
  <2>7. \A w \in dswaps' : w.slot >= Cutoff(Stored')
    <3>1. Cutoff(Stored') <= Cutoff(Stored) /\ Cutoff(Stored') \in Nat /\ Cutoff(Stored) \in Nat
      BY <1>2, <2>5, CutoffMonotone
    <3> QED
      BY <1>2, <1>3, <2>6, <3>1
  <2>8. Lower(LastValid(firstInvalid), Stored') = Lower(LastValid(firstInvalid), Stored)
    BY <1>2, <2>3, <2>4 DEF Lower
  <2>9. CASE BatchExhausts(dswaps, firstInvalid)
    <3>1. dswaps' = Earlier(dswaps, firstInvalid)
      BY <1>2, <2>1, <2>9 DEF BatchSwaps, BatchExhausts, BatchKeys, Earlier
    <3>2. Stored' = Lower(LastValid(firstInvalid), Stored)
      BY <2>2, <2>3, <2>9
    <3>3. pc' = "memory"
      BY <2>1, <2>9
    <3>4. TrackerInv'
      BY <1>1, <1>3, <3>1, <3>2, <3>3 DEF TrackerInv
    <3> QED
      BY <2>7, <3>4 DEF WindowInv
  <2>10. CASE ~BatchExhausts(dswaps, firstInvalid)
    <3>1. pc' = "batch"
      BY <2>1, <2>10
    <3>2. TrackerInv'
      BY <1>1, <1>3, <2>6, <2>8, <3>1 DEF TrackerInv
    <3> QED
      BY <2>7, <3>2 DEF WindowInv
  <2> QED
    BY <2>9, <2>10
<1> QED
  BY <1>4, <1>5

\* The tracker is rewound to what the store holds.
LEMMA MemoryKeepsWindow ==
    ASSUME StorageInv, WindowInv, RollbackMemory PROVE WindowInv'
<1>1. /\ up /\ pc = "memory" /\ pc' = "delete" /\ UNCHANGED <<dmeta, dswaps, failed>>
      /\ ~failed => /\ latest' = RolledBackLatest(latest, firstInvalid)
                    /\ swaps' = RolledBackSwaps(latest, swaps, firstInvalid)
  BY DEF RollbackMemory, diskVars
<1>2. Stored' = Stored
  BY <1>1 DEF Stored
<1>3. ASSUME ~failed PROVE swaps' = dswaps /\ latest' = Stored
  <2>1. dswaps = Earlier(swaps, firstInvalid) /\ Stored = Lower(LastValid(firstInvalid), latest)
    BY <1>1, <1>3 DEF WindowInv, TrackerInv
  <2>2. latest' = Stored
    BY <1>1, <1>3, <2>1 DEF RolledBackLatest
  <2>3. swaps' = Prune(dswaps, Stored)
    BY <1>1, <1>3, <2>1 DEF RolledBackSwaps, RolledBackLatest, Earlier
  <2> QED
    BY <2>2, <2>3 DEF WindowInv, Prune
<1>4. TrackerInv'
  BY <1>1, <1>2, <1>3 DEF TrackerInv
<1> QED
  BY <1>1, <1>2, <1>4 DEF WindowInv

\* Every step keeps the window.
LEMMA WindowStep ==
    ASSUME StorageInv, PipeInv, PipeInv', WindowInv, StoreFits, [Next]_vars
    PROVE  WindowInv'
<1>1. ASSUME UNCHANGED <<dmeta, dswaps, up, latest, swaps, pc, cur, recorded, firstInvalid, failed>>
      PROVE  WindowInv'
  BY <1>1 DEF WindowInv, TrackerInv, Stored
<1>2. ASSUME ~up', UNCHANGED <<dmeta, dswaps>> PROVE WindowInv'
  BY <1>2 DEF WindowInv, Stored
<1>3. PublishState => WindowInv'
  <2>1. ASSUME PublishState
        PROVE  /\ up /\ pc = "publish" /\ pc' = "idle" /\ UNCHANGED <<dmeta, dswaps, latest, swaps>>
    BY <2>1 DEF PublishState, HandlerIdle, diskVars
  <2> QED
    BY <2>1 DEF WindowInv, TrackerInv, Stored
<1>4. RollbackReturns => WindowInv'
  <2>1. ASSUME RollbackReturns
        PROVE  /\ up /\ pc = "delete" /\ ~failed /\ pc' = "idle"
               /\ UNCHANGED <<dmeta, dswaps, latest, swaps>>
    BY <2>1 DEF RollbackReturns, HandlerIdle, diskVars, memoryVars
  <2> QED
    BY <2>1 DEF WindowInv, TrackerInv, Stored
<1>5. (\E s \in toDelete : DeletePoolState(s) \/ DeletePoolStateFails(s)) => WindowInv'
  <2>1. ASSUME NEW s \in toDelete, DeletePoolState(s) \/ DeletePoolStateFails(s)
        PROVE  /\ up /\ pc = "delete" /\ pc' = "delete" /\ (~failed' => ~failed)
               /\ UNCHANGED <<dmeta, dswaps, latest, swaps>>
    BY <2>1 DEF DeletePoolState, DeletePoolStateFails, diskVars, memoryVars
  <2> QED
    BY <2>1 DEF WindowInv, TrackerInv, Stored
<1>6. Crash \/ RollbackReturnsError => WindowInv'
  BY <1>2 DEF Crash, RollbackReturnsError, ProcessEnds, diskVars
<1>7. CASE Handler
  BY <1>3, <1>4, <1>5, <1>6, <1>7, ObserveKeepsWindow, SaveKeepsWindow, StartKeepsWindow,
     BatchKeepsWindow, MemoryKeepsWindow DEF Handler
<1>8. CASE Faults
  BY <1>5, <1>6, <1>8, BatchKeepsWindow DEF Faults
<1>9. CASE Node
  BY <1>1, <1>9, NodeKeepsTheRest DEF diskVars, memoryVars, handlerVars
<1>10. CASE Restart
  <2>1. ~up /\ UNCHANGED <<dmeta, dswaps, pc, failed>>
    BY <1>10 DEF Restart, diskVars, handlerVars
  <2>2. CASE ~up'
    BY <1>2, <2>1, <2>2
  <2>3. CASE up'
    <3>1. latest' = Stored /\ swaps' = Prune(dswaps, Stored)
      BY <1>10, <2>1, <2>3 DEF Restart, LoadPersistedStates, RestoredSwaps, Stored
    <3>2. swaps' = dswaps /\ pc = "idle"
      BY <2>1, <3>1 DEF WindowInv, Prune, PipeInv, DownInv
    <3>3. TrackerInv'
      BY <2>1, <3>1, <3>2 DEF TrackerInv, Stored
    <3> QED
      BY <2>1, <3>3 DEF WindowInv, Stored
  <2> QED
    BY <2>2, <2>3
<1>11. CASE UNCHANGED vars
  BY <1>1, <1>11 DEF vars, diskVars, memoryVars, handlerVars
<1> QED
  BY <1>7, <1>8, <1>9, <1>10, <1>11 DEF Next

\* As long as the store fits one transaction, a restart between two events
\* would report the volume the running oracle reports.
THEOREM VolumeSurvivesRestart == Spec /\ []StoreFits => []RestartKeepsVolume
<1>1. Init => WindowInv
  BY DEF Init, WindowInv, TrackerInv, Stored, RestoredLatest
<1>2. StorageInv /\ PipeInv /\ PipeInv' /\ WindowInv /\ StoreFits /\ [Next]_vars => WindowInv'
  BY WindowStep
<1>3. WindowInv => RestartKeepsVolume
  BY DEF WindowInv, TrackerInv, RestartKeepsVolume, InWindow, Stored
<1> QED
  BY <1>1, <1>2, <1>3, PipelineCorrect, PTL DEF Spec
=============================================================================
