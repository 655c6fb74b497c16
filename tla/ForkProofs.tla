----------------------------- MODULE ForkProofs -----------------------------
(***************************************************************************)
(* Nothing of an abandoned fork is counted, whatever the reorgs, crashes   *)
(* and restarts, except what the store kept of a rollback that a process   *)
(* left unfinished after the cursor had passed it (stranded).  The run     *)
(* oracle_lead shows how such a swap is counted again.                     *)
(***************************************************************************)
EXTENDS OracleProofs

\* The state or swap r was produced by the k-th block of the chain, and by one
\* that the client was sent.
OnBlock(r, k) ==
    /\ chain[k].hash = r.hash
    /\ chain[k].slot = r.slot
    /\ r.utxo \in Elements(chain[k].outs)
Followed(r) == \E k \in 1..sent : OnBlock(r, k)

\* A rollback that removes r is in the queue, at position i or after it.
Covered(q, r, i) ==
    \E m \in i..Len(q) : q[m].type = "rollback" /\ q[m].slot < r.slot
Current(r) == Followed(r) \/ Covered(queue, r, 1)

\* A restart would begin with a rollback to the cursor, if there is a restart; so
\* it would keep r only if r is still on the chain.
Behind(n) == cursor.slot < n \/ ~OnChain(cursor)
Sound(r) == Behind(r.slot) \/ \E k \in 1..Len(chain) : OnBlock(r, k)

\* The store has not been rewound by the running rollback, or never will be.
NotErased == pc = "batch" \/ failed

\* What the oracle holds and what it will be told is on the chain it follows,
\* or a rollback that is queued or running removes it.
HeldInv ==
    /\ \A r \in cur \cup recorded : Current(r)
    /\ \A r \in pools \ stranded : Current(r)
    /\ \A r \in dpools \ stranded : Current(r) \/ (RollbackRuns /\ r.slot >= firstInvalid)
    /\ \A w \in swaps \ stranded : Current(w) \/ (NotRewound /\ w.slot >= firstInvalid)
    /\ \A w \in dswaps \ stranded : Current(w) \/ (NotErased /\ w.slot >= firstInvalid)

QueuedInv ==
    \A j \in 1..Len(queue) : queue[j].type = "transaction" =>
        Followed(queue[j].state) \/ Covered(queue, queue[j].state, j)

\* A swap that a rollback set out to remove is on its way out, or its block
\* came again and it is about to be saved again.
GoneInv ==
    /\ \A w \in (condemned \cap swaps) \ stranded :
          \/ Covered(queue, w, 1)
          \/ NotRewound /\ w.slot >= firstInvalid
          \/ pc = "persist" /\ w \in recorded
    /\ \A w \in (condemned \cap dswaps) \ stranded :
          \/ Covered(queue, w, 1)
          \/ NotErased /\ w.slot >= firstInvalid

\* What a process that ended left behind.
SoundInv ==
    /\ \A r \in (dpools \cup dswaps) \ stranded : Sound(r)
    /\ \A w \in (condemned \cap dswaps) \ stranded : Behind(w.slot)

\* Block hashes are not used again.
HashInv ==
    /\ \A i \in 1..Len(chain) : chain[i].hash <= blocks
    /\ cursor.hash <= blocks

ForkInv ==
    /\ HashInv
    /\ up => HeldInv /\ QueuedInv /\ GoneInv
    /\ ~up => SoundInv

-----------------------------------------------------------------------------
(* The queue                                                               *)

\* A rollback stays queued until it is handled.
LEMMA CoveredByTail ==
    ASSUME NEW q \in Seq(Event), q # <<>>, NEW r
    PROVE  /\ \A i \in 1..Len(Tail(q)) : Covered(q, r, i + 1) => Covered(Tail(q), r, i)
           /\ Covered(q, r, 1) =>
                 \/ Covered(Tail(q), r, 1)
                 \/ Head(q).type = "rollback" /\ Head(q).slot < r.slot
<1> DEFINE t == Tail(q)
<1>1. /\ Len(q) \in Nat /\ Len(q) >= 1 /\ Len(t) = Len(q) - 1 /\ Head(q) = q[1]
      /\ \A i \in 1..Len(t) : t[i] = q[i + 1]
  BY TailOfQueue
<1> HIDE DEF t
<1>2. ASSUME NEW i \in Nat \ {0}, NEW m \in (i + 1)..Len(q), q[m].type = "rollback",
             q[m].slot < r.slot
      PROVE  Covered(t, r, i)
  <2>1. m - 1 \in i..Len(t) /\ m - 1 \in 1..Len(t) /\ (m - 1) + 1 = m
    BY <1>1, <1>2
  <2>2. t[m - 1] = q[m]
    BY <1>1, <2>1
  <2> QED
    BY <1>2, <2>1, <2>2 DEF Covered
<1>3. ASSUME NEW i \in 1..Len(t), Covered(q, r, i + 1) PROVE Covered(t, r, i)
  <2>1. i \in Nat \ {0}
    BY <1>1
  <2>2. PICK m \in (i + 1)..Len(q) : q[m].type = "rollback" /\ q[m].slot < r.slot
    BY <1>3 DEF Covered
  <2> QED
    BY <1>2, <2>1, <2>2
<1>4. ASSUME Covered(q, r, 1)
      PROVE  Covered(t, r, 1) \/ (Head(q).type = "rollback" /\ Head(q).slot < r.slot)
  <2>1. PICK m \in 1..Len(q) : q[m].type = "rollback" /\ q[m].slot < r.slot
    BY <1>4 DEF Covered
  <2>2. m = 1 \/ m \in (1 + 1)..Len(q)
    BY <1>1
  <2> QED
    BY <1>1, <1>2, <2>1, <2>2
<1> QED
  BY <1>3, <1>4 DEF t

\* So it does when events join the queue.
LEMMA CoveredByMore ==
    ASSUME NEW q \in Seq(Event), NEW p \in Seq(Event), Len(q) <= Len(p),
           \A k \in 1..Len(q) : p[k] = q[k],
           NEW i \in Nat \ {0}, NEW r, Covered(q, r, i)
    PROVE  Covered(p, r, i)
<1>1. PICK m \in i..Len(q) : q[m].type = "rollback" /\ q[m].slot < r.slot
  BY DEF Covered
<1>2. m \in 1..Len(q) /\ m \in i..Len(p)
  OBVIOUS
<1> QED
  BY <1>1, <1>2 DEF Covered

\* A rollback that joins the queue is after every event in it.
LEMMA CoveredByLast ==
    ASSUME NEW q \in Seq(Event), NEW n \in Nat, NEW r, n < r.slot, NEW i \in 1..(Len(q) + 1)
    PROVE  Covered(Append(q, RollbackEvent(n)), r, i)
<1> DEFINE p == Append(q, RollbackEvent(n))
<1>1. /\ Len(q) \in Nat /\ Len(p) = Len(q) + 1 /\ p[Len(q) + 1] = RollbackEvent(n)
  BY RollbackEventType
<1>2. Len(q) + 1 \in i..Len(p)
  BY <1>1
<1>3. RollbackEvent(n).type = "rollback" /\ RollbackEvent(n).slot = n
  BY DEF RollbackEvent
<1> QED
  BY <1>1, <1>2, <1>3 DEF Covered

-----------------------------------------------------------------------------
(* The node and the pipeline                                               *)

BlockRecord == [slot: Nat, hash: Nat, outs: Seq(DOMAIN Outputs)]

\* Blocks stay where they are, and no new one has a hash that was used.
LEMMA NodeKeepsHashes ==
    ASSUME PipelineTypeOK, PipelineTypeOK', ChainInv, HashInv, Node
    PROVE  /\ HashInv'
           /\ \A k \in 1..Len(chain) : k <= Len(chain') => chain'[k] = chain[k]
           /\ \A k \in 0..Len(chain) : k <= Len(chain') => BlockAt(k)' = BlockAt(k)
           /\ \A k \in 1..Len(chain') : k > Len(chain) => chain'[k].hash > blocks
<1>1. /\ Len(chain) \in Nat /\ sent \in 0..Len(chain) /\ blocks \in Nat /\ chain \in Seq(BlockRecord)
      /\ Len(chain') \in Nat
  BY DEF PipelineTypeOK, BlockRecord
<1>2. \A k \in 0..Len(chain) : k <= Len(chain') => BlockAt(k)' = BlockAt(k)
  BY NodeKeepsChain
<1>3. ASSUME NEW k \in 1..Len(chain), k <= Len(chain') PROVE chain'[k] = chain[k]
  <2>1. k \in 0..Len(chain) /\ k # 0
    BY <1>1
  <2>2. BlockAt(k)' = BlockAt(k)
    BY <1>2, <1>3, <2>1
  <2> QED
    BY <2>1, <2>2 DEF BlockAt
<1>4. ASSUME NEW outs \in Payloads, NEW slot \in 1..MaxSlot, NewBlock(outs, slot)
      PROVE  HashInv' /\ \A k \in 1..Len(chain') : k > Len(chain) => chain'[k].hash > blocks
  <2> DEFINE b == [slot |-> slot, hash |-> blocks + 1, outs |-> outs]
  <2>1. chain' = Append(chain, b) /\ cursor' = cursor /\ blocks' = blocks + 1
    BY <1>4 DEF NewBlock
  <2>2. b.hash = blocks + 1
    OBVIOUS
  <2> HIDE DEF b
  <2>3. Len(chain') = Len(chain) + 1 /\ chain'[Len(chain) + 1] = b
    BY <1>1, <2>1, AppendProperties
  <2>4. \A k \in 1..Len(chain') : k \in 1..Len(chain) \/ k = Len(chain) + 1
    BY <1>1, <2>3
  <2>5. \A k \in 1..Len(chain) : chain'[k].hash <= blocks /\ chain[k].hash \in Nat
    <3>1. \A k \in 1..Len(chain) : chain'[k] = chain[k] /\ chain[k] \in BlockRecord
      BY <1>1, <1>3, <2>3, ElementOfSeq
    <3> QED
      BY <3>1 DEF HashInv, BlockRecord
  <2>6. cursor.hash \in Nat
    BY DEF PipelineTypeOK
  <2>7. ASSUME NEW k \in 1..Len(chain') PROVE chain'[k].hash <= blocks'
    <3>1. CASE k \in 1..Len(chain)
      <4>1. chain'[k].hash \in Nat
        BY <1>3, <2>3, <2>5, <3>1, <1>1
      <4> QED
        BY <1>1, <2>1, <2>5, <3>1, <4>1
    <3>2. CASE k = Len(chain) + 1
      BY <1>1, <2>1, <2>2, <2>3, <3>2
    <3> QED
      BY <2>4, <3>1, <3>2
  <2>8. \A k \in 1..Len(chain') : k > Len(chain) => chain'[k].hash > blocks
    BY <1>1, <2>2, <2>3, <2>4
  <2>9. cursor'.hash <= blocks'
    BY <1>1, <2>1, <2>6 DEF HashInv
  <2> QED
    BY <2>7, <2>8, <2>9 DEF HashInv
<1>5. ASSUME NEW k \in 0..Len(chain), Reorg(k)
      PROVE  HashInv' /\ \A i \in 1..Len(chain') : i > Len(chain) => chain'[i].hash > blocks
  <2>1. UNCHANGED <<cursor, blocks>> /\ chain' = SubSeq(chain, 1, k) /\ k < Len(chain)
    BY <1>5 DEF Reorg
  <2>2. Len(chain') = k /\ \A i \in 1..k : i \in 1..Len(chain)
    BY <1>1, <2>1, SubSeqProperties
  <2>3. \A i \in 1..Len(chain') : chain'[i] = chain[i] /\ i \in 1..Len(chain)
    BY <1>1, <1>3, <2>2
  <2> QED
    BY <1>1, <2>1, <2>2, <2>3 DEF HashInv
<1>6. ASSUME RollForward \/ Reconnect
      PROVE  HashInv' /\ chain' = chain
  BY <1>6 DEF RollForward, Reconnect, HashInv
<1>7. ASSUME UpdateStatus
      PROVE  HashInv' /\ chain' = chain
  <2>1. UNCHANGED <<chain, blocks>> /\ cursor' = Point(BlockAt(sent))
    BY <1>7 DEF UpdateStatus, chainVars
  <2>2. cursor'.hash = BlockAt(sent).hash
    BY <2>1 DEF Point
  <2>3. BlockAt(sent).hash <= blocks
    <3>1. sent = 0 \/ sent \in 1..Len(chain)
      BY <1>1
    <3> QED
      BY <1>1, <3>1 DEF BlockAt, Origin, HashInv
  <2> QED
    BY <2>1, <2>2, <2>3 DEF HashInv
<1>8. \A k \in 1..Len(chain) : ~(k > Len(chain))
  BY <1>1
<1> QED
  BY <1>2, <1>3, <1>4, <1>5, <1>6, <1>7, <1>8 DEF Node

\* The node's steps other than a write of the cursor leave what a restart would
\* do as it was: a cursor whose block left the chain never returns to it, and
\* what a reorg takes off the chain is after the cursor if that stays on it.
LEMMA NodeKeepsSound ==
    ASSUME PipelineTypeOK, PipelineTypeOK', ChainInv, ChainInv', HashInv, Node, UNCHANGED cursor
    PROVE  /\ \A n : Behind(n) => Behind(n)'
           /\ \A r : Sound(r) => Sound(r)'
<1>1. /\ Len(chain) \in Nat /\ sent \in 0..Len(chain) /\ blocks \in Nat /\ chain \in Seq(BlockRecord)
      /\ Len(chain') \in Nat /\ cursor.hash \in Nat
  BY DEF PipelineTypeOK, BlockRecord
<1>2. /\ \A k \in 1..Len(chain) : k <= Len(chain') => chain'[k] = chain[k]
      /\ \A k \in 0..Len(chain) : k <= Len(chain') => BlockAt(k)' = BlockAt(k)
      /\ \A k \in 1..Len(chain') : k > Len(chain) => chain'[k].hash > blocks
  BY NodeKeepsHashes
<1>3. ASSUME NEW m \in 0..Len(chain'), Point(BlockAt(m)') = cursor
      PROVE  m \in 0..Len(chain) /\ Point(BlockAt(m)) = cursor
  <2>1. CASE m > Len(chain)
    <3>1. m \in 1..Len(chain') /\ BlockAt(m)' = chain'[m]
      BY <1>1, <2>1 DEF BlockAt
    <3>2. chain'[m].hash > blocks /\ chain'[m].hash = cursor.hash
      BY <1>2, <1>3, <2>1, <3>1 DEF Point
    <3> QED
      BY <1>1, <3>2 DEF HashInv
  <2>2. CASE m <= Len(chain)
    BY <1>1, <1>2, <1>3, <2>2
  <2> QED
    BY <1>1, <2>1, <2>2
<1>4. OnChain(cursor)' => OnChain(cursor)
  BY <1>3 DEF OnChain
<1>5. ASSUME NEW n, Behind(n) PROVE Behind(n)'
  BY <1>4, <1>5 DEF Behind
<1>6. ASSUME NEW r, Sound(r) PROVE Sound(r)'
  <2>1. CASE Behind(r.slot)
    BY <1>5, <2>1 DEF Sound
  <2>2. ASSUME NEW k \in 1..Len(chain), OnBlock(r, k) PROVE Sound(r)'
    <3>1. CASE k <= Len(chain')
      <4>1. k \in 1..Len(chain') /\ OnBlock(r, k)'
        BY <1>1, <1>2, <2>2, <3>1 DEF OnBlock
      <4> QED
        BY <4>1 DEF Sound
    <3>2. CASE k > Len(chain')
      <4>1. ASSUME NEW m \in 0..Len(chain'), Point(BlockAt(m)') = cursor
            PROVE  cursor.slot < r.slot
        <5>1. m \in 0..Len(chain) /\ Point(BlockAt(m)) = cursor /\ k \in 0..Len(chain) /\ m < k
          BY <1>1, <1>3, <3>2, <4>1
        <5>2. BlockAt(m).slot < BlockAt(k).slot
          BY <5>1, BlockOrder
        <5>3. BlockAt(k).slot = r.slot /\ cursor.slot = BlockAt(m).slot
          BY <1>1, <2>2, <5>1 DEF OnBlock, BlockAt, Point
        <5> QED
          BY <5>2, <5>3
      <4>2. Behind(r.slot)'
        BY <4>1 DEF Behind, OnChain
      <4> QED
        BY <4>2 DEF Sound
    <3> QED
      BY <1>1, <3>1, <3>2
  <2> QED
    BY <1>6, <2>1, <2>2 DEF Sound
<1> QED
  BY <1>5, <1>6

\* What the node does to the running client's queue: it gains updates of blocks
\* the client follows, or a rollback to the newest one it still follows.
Delivered ==
    /\ Len(queue) <= Len(queue') /\ \A k \in 1..Len(queue) : queue'[k] = queue[k]
    /\ \A k \in 1..Len(queue') : k > Len(queue) =>
          \/ queue'[k].type = "transaction" /\ Followed(queue[k].state)'
          \/ queue'[k].type = "rollback" /\ queue'[k].slot = Top'
    /\ \A r : Followed(r) => Followed(r)' \/ \A i \in 1..(Len(queue) + 1) : Covered(queue', r, i)

\* And it does so in every step, in step with the chain.
LEMMA NodeDelivers ==
    ASSUME TypeOK, PipelineTypeOK', PipeInv, HashInv, up, Node
    PROVE  Delivered
<1>1. /\ Len(chain) \in Nat /\ sent \in 0..Len(chain) /\ chain \in Seq(BlockRecord)
      /\ Len(chain') \in Nat /\ sent' \in 0..Len(chain')
      /\ queue \in Seq(Event) /\ Len(queue) \in Nat
      /\ PipelineTypeOK /\ ChainInv
  BY DEF TypeOK, PipelineTypeOK, BlockRecord, PipeInv
<1>2. /\ \A k \in 1..Len(chain) : k <= Len(chain') => chain'[k] = chain[k]
      /\ \A k \in 0..Len(chain) : k <= Len(chain') => BlockAt(k)' = BlockAt(k)
  BY <1>1, NodeKeepsHashes
<1>3. Top \in Nat
  BY <1>1, TopType
<1>4. ASSUME NEW k \in 1..Len(chain), k <= sent', NEW r, OnBlock(r, k) PROVE Followed(r)'
  <2>1. chain'[k] = chain[k] /\ k \in 1..sent'
    BY <1>1, <1>2, <1>4
  <2> QED
    BY <1>4, <2>1 DEF Followed, OnBlock
<1>5. ASSUME UNCHANGED <<queue, sent>> PROVE Delivered
  <2>1. Top' = Top
    BY <1>1, <1>2, <1>5 DEF Top
  <2>2. \A r : Followed(r) => Followed(r)'
    BY <1>1, <1>4, <1>5 DEF Followed
  <2>3. \A k \in 1..Len(queue') : ~(k > Len(queue))
    BY <1>1, <1>5
  <2> QED
    BY <1>1, <1>3, <1>5, <2>1, <2>2, <2>3 DEF Delivered
<1>6. ASSUME NEW c \in 0..Len(chain), c <= sent, c = Len(chain') \/ c = sent, sent' = c,
             queue' = Append(queue, RollbackEvent(BlockAt(c).slot))
      PROVE  Delivered
  <2>1. Top' = BlockAt(c).slot /\ BlockAt(c).slot \in Nat
    BY <1>1, <1>2, <1>6, BlockOrder DEF Top
  <2> DEFINE e == RollbackEvent(BlockAt(c).slot)
  <2>2. e.type = "rollback" /\ e.slot = Top'
    BY <2>1 DEF RollbackEvent
  <2>3. e \in Event
    BY <2>1, RollbackEventType
  <2> HIDE DEF e
  <2>4. /\ Len(queue') = Len(queue) + 1 /\ queue'[Len(queue) + 1] = e
        /\ \A k \in 1..Len(queue) : queue'[k] = queue[k]
    BY <1>1, <1>6, <2>3, AppendProperties DEF e
  <2>5. ASSUME NEW k \in 1..Len(queue'), k > Len(queue)
        PROVE  queue'[k].type = "rollback" /\ queue'[k].slot = Top'
    <3>1. k = Len(queue) + 1
      BY <1>1, <2>4, <2>5
    <3> QED
      BY <2>2, <2>4, <3>1
  <2>6. ASSUME NEW r, Followed(r), NEW i \in 1..(Len(queue) + 1)
        PROVE  Followed(r)' \/ Covered(queue', r, i)
    <3>1. PICK k \in 1..sent : OnBlock(r, k)
      BY <2>6 DEF Followed
    <3>2. k \in 1..Len(chain) /\ k \in 0..Len(chain) /\ BlockAt(k) = chain[k]
      BY <1>1 DEF BlockAt
    <3>3. CASE k <= c
      BY <1>4, <1>6, <3>1, <3>2, <3>3
    <3>4. CASE c < k
      <4>1. BlockAt(c).slot < r.slot
        BY <1>1, <3>1, <3>2, <3>4, BlockOrder DEF OnBlock
      <4> QED
        BY <1>1, <1>6, <2>1, <2>6, <4>1, CoveredByLast
    <3> QED
      BY <3>2, <3>3, <3>4
  <2>8. \A r : Followed(r) => Followed(r)' \/ \A i \in 1..(Len(queue) + 1) : Covered(queue', r, i)
    BY <2>6
  <2> QED
    BY <1>1, <2>4, <2>5, <2>8 DEF Delivered
<1>7. ASSUME NEW k \in 0..Len(chain), Reorg(k) PROVE Delivered
  <2>1. chain' = SubSeq(chain, 1, k) /\ k < Len(chain) /\ k \in Nat
    BY <1>1, <1>7 DEF Reorg
  <2>2. Len(chain') = k
    BY <1>1, <2>1, SubSeqProperties
  <2>3. CASE sent > k
    <3>1. queue' = Append(queue, RollbackEvent(BlockAt(k).slot)) /\ sent' = k
      BY <1>7, <2>3 DEF Reorg
    <3> QED
      BY <1>1, <1>6, <2>1, <2>2, <2>3, <3>1
  <2>4. CASE ~(sent > k)
    <3>1. queue' = queue /\ sent' = Lower(sent, k)
      BY <1>7, <2>4 DEF Reorg
    <3> QED
      BY <1>1, <1>5, <2>1, <2>4, <3>1 DEF Lower
  <2> QED
    BY <2>3, <2>4
<1>8. ASSUME RollForward PROVE Delivered
  <2> DEFINE b == chain[sent + 1]
  <2>1. sent + 1 \in 1..Len(chain) /\ sent + 1 \in 0..Len(chain) /\ BlockAt(sent + 1) = b
    BY <1>1, <1>8 DEF RollForward, BlockAt
  <2>2. sent' = sent + 1 /\ chain' = chain
    BY <1>8 DEF RollForward
  <2>3. queue' = queue \o BlockEvents(b)
    BY <1>8 DEF RollForward, BlockEvents
  <2>4. b \in [slot: Nat, hash: Nat, outs: Seq(DOMAIN Outputs)]
    BY <1>1, <2>1, ElementOfSeq DEF BlockRecord
  <2>5. Top < b.slot
    <3>1. BlockAt(sent).slot < BlockAt(sent + 1).slot
      BY <1>1, <2>1, BlockOrder
    <3> QED
      BY <2>1, <3>1 DEF Top
  <2> HIDE DEF b
  <2> DEFINE p == queue \o BlockEvents(b)
  <2>6. /\ \A k \in 1..Len(p) :
              \/ k <= Len(queue) /\ p[k] = queue[k]
              \/ /\ k > Len(queue) /\ p[k].type = "transaction"
                 /\ \E u \in Elements(b.outs) : p[k].state = StateOf(b, u)
        /\ Len(queue) <= Len(p) /\ \A k \in 1..Len(queue) : p[k] = queue[k]
    <3>1. /\ queue \in Seq(Event) /\ InOrder(queue) /\ Top \in Nat /\ EndsBy(queue, Top)
          /\ Top < b.slot /\ b \in [slot: Nat, hash: Nat, outs: Seq(DOMAIN Outputs)]
          /\ \A i, j \in 1..Len(b.outs) : b.outs[i] = b.outs[j] => i = j
      <4>1. \A i, j \in 1..Len(b.outs) : b.outs[i] = b.outs[j] => i = j
        BY <1>1, <2>1 DEF ChainInv, b
      <4> QED
        BY <1>1, <1>3, <2>4, <2>5, <4>1 DEF PipeInv, UpInv, QueueInv
    <3>2. JoinedBy(p, queue, b)
      BY <3>1, BlockJoinsQueue
    <3> HIDE DEF p
    <3> QED
      BY <3>2, Zenon DEF JoinedBy
  <2>7. queue' = p
    BY <2>3
  <2> HIDE DEF p
  <2>8. ASSUME NEW u \in Elements(b.outs), NEW s, s = StateOf(b, u) PROVE Followed(s)'
    <3>1. OnBlock(s, sent + 1)
      BY <2>8 DEF OnBlock, StateOf, b
    <3> QED
      BY <1>1, <1>4, <2>1, <2>2, <3>1
  <2>9. ASSUME NEW k \in 1..Len(queue'), k > Len(queue)
        PROVE  queue'[k].type = "transaction" /\ Followed(queue[k].state)'
    <3>1. PICK u \in Elements(b.outs) : p[k].state = StateOf(b, u)
      BY <1>1, <2>7, <2>6, <2>9
    <3>2. p[k].type = "transaction"
      BY <1>1, <2>7, <2>6, <2>9
    <3>3. queue'[k] = p[k]
      BY <2>7
    <3> QED
      BY <2>8, <3>1, <3>2, <3>3
  <2>10. \A r : Followed(r) => Followed(r)'
    BY <1>1, <1>4, <2>2 DEF Followed
  <2> QED
    BY <2>7, <2>6, <2>9, <2>10 DEF Delivered
<1>9. ASSUME Reconnect PROVE Delivered
  <2>1. /\ queue' = Append(queue, RollbackEvent(BlockAt(sent).slot)) /\ UNCHANGED <<chain, sent>>
    BY <1>9 DEF Reconnect
  <2> QED
    BY <1>1, <1>6, <2>1
<1>10. ASSUME UpdateStatus PROVE Delivered
  BY <1>5, <1>10 DEF UpdateStatus, chainVars
<1>11. ASSUME NEW outs \in Payloads, NEW slot \in 1..MaxSlot, NewBlock(outs, slot) PROVE Delivered
  BY <1>5, <1>11 DEF NewBlock
<1> QED
  BY <1>7, <1>8, <1>9, <1>10, <1>11 DEF Node

\* The node moves on, and the cursor of a running process with it.
LEMMA NodeKeepsFork ==
    ASSUME StorageInv, StorageInv', PipeInv, PipeInv', ForkInv, Node
    PROVE  ForkInv'
<1>1. /\ TypeOK /\ PipelineTypeOK /\ PipelineTypeOK' /\ ChainInv /\ ChainInv' /\ HashInv
  BY DEF StorageInv, TypeOK, PipeInv, ForkInv
<1>2. UNCHANGED <<up, dpools, dswaps, pools, swaps, pc, cur, recorded, firstInvalid, failed,
                  condemned, stranded>>
  BY NodeKeepsTheRest DEF diskVars, memoryVars, handlerVars, historyVars
<1>3. HashInv'
  BY <1>1, NodeKeepsHashes
<1>4. CASE ~up
  <2>1. UNCHANGED cursor
    BY <1>4 DEF Node, NewBlock, Reorg, RollForward, Reconnect, UpdateStatus
  <2>2. (\A n : Behind(n) => Behind(n)') /\ (\A r : Sound(r) => Sound(r)')
    BY <1>1, <2>1, NodeKeepsSound
  <2>3. SoundInv'
    BY <1>2, <1>4, <2>2 DEF ForkInv, SoundInv
  <2> QED
    BY <1>2, <1>3, <1>4, <2>3 DEF ForkInv
<1>5. CASE up
  <2>1. HeldInv /\ QueuedInv /\ GoneInv
    BY <1>5 DEF ForkInv
  <2>2. Delivered
    BY <1>1, <1>5, NodeDelivers
  <2>3. queue \in Seq(Event) /\ queue' \in Seq(Event) /\ Len(queue) \in Nat /\ Len(queue') \in Nat
    BY <1>1 DEF PipelineTypeOK
  <2>4. \A k \in 1..Len(queue') : k <= Len(queue) => k \in 1..Len(queue) /\ queue'[k] = queue[k]
    BY <2>2, <2>3 DEF Delivered
  <2>5. ASSUME NEW r, NEW i \in Nat \ {0}, Covered(queue, r, i) PROVE Covered(queue', r, i)
    BY <2>2, <2>3, <2>5, CoveredByMore DEF Delivered
  <2>6. ASSUME NEW r, Current(r) PROVE Current(r)'
    <3>1. 1 \in 1..(Len(queue) + 1) /\ 1 \in Nat \ {0}
      BY <2>3
    <3> QED
      BY <2>2, <2>5, <2>6, <3>1 DEF Current, Delivered
  <2>7. HeldInv'
    BY <1>2, <2>1, <2>6 DEF HeldInv, NotRewound, NotErased, RollbackRuns
  <2>8. GoneInv'
    <3>1. 1 \in Nat \ {0}
      OBVIOUS
    <3> QED
      BY <1>2, <2>1, <2>5, <3>1 DEF GoneInv, NotRewound, NotErased
  <2>9. ASSUME NEW j \in 1..Len(queue'), queue'[j].type = "transaction"
        PROVE  Followed(queue[j].state)' \/ Covered(queue, queue[j].state, j)'
    <3>1. CASE j <= Len(queue)
      <4>1. j \in 1..Len(queue) /\ queue'[j] = queue[j] /\ queue[j].type = "transaction"
        BY <2>4, <2>9, <3>1
      <4>2. Followed(queue[j].state) \/ Covered(queue, queue[j].state, j)
        BY <2>1, <4>1 DEF QueuedInv
      <4> DEFINE s == queue[j].state
      <4>3. ASSUME NEW r, r = s PROVE Followed(r)' \/ Covered(queue', r, j)
        <5>1. j \in 1..(Len(queue) + 1) /\ j \in Nat \ {0}
          BY <2>3, <4>1
        <5> QED
          BY <2>2, <2>5, <4>2, <4>3, <5>1 DEF Delivered
      <4>4. queue'[j].state = s
        BY <4>1
      <4> HIDE DEF s
      <4> QED
        BY <4>3, <4>4
    <3>2. CASE j > Len(queue)
      BY <2>2, <2>9, <3>2 DEF Delivered
    <3> QED
      BY <2>3, <3>1, <3>2
  <2>10. QueuedInv'
    BY <2>9 DEF QueuedInv
  <2> QED
    BY <1>2, <1>3, <1>5, <2>7, <2>8, <2>10 DEF ForkInv
<1> QED
  BY <1>4, <1>5

-----------------------------------------------------------------------------
(* The handler                                                             *)

\* The handler does not move the chain or the cursor.
LEMMA HandlerStays ==
    ASSUME UNCHANGED <<chain, sent, cursor, blocks>>
    PROVE  /\ HashInv' <=> HashInv
           /\ \A r : Followed(r)' <=> Followed(r)
           /\ \A n : Behind(n)' <=> Behind(n)
           /\ \A r : Sound(r)' <=> Sound(r)
<1>1. HashInv' <=> HashInv
  BY DEF HashInv
<1>2. OnChain(cursor)' <=> OnChain(cursor)
  BY DEF OnChain, BlockAt
<1>3. \A n : Behind(n)' <=> Behind(n)
  BY <1>2 DEF Behind
<1>4. \A r, k : OnBlock(r, k)' <=> OnBlock(r, k)
  BY DEF OnBlock
<1>5. \A r : Followed(r)' <=> Followed(r)
  BY <1>4 DEF Followed
<1>6. \A r : Sound(r)' <=> Sound(r)
  BY <1>3, <1>4 DEF Sound
<1> QED
  BY <1>1, <1>3, <1>5, <1>6

\* A step between two events leaves the queue as it was.
LEMMA StepKeepsFork ==
    ASSUME ForkInv, up, up', UNCHANGED <<chain, sent, cursor, blocks, queue>>, HeldInv', GoneInv'
    PROVE  ForkInv'
<1>1. QueuedInv'
  <2>1. ASSUME NEW j \in 1..Len(queue), queue[j].type = "transaction"
        PROVE  Followed(queue[j].state)' \/ Covered(queue, queue[j].state, j)
    <3>1. Followed(queue[j].state) \/ Covered(queue, queue[j].state, j)
      BY <2>1 DEF ForkInv, QueuedInv
    <3>2. Followed(queue[j].state)' <=> Followed(queue[j].state)
      BY DEF Followed, OnBlock
    <3> QED
      BY <3>1, <3>2
  <2>2. \A j \in 1..Len(queue') : queue'[j].type = "transaction" =>
            Followed(queue[j].state)' \/ Covered(queue, queue[j].state, j)'
    BY <2>1 DEF Covered
  <2> QED
    BY <2>2 DEF QueuedInv
<1> QED
  BY <1>1, HandlerStays DEF ForkInv

\* What a step between events leaves as it was.
LEMMA HeldStays ==
    ASSUME UNCHANGED <<chain, sent, cursor, blocks, queue>>
    PROVE  /\ \A r : Current(r)' <=> Current(r)
           /\ \A r, i : Covered(queue', r, i) <=> Covered(queue, r, i)
<1>1. \A r : Followed(r)' <=> Followed(r)
  BY HandlerStays
<1> QED
  BY <1>1 DEF Current

\* A saved state or swap is current, and no longer to be removed.
LEMMA SaveKeepsFork ==
    ASSUME StorageInv, PipeInv, ForkInv, SavePoolStateAndActivity
    PROVE  ForkInv'
<1>1. /\ up /\ pc = "persist" /\ pc' = "publish" /\ condemned' = condemned \ recorded
      /\ UNCHANGED <<chain, sent, blocks, cursor, queue, up, pools, swaps, cur, recorded,
                     firstInvalid, failed, stranded>>
  BY DEF SavePoolStateAndActivity, chainVars, memoryVars
<1>2. dpools' \subseteq dpools \cup cur /\ dswaps' \subseteq dswaps \cup recorded
  BY DEF SavePoolStateAndActivity, Put, SavedSwaps, PutSwap
<1>3. HeldInv /\ GoneInv /\ ~failed /\ ~failed'
  BY <1>1 DEF ForkInv, PipeInv, UpInv, RollInv
<1>4. /\ ~NotRewound /\ ~NotErased /\ ~NotRewound' /\ ~NotErased' /\ ~RollbackRuns
  BY <1>1, <1>3 DEF NotRewound, NotErased, RollbackRuns
<1>5. HeldInv'
  BY <1>1, <1>2, <1>3, <1>4, HeldStays DEF HeldInv
<1>6. GoneInv'
  BY <1>1, <1>2, <1>3, <1>4, HeldStays DEF GoneInv
<1> QED
  BY <1>1, <1>5, <1>6, StepKeepsFork

\* A published state changes nothing that a restart reads.
LEMMA PublishKeepsFork ==
    ASSUME PipeInv, ForkInv, PublishState
    PROVE  ForkInv'
<1>1. /\ up /\ pc = "publish" /\ pc' = "idle" /\ cur' = {} /\ recorded' = {} /\ ~failed'
      /\ UNCHANGED <<chain, sent, blocks, cursor, queue, up, dpools, dswaps, pools, swaps, condemned,
                     stranded>>
  BY DEF PublishState, HandlerIdle, chainVars, diskVars, historyVars
<1>2. HeldInv /\ GoneInv /\ ~failed
  BY <1>1 DEF ForkInv, PipeInv, UpInv, RollInv
<1>3. /\ ~NotRewound /\ ~NotErased /\ ~NotRewound' /\ ~NotErased' /\ ~RollbackRuns
  BY <1>1, <1>2 DEF NotRewound, NotErased, RollbackRuns
<1>4. HeldInv'
  BY <1>1, <1>2, <1>3, HeldStays DEF HeldInv
<1>5. GoneInv'
  BY <1>1, <1>2, <1>3, HeldStays DEF GoneInv
<1> QED
  BY <1>1, <1>4, <1>5, StepKeepsFork

\* A batch, also a failed one: the store has been rewound when memory is next,
\* unless the rollback failed and the process will end.
LEMMA BatchKeepsFork ==
    ASSUME StorageInv, PipeInv, PipeInv', ForkInv, RollbackActivityBatch \/ RollbackActivityFails
    PROVE  ForkInv'
<1>1. /\ up /\ pc = "batch" /\ pc' \in {"batch", "memory"} /\ dswaps' \subseteq dswaps
      /\ UNCHANGED <<chain, sent, blocks, cursor, queue, up, dpools, pools, swaps, cur, recorded,
                     firstInvalid, condemned, stranded>>
  BY DEF RollbackActivityBatch, RollbackActivityFails, BatchSwaps, chainVars, diskVars,
         memoryVars, historyVars
<1>2. HeldInv /\ GoneInv /\ RollInv'
  BY <1>1 DEF ForkInv, PipeInv, UpInv
<1>3. NotRewound /\ NotErased /\ NotRewound' /\ RollbackRuns'
  BY <1>1 DEF NotRewound, NotErased, RollbackRuns
<1>4. firstInvalid \in Nat /\ \A w \in dswaps : w.slot \in Nat
  BY DEF StorageInv, TypeOK, HandlerTypeOK, StoreTypeOK, SwapTransition
<1>5. ASSUME NEW w \in dswaps', w.slot >= firstInvalid PROVE NotErased'
  <2>1. CASE pc' = "batch" \/ failed'
    BY <2>1 DEF NotErased
  <2>2. CASE pc' = "memory" /\ ~failed'
    <3>1. w.slot < firstInvalid
      BY <1>1, <1>2, <1>5, <2>2 DEF RollInv
    <3> QED
      BY <1>1, <1>4, <1>5, <3>1
  <2> QED
    BY <1>1, <2>1, <2>2
<1>6. HeldInv'
  BY <1>1, <1>2, <1>3, <1>5, HeldStays DEF HeldInv
<1>7. GoneInv'
  BY <1>1, <1>2, <1>3, <1>5, HeldStays DEF GoneInv
<1> QED
  BY <1>1, <1>6, <1>7, StepKeepsFork

\* The tracker is rewound unless the durable rollback failed.
LEMMA MemoryKeepsFork ==
    ASSUME StorageInv, PipeInv, ForkInv, RollbackMemory
    PROVE  ForkInv'
<1>1. /\ up /\ pc = "memory" /\ pc' = "delete" /\ swaps' \subseteq swaps
      /\ ~failed => \A w \in swaps' : w.slot < firstInvalid
      /\ UNCHANGED <<chain, sent, blocks, cursor, queue, up, dpools, dswaps, pools, cur, recorded,
                     firstInvalid, failed, condemned, stranded>>
  BY DEF RollbackMemory, RolledBackSwaps, Prune, chainVars, diskVars, historyVars
<1>2. HeldInv /\ GoneInv
  BY <1>1 DEF ForkInv
<1>3. NotRewound /\ (NotRewound' <=> failed) /\ (NotErased' <=> NotErased) /\ RollbackRuns'
  BY <1>1 DEF NotRewound, NotErased, RollbackRuns
<1>4. firstInvalid \in Nat /\ \A w \in swaps : w.slot \in Nat
  BY DEF StorageInv, TypeOK, HandlerTypeOK, MemoryTypeOK, SwapTransition
<1>5. ASSUME NEW w \in swaps', w.slot >= firstInvalid PROVE NotRewound'
  BY <1>1, <1>3, <1>4, <1>5
<1>6. HeldInv'
  BY <1>1, <1>2, <1>3, <1>5, HeldStays DEF HeldInv
<1>7. GoneInv'
  BY <1>1, <1>2, <1>3, <1>5, HeldStays DEF GoneInv
<1> QED
  BY <1>1, <1>6, <1>7, StepKeepsFork

\* A pool state is deleted, or its deletion fails.
LEMMA DeleteKeepsFork ==
    ASSUME PipeInv, ForkInv, NEW s \in toDelete, DeletePoolState(s) \/ DeletePoolStateFails(s)
    PROVE  ForkInv'
<1>1. /\ up /\ pc = "delete" /\ dpools' \subseteq dpools /\ (failed => failed')
      /\ UNCHANGED <<chain, sent, blocks, cursor, queue, up, dswaps, pools, swaps, pc, cur, recorded,
                     firstInvalid, condemned, stranded>>
  BY DEF DeletePoolState, DeletePoolStateFails, chainVars, diskVars, memoryVars, historyVars
<1>2. HeldInv /\ GoneInv
  BY <1>1 DEF ForkInv
<1>3. (NotRewound => NotRewound') /\ (NotErased => NotErased') /\ RollbackRuns'
  BY <1>1 DEF NotRewound, NotErased, RollbackRuns
<1>4. HeldInv'
  BY <1>1, <1>2, <1>3, HeldStays DEF HeldInv
<1>5. GoneInv'
  BY <1>1, <1>2, <1>3, HeldStays DEF GoneInv
<1> QED
  BY <1>1, <1>4, <1>5, StepKeepsFork

\* The rollback is over.
LEMMA ReturnKeepsFork ==
    ASSUME PipeInv, PipeInv', ForkInv, RollbackReturns
    PROVE  ForkInv'
<1>1. /\ up /\ pc = "delete" /\ ~failed /\ pc' = "idle" /\ cur' = {} /\ recorded' = {} /\ ~failed'
      /\ UNCHANGED <<chain, sent, blocks, cursor, queue, up, dpools, dswaps, pools, swaps, condemned,
                     stranded>>
  BY DEF RollbackReturns, HandlerIdle, chainVars, diskVars, memoryVars, historyVars
<1>2. HeldInv /\ GoneInv /\ dpools = pools
  BY <1>1 DEF ForkInv, PipeInv, UpInv, CopiesInv
<1>3. /\ ~NotRewound /\ ~NotErased /\ ~NotRewound' /\ ~NotErased' /\ ~RollbackRuns'
  BY <1>1 DEF NotRewound, NotErased, RollbackRuns
<1>4. HeldInv'
  BY <1>1, <1>2, <1>3, HeldStays DEF HeldInv
<1>5. GoneInv'
  BY <1>1, <1>2, <1>3, HeldStays DEF GoneInv
<1> QED
  BY <1>1, <1>4, <1>5, StepKeepsFork

\* The process ends: what is stored is followed, or the next process removes it
\* again, unless the cursor is past a rollback that was to remove it.
LEMMA EndKeepsFork ==
    ASSUME StorageInv, PipeInv, ForkInv, up, ProcessEnds,
           UNCHANGED <<chain, sent, cursor, blocks, dpools, dswaps, condemned>>
    PROVE  ForkInv'
<1>1. /\ ~up' /\ stranded' = stranded \cup PassedByCursor
      /\ PipelineTypeOK /\ HashInv /\ HeldInv /\ GoneInv /\ RollInv /\ QueueInv
  BY DEF ProcessEnds, StorageInv, TypeOK, PipeInv, UpInv, ForkInv
<1>2. cursor.slot \in Nat /\ firstInvalid \in Nat /\ \A r \in dpools \cup dswaps : r.slot \in Nat
  BY DEF StorageInv, TypeOK, PipelineTypeOK, HandlerTypeOK, StoreTypeOK, PoolState, SwapTransition
<1>3. NotErased => RollbackRuns
  BY <1>1 DEF RollInv, NotErased, RollbackRuns
<1>4. ASSUME NEW r \in dpools \cup dswaps, NEW first \in PendingRollbacks, first <= r.slot,
             r \notin stranded'
      PROVE  Behind(r.slot)
  BY <1>1, <1>2, <1>4 DEF PassedByCursor, Behind
<1>5. RollbackRuns => firstInvalid \in PendingRollbacks
  BY DEF RollbackRuns, PendingRollbacks
<1>6. ASSUME NEW r \in dpools \cup dswaps, Covered(queue, r, 1)
      PROVE  \E first \in PendingRollbacks : first <= r.slot
  <2>1. PICK m \in 1..Len(queue) : queue[m].type = "rollback" /\ queue[m].slot < r.slot
    BY <1>6 DEF Covered
  <2>2. queue[m].slot \in RollbackSlots(queue) /\ queue[m] \in Elements(queue)
    BY <2>1 DEF RollbackSlots, Elements
  <2>3. queue[m] \in Event
    BY <1>1, ElementOfSeq DEF PipelineTypeOK
  <2>4. queue[m].slot \in Nat
    BY <2>1, <2>3, EventParts
  <2>5. FirstRolledBackSlot(queue[m].slot) = queue[m].slot + 1
    BY <1>1, <2>2, <2>4, SlotsAssumption, MaxUint64Assumption DEF QueueInv, FirstRolledBackSlot
  <2>6. FirstRolledBackSlot(queue[m].slot) \in PendingRollbacks
    BY <2>1, <2>2 DEF PendingRollbacks
  <2>7. FirstRolledBackSlot(queue[m].slot) <= r.slot
    BY <1>2, <2>1, <2>4, <2>5
  <2> QED
    BY <2>6, <2>7
<1>7. ASSUME NEW r \in dpools \cup dswaps, r \notin stranded',
             Covered(queue, r, 1) \/ (RollbackRuns /\ r.slot >= firstInvalid)
      PROVE  Behind(r.slot)
  BY <1>2, <1>4, <1>5, <1>6, <1>7
<1>8. ASSUME NEW r \in dpools \cup dswaps, r \notin stranded' PROVE Sound(r)
  <2>1. Current(r) \/ (RollbackRuns /\ r.slot >= firstInvalid)
    BY <1>1, <1>3, <1>8 DEF HeldInv
  <2>2. CASE Followed(r)
    <3>1. 1..sent \subseteq 1..Len(chain)
      BY <1>1 DEF PipelineTypeOK
    <3> QED
      BY <2>2, <3>1 DEF Followed, Sound
  <2> QED
    BY <1>7, <1>8, <2>1, <2>2 DEF Current, Sound
<1>9. ASSUME NEW w \in condemned \cap dswaps, w \notin stranded' PROVE Behind(w.slot)
  BY <1>1, <1>3, <1>7, <1>9 DEF GoneInv
<1>10. SoundInv'
  BY <1>8, <1>9, HandlerStays DEF SoundInv
<1> QED
  BY <1>1, <1>10, HandlerStays DEF ForkInv

\* The queue without its first event.
LEMMA TailKeepsQueued ==
    ASSUME PipelineTypeOK, QueuedInv, queue # <<>>, queue' = Tail(queue),
           UNCHANGED <<chain, sent, cursor, blocks>>
    PROVE  QueuedInv'
<1>1. queue \in Seq(Event)
  BY DEF PipelineTypeOK
<1>2. /\ Len(queue) \in Nat /\ Len(queue) >= 1 /\ Len(queue') = Len(queue) - 1
      /\ \A i \in 1..Len(queue') : queue'[i] = queue[i + 1]
  BY <1>1, TailOfQueue
<1>3. \A r : Followed(r)' <=> Followed(r)
  BY HandlerStays
<1>4. ASSUME NEW j \in 1..Len(queue'), queue'[j].type = "transaction"
      PROVE  Followed(queue[j].state)' \/ Covered(queue, queue[j].state, j)'
  <2>1. j + 1 \in 1..Len(queue) /\ queue'[j] = queue[j + 1] /\ j \in 1..Len(Tail(queue))
    BY <1>2
  <2>2. ASSUME NEW r, r = queue[j + 1].state
        PROVE  Followed(r)' \/ Covered(queue', r, j)
    <3>1. Followed(r) \/ Covered(queue, r, j + 1)
      BY <1>4, <2>1, <2>2 DEF QueuedInv
    <3>2. Covered(queue, r, j + 1) => Covered(Tail(queue), r, j)
      BY <1>1, <2>1, CoveredByTail
    <3> QED
      BY <1>3, <3>1, <3>2
  <2>3. queue'[j].state = queue[j + 1].state
    BY <2>1
  <2> QED
    BY <2>2, <2>3
<1> QED
  BY <1>4 DEF QueuedInv

\* The rollback at the head of the queue begins: what it is to remove is past
\* its slot.
LEMMA StartKeepsFork ==
    ASSUME StorageInv, PipeInv, ForkInv, StartRollback
    PROVE  ForkInv'
<1> DEFINE n == Head(queue).slot
<1>1. /\ up /\ pc = "idle" /\ queue # <<>> /\ Head(queue).type = "rollback"
      /\ pc' = "batch" /\ queue' = Tail(queue) /\ firstInvalid' = FirstRolledBackSlot(n)
      /\ pools' = pools \ Invalidated(pools, FirstRolledBackSlot(n))
      /\ condemned' = condemned \cup {w \in dswaps : w.slot >= FirstRolledBackSlot(n)}
      /\ UNCHANGED <<chain, sent, blocks, cursor, up, dpools, dswaps, swaps, cur, recorded, failed,
                     stranded>>
  BY DEF StartRollback, NextIsRollback, chainVars, diskVars
<1>2. /\ PipelineTypeOK /\ queue \in Seq(Event) /\ UpInv /\ HashInv
      /\ HeldInv /\ QueuedInv /\ GoneInv
  BY <1>1 DEF StorageInv, TypeOK, PipelineTypeOK, PipeInv, ForkInv
<1>3. n \in RollbackSlots(queue) /\ n \in Nat
  <2>1. /\ Len(queue) \in Nat /\ Len(queue) >= 1 /\ Head(queue) = queue[1] /\ Head(queue) \in Event
    BY <1>1, <1>2, TailOfQueue
  <2>2. 1 \in 1..Len(queue)
    BY <2>1
  <2> QED
    BY <1>1, <2>1, <2>2, EventParts DEF RollbackSlots
<1>4. firstInvalid' = n + 1
  BY <1>1, <1>2, <1>3, SlotsAssumption, MaxUint64Assumption DEF UpInv, QueueInv, FirstRolledBackSlot
<1>5. /\ cur = {} /\ recorded = {} /\ ~failed /\ ~NotRewound /\ ~NotErased /\ ~RollbackRuns
      /\ NotRewound' /\ NotErased' /\ RollbackRuns'
  BY <1>1, <1>2 DEF UpInv, RollInv, NotRewound, NotErased, RollbackRuns
<1>6. \A r \in pools \cup dpools \cup swaps \cup dswaps : r.slot \in Nat
  BY DEF StorageInv, TypeOK, MemoryTypeOK, StoreTypeOK, PoolState, SwapTransition
<1> HIDE DEF n
<1>7. QueuedInv'
  BY <1>1, <1>2, TailKeepsQueued
<1>8. ASSUME NEW r \in pools \cup dpools \cup swaps \cup dswaps, Covered(queue, r, 1)
      PROVE  Covered(queue', r, 1) \/ r.slot >= firstInvalid'
  <2>1. Covered(Tail(queue), r, 1) \/ n < r.slot
    BY <1>1, <1>2, <1>8, CoveredByTail DEF n
  <2> QED
    BY <1>1, <1>3, <1>4, <1>6, <2>1
<1>9. ASSUME NEW r \in pools \cup dpools \cup swaps \cup dswaps, Current(r)
      PROVE  Current(r)' \/ r.slot >= firstInvalid'
  BY <1>1, <1>8, <1>9, HandlerStays DEF Current
<1>10. HeldInv'
  <2>1. \A r \in pools' : r \in pools /\ ~(r.slot >= firstInvalid')
    BY <1>1 DEF Invalidated
  <2>2. \A r \in pools' \ stranded : Current(r)'
    BY <1>2, <1>9, <2>1 DEF HeldInv
  <2>3. \A r \in (dpools \cup swaps \cup dswaps) \ stranded : Current(r)' \/ r.slot >= firstInvalid'
    BY <1>2, <1>5, <1>9 DEF HeldInv
  <2> QED
    BY <1>1, <1>5, <2>2, <2>3 DEF HeldInv
<1>11. GoneInv'
  <2>1. \A w \in condemned' : w \in condemned \/ w.slot >= firstInvalid'
    BY <1>1
  <2>2. \A w \in (condemned \cap (swaps \cup dswaps)) \ stranded : Covered(queue, w, 1)
    BY <1>1, <1>2, <1>5 DEF GoneInv
  <2>3. \A w \in (condemned' \cap (swaps \cup dswaps)) \ stranded :
            Covered(queue', w, 1) \/ w.slot >= firstInvalid'
    BY <1>8, <2>1, <2>2
  <2> QED
    BY <1>1, <1>5, <2>3 DEF GoneInv
<1>12. HashInv'
  BY <1>1, <1>2, HandlerStays
<1> QED
  BY <1>1, <1>7, <1>10, <1>11, <1>12 DEF ForkInv

\* What has the block and the output of r is where r is.
LEMMA SameOrigin ==
    ASSUME NEW r, NEW w, w.slot = r.slot, w.utxo = r.utxo, w.hash = r.hash
    PROVE  /\ Followed(r) => Followed(w)
           /\ \A q, i : Covered(q, r, i) => Covered(q, w, i)
<1>1. \A k : OnBlock(r, k) => OnBlock(w, k)
  BY DEF OnBlock
<1>2. \A q, i : Covered(q, r, i) => Covered(q, w, i)
  BY DEF Covered
<1> QED
  BY <1>1, <1>2 DEF Followed

\* The state taken from the queue, and the swap inferred for it, are current.
LEMMA ObserveKeepsFork ==
    ASSUME StorageInv, PipeInv, PipeInv', ForkInv, ObserveState
    PROVE  ForkInv'
<1> DEFINE s == Head(queue).state
           inferred == InferFrom(pools, s)
<1>1. /\ up /\ pc = "idle" /\ queue # <<>> /\ Head(queue).type = "transaction"
      /\ UNCHANGED <<chain, sent, blocks, cursor, dpools, dswaps, condemned>>
  BY DEF ObserveState, NextIsUpdate, chainVars, diskVars
<1>2. /\ PipelineTypeOK /\ queue \in Seq(Event) /\ UpInv /\ HashInv
      /\ HeldInv /\ QueuedInv /\ GoneInv
  BY <1>1 DEF StorageInv, TypeOK, PipelineTypeOK, PipeInv, ForkInv
<1>3. \A w \in inferred : w.slot = s.slot /\ w.utxo = s.utxo /\ w.hash = s.hash
  BY InferredIdentity
<1>4. /\ Len(queue) \in Nat /\ Len(queue) >= 1 /\ Head(queue) = queue[1]
  BY <1>1, <1>2, TailOfQueue
<1>5. Followed(s) \/ Covered(queue, s, 1)
  <2>1. 1 \in 1..Len(queue) /\ queue[1].type = "transaction" /\ queue[1].state = s
    BY <1>1, <1>4
  <2> HIDE DEF s
  <2> QED
    BY <1>2, <2>1 DEF QueuedInv
<1>6. AcceptState(s, inferred)
  <2>1. ~RejectState
    BY DEF PipeInv, RejectState
  <2> QED
    BY <2>1 DEF ObserveState
<1> HIDE DEF s, inferred
<1>7. /\ cur' = {s} /\ pc' = "persist" /\ pools' \subseteq pools \cup {s}
      /\ queue' = Tail(queue) /\ recorded' = inferred \ swaps
      /\ swaps' \subseteq swaps \cup recorded'
      /\ UNCHANGED <<up, failed, stranded>>
  BY <1>6 DEF AcceptState, RecordedSwap, ObservedSwaps, Prune, Put
<1>8. /\ cur = {} /\ recorded = {} /\ ~failed /\ ~NotRewound /\ ~NotErased
      /\ ~NotRewound' /\ ~NotErased' /\ ~RollbackRuns
  BY <1>1, <1>2, <1>7 DEF UpInv, RollInv, NotRewound, NotErased, RollbackRuns
<1>9. \A r : Covered(queue, r, 1) => Covered(queue', r, 1)
  BY <1>1, <1>2, <1>7, CoveredByTail
<1>10. \A r : Current(r) => Current(r)'
  BY <1>1, <1>9, HandlerStays DEF Current
<1>11. \A r \in cur' \cup recorded' : Current(r)'
  <2>1. ASSUME NEW r, r = s \/ r \in inferred PROVE Current(r)'
    <3>1. r.slot = s.slot /\ r.utxo = s.utxo /\ r.hash = s.hash
      BY <1>3, <2>1
    <3>2. Current(r)
      BY <1>5, <3>1, SameOrigin DEF Current
    <3> QED
      BY <1>10, <3>2
  <2> QED
    BY <1>7, <2>1
<1>12. HeldInv'
  <2>1. \A r \in (pools \cup dpools \cup swaps \cup dswaps) \ stranded : Current(r)'
    <3>1. \A r \in (pools \cup dpools \cup swaps \cup dswaps) \ stranded : Current(r)
      BY <1>2, <1>8 DEF HeldInv
    <3> QED
      BY <1>10, <3>1
  <2>2. ASSUME NEW r \in pools' \cup dpools' \cup swaps' \cup dswaps', r \notin stranded'
        PROVE  Current(r)'
    <3>1. CASE r \in cur' \cup recorded'
      BY <1>11, <3>1
    <3>2. CASE r \notin cur' \cup recorded'
      <4>1. r \in (pools \cup dpools \cup swaps \cup dswaps) \ stranded
        BY <1>1, <1>7, <2>2, <3>2
      <4> QED
        BY <2>1, <4>1
    <3> QED
      BY <3>1, <3>2
  <2> QED
    BY <1>11, <2>2 DEF HeldInv
<1>13. GoneInv'
  BY <1>1, <1>2, <1>7, <1>8, <1>9 DEF GoneInv
<1>14. QueuedInv'
  BY <1>1, <1>2, <1>7, TailKeepsQueued
<1>15. HashInv'
  BY <1>1, <1>2, HandlerStays
<1> QED
  BY <1>1, <1>7, <1>12, <1>13, <1>14, <1>15 DEF ForkInv

\* A restart rolls back to the cursor: what it loads is followed, or after it.
LEMMA RestartKeepsFork ==
    ASSUME StorageInv, PipeInv, ForkInv, Restart
    PROVE  ForkInv'
<1>1. /\ ~up /\ OnChain(cursor)
      /\ UNCHANGED <<chain, blocks, cursor, dpools, dswaps, condemned, stranded, pc, cur, recorded,
                     failed>>
  BY DEF Restart, diskVars, handlerVars
<1>2. /\ PipelineTypeOK /\ ChainInv /\ DownInv /\ HashInv /\ SoundInv
      /\ Len(chain) \in Nat /\ cursor.slot \in Nat
  BY <1>1 DEF StorageInv, TypeOK, PipelineTypeOK, PipeInv, ForkInv
<1>3. HashInv'
  BY <1>1, <1>2 DEF HashInv
<1>4. CASE UNCHANGED <<up, sent, queue>>
  <2>1. SoundInv'
    BY <1>1, <1>2, <1>4, HandlerStays DEF SoundInv
  <2> QED
    BY <1>1, <1>3, <1>4, <2>1 DEF ForkInv
<1>5. CASE /\ up'
           /\ sent' = CHOOSE k \in 0..Len(chain) : Point(BlockAt(k)) = cursor
           /\ queue' = <<RollbackEvent(cursor.slot)>> /\ LoadPersistedStates
  <2>1. sent' \in 0..Len(chain) /\ Point(BlockAt(sent')) = cursor
    BY <1>1, <1>5 DEF OnChain
  <2>2. cursor.slot = BlockAt(sent').slot
    BY <2>1 DEF Point
  <2>3. Len(queue') = 1 /\ queue'[1].type = "rollback" /\ queue'[1].slot = cursor.slot
    BY <1>5 DEF RollbackEvent
  <2>4. \A r : cursor.slot < r.slot => Covered(queue', r, 1)
    BY <2>3 DEF Covered
  <2>5. ASSUME NEW r \in (dpools \cup dswaps) \ stranded PROVE Current(r)'
    <3>1. CASE Behind(r.slot)
      BY <1>1, <2>4, <3>1 DEF Behind, Current
    <3>2. ASSUME NEW k \in 1..Len(chain), OnBlock(r, k) PROVE Current(r)'
      <4>1. CASE k <= sent'
        <5>1. k \in 1..sent' /\ OnBlock(r, k)'
          BY <1>1, <2>1, <3>2, <4>1 DEF OnBlock
        <5> QED
          BY <5>1 DEF Current, Followed
      <4>2. CASE sent' < k
        <5>1. k \in 0..Len(chain) /\ BlockAt(k) = chain[k]
          BY <1>2 DEF BlockAt
        <5>2. BlockAt(sent').slot < BlockAt(k).slot
          BY <1>2, <2>1, <4>2, <5>1, BlockOrder
        <5> QED
          BY <2>2, <2>4, <3>2, <5>1, <5>2 DEF OnBlock, Current
      <4> QED
        BY <2>1, <4>1, <4>2
    <3> QED
      BY <1>2, <2>5, <3>1, <3>2 DEF SoundInv, Sound
  <2>6. pools' = dpools /\ swaps' \subseteq dswaps /\ cur' = {} /\ recorded' = {} /\ ~failed' /\ pc' = "idle"
    BY <1>1, <1>2, <1>5 DEF LoadPersistedStates, RestoredSwaps, Prune, DownInv
  <2>7. HeldInv'
    BY <1>1, <2>5, <2>6 DEF HeldInv
  <2>8. QueuedInv'
    BY <2>3 DEF QueuedInv
  <2>9. GoneInv'
    <3>1. \A w \in (condemned \cap dswaps) \ stranded : cursor.slot < w.slot
      BY <1>1, <1>2 DEF SoundInv, Behind
    <3> QED
      BY <1>1, <2>4, <2>6, <3>1 DEF GoneInv
  <2> QED
    BY <1>3, <1>5, <2>7, <2>8, <2>9 DEF ForkInv
<1> QED
  BY <1>4, <1>5 DEF Restart

-----------------------------------------------------------------------------
(* The theorems                                                            *)

\* A fresh database holds nothing.
LEMMA ForkInit == ASSUME Init PROVE ForkInv
<1>1. /\ up /\ chain = <<>> /\ blocks = 0 /\ cursor = Point(Origin)
      /\ queue = <<RollbackEvent(0)>> /\ cur = {} /\ recorded = {}
      /\ pools = {} /\ dpools = {} /\ swaps = {} /\ dswaps = {} /\ condemned = {}
  BY DEF Init
<1>2. cursor.hash = 0 /\ Len(chain) = 0
  BY <1>1 DEF Point, Origin
<1>3. Len(queue) = 1 /\ queue[1].type = "rollback"
  BY <1>1 DEF RollbackEvent
<1>4. HashInv
  BY <1>1, <1>2 DEF HashInv
<1>5. HeldInv /\ QueuedInv /\ GoneInv
  BY <1>1, <1>3 DEF HeldInv, QueuedInv, GoneInv
<1> QED
  BY <1>1, <1>4, <1>5 DEF ForkInv

\* Every step keeps the invariant.
LEMMA ForkStep ==
    ASSUME StorageInv, StorageInv', PipeInv, PipeInv', ForkInv, [Next]_vars
    PROVE  ForkInv'
<1>1. CASE Handler
  <2>1. RollbackReturnsError => ForkInv'
    BY EndKeepsFork DEF RollbackReturnsError, chainVars, diskVars
  <2> QED
    BY <1>1, <2>1, ObserveKeepsFork, SaveKeepsFork, PublishKeepsFork, StartKeepsFork,
       BatchKeepsFork, MemoryKeepsFork, DeleteKeepsFork, ReturnKeepsFork DEF Handler
<1>2. CASE Faults
  <2>1. Crash => ForkInv'
    BY EndKeepsFork DEF Crash, chainVars, diskVars
  <2> QED
    BY <1>2, <2>1, BatchKeepsFork, DeleteKeepsFork DEF Faults
<1>3. CASE Node
  BY <1>3, NodeKeepsFork
<1>4. CASE Restart
  BY <1>4, RestartKeepsFork
<1>5. CASE UNCHANGED vars
  <2>1. UNCHANGED <<chain, sent, blocks, queue, up, cursor, dpools, dswaps, pools, swaps, pc,
                    cur, recorded, firstInvalid, failed, condemned, stranded>>
    BY <1>5 DEF vars, chainVars, diskVars, memoryVars, handlerVars, historyVars
  <2>2. CASE up
    <3>1. HeldInv'
      BY <2>1, <2>2, HeldStays DEF ForkInv, HeldInv, NotRewound, NotErased, RollbackRuns
    <3>2. GoneInv'
      BY <2>1, <2>2, HeldStays DEF ForkInv, GoneInv, NotRewound, NotErased
    <3> QED
      BY <2>1, <2>2, <3>1, <3>2, StepKeepsFork
  <2>3. CASE ~up
    BY <2>1, <2>3, HandlerStays DEF ForkInv, SoundInv
  <2> QED
    BY <2>2, <2>3
<1> QED
  BY <1>1, <1>2, <1>3, <1>4, <1>5 DEF Next

\* The invariant holds in every reachable state.
THEOREM ForkCorrect == Spec => [](StorageInv /\ PipeInv /\ ForkInv)
<1>1. Init => ForkInv
  BY ForkInit
<1>2. StorageInv /\ StorageInv' /\ PipeInv /\ PipeInv' /\ ForkInv /\ [Next]_vars => ForkInv'
  BY ForkStep
<1> QED
  BY <1>1, <1>2, PipelineCorrect, PTL DEF Spec

\* Once every event was handled, every swap the oracle counts and every pool
\* state it tracks or publishes is of a block that the client still follows,
\* unless a process ended with the cursor past the rollback that removes it.
THEOREM NoForkIsCounted == Spec => []CountedIsOnChain
<1>1. ASSUME PipeInv, ForkInv, CaughtUp PROVE CountedIsOnChain
  <2>1. up /\ pc = "idle" /\ queue = <<>>
    BY <1>1 DEF CaughtUp
  <2>2. UpInv /\ HeldInv
    BY <1>1, <2>1 DEF PipeInv, ForkInv
  <2>3. confirmed = pools /\ ~NotRewound
    BY <2>1, <2>2 DEF UpInv, CopiesInv, RollInv, NotRewound
  <2>4. \A r : ~Covered(queue, r, 1)
    BY <2>1 DEF Covered
  <2>5. \A r \in (swaps \cup pools \cup confirmed) \ stranded : Followed(r)
    BY <2>2, <2>3, <2>4 DEF HeldInv, Current
  <2> QED
    BY <2>5 DEF CountedIsOnChain, Followed, OnBlock
<1>2. PipeInv /\ ForkInv => CountedIsOnChain
  BY <1>1 DEF CountedIsOnChain
<1> QED
  BY <1>2, ForkCorrect, PTL

\* Once every event was handled, a swap that a rollback of this process or of an
\* earlier one set out to remove is counted only after it was saved again, or
\* when a process ended with the cursor past that rollback.
THEOREM RolledBackIsGone == Spec => []OnlyStrandedComesBack
<1>1. ASSUME PipeInv, ForkInv, CaughtUp PROVE swaps \cap condemned \subseteq stranded
  <2>1. up /\ pc = "idle" /\ queue = <<>>
    BY <1>1 DEF CaughtUp
  <2>2. UpInv /\ GoneInv
    BY <1>1, <2>1 DEF PipeInv, ForkInv
  <2>3. ~NotRewound
    BY <2>1, <2>2 DEF UpInv, RollInv, NotRewound
  <2>4. \A r : ~Covered(queue, r, 1)
    BY <2>1 DEF Covered
  <2> QED
    BY <2>1, <2>2, <2>3, <2>4 DEF GoneInv
<1>2. PipeInv /\ ForkInv => OnlyStrandedComesBack
  BY <1>1 DEF OnlyStrandedComesBack
<1> QED
  BY <1>2, ForkCorrect, PTL

=============================================================================
