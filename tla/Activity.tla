------------------------------ MODULE Activity ------------------------------
(***************************************************************************)
(* Pool activity: the rolling window of swap-shaped reserve transitions    *)
(* (dex/activity.go, dex/activity_state.go) and its durable copy in        *)
(* BadgerDB (internal/oracle/activity_storage.go).                         *)
(*                                                                         *)
(* A pool state is one produced pool output on one block: the pool, the    *)
(* identity of the output (transaction hash and index), the block's slot   *)
(* and hash, and the two reserves.  The per-pool slices of swaps are one   *)
(* set: they are appended in slot order and trimmed only at their ends, so *)
(* nothing but membership is observable.  Badger's two limits on a         *)
(* transaction (entries and bytes) are one count, DeleteBudget.            *)
(***************************************************************************)
EXTENDS Integers, FiniteSets

CONSTANTS
    Pools,          \* pool identities (network, protocol, pool id)
    Window,         \* ActivityTracker.windowSlots
    DeleteBudget,   \* deletions one Badger transaction may queue
    MaxUint64       \* the largest slot number

ASSUME WindowAssumption == Window \in Nat \ {0}
ASSUME BudgetAssumption == DeleteBudget \in Nat
ASSUME MaxUint64Assumption == MaxUint64 \in Nat \ {0}

PoolState ==
    [pool: Pools, utxo: Nat, slot: Nat, hash: Nat, x: Nat, y: Nat]

SwapTransition ==
    [pool: Pools, utxo: Nat, slot: Nat, hash: Nat,
     amountX: Nat, amountY: Nat, inputIsX: BOOLEAN]

\* "No activity metadata key": below every recorded slot.
NoMeta == -1

-----------------------------------------------------------------------------
(* The window                                                              *)

Cutoff(at) == IF at > Window THEN at - Window ELSE 0

\* firstRolledBackSlot: the rollback point's own block stays on the chain.
FirstRolledBackSlot(slot) == IF slot = MaxUint64 THEN slot ELSE slot + 1

\* The newest slot that is still valid when firstInvalid is not.
LastValid(firstInvalid) == IF firstInvalid > 0 THEN firstInvalid - 1 ELSE 0

Lower(a, b) == IF a < b THEN a ELSE b

Prune(ws, at) == {w \in ws : w.slot >= Cutoff(at)}

-----------------------------------------------------------------------------
(* ActivityTracker: the copy in memory                                     *)

\* The swap, if any, that leads from state prev to state cur: one reserve
\* grew while the other shrank.  Deposits and withdrawals move both the same
\* way, a first observation has no predecessor.
InferSwapTransition_unsigned(prev, cur) ==  \* mutant: wrong sign of an outflow
    IF (cur.x > prev.x /\ cur.y < prev.y) \/ (cur.x < prev.x /\ cur.y > prev.y)
    THEN {[pool |-> cur.pool, utxo |-> cur.utxo, slot |-> cur.slot,
           hash |-> cur.hash, amountX |-> cur.x - prev.x,
           amountY |-> cur.y - prev.y, inputIsX |-> cur.x > prev.x]}
    ELSE {}
InferSwapTransition(prev, cur) ==
    LET xIn  == cur.x > prev.x
        xOut == cur.x < prev.x
        yIn  == cur.y > prev.y
        yOut == cur.y < prev.y
    IN  IF (xIn /\ yOut) \/ (xOut /\ yIn)
        THEN {[pool |-> cur.pool, utxo |-> cur.utxo, slot |-> cur.slot,
               hash |-> cur.hash,
               amountX |-> IF xIn THEN cur.x - prev.x ELSE prev.x - cur.x,
               amountY |-> IF xIn THEN prev.y - cur.y ELSE cur.y - prev.y,
               inputIsX |-> xIn]}
        ELSE {}

InferFrom(states, cur) ==
    UNION {InferSwapTransition(s, cur) : s \in {t \in states : t.pool = cur.pool}}

SameSwapIdentity(a, b) ==
    /\ a.slot = b.slot
    /\ a.utxo = b.utxo
    /\ a.pool = b.pool

\* ObserveTransition refuses a state behind the latest slot, and a swap that
\* contradicts the one recorded under the same identity.
ObserveRejects(latest, ws, cur, inferred) ==
    \/ cur.slot < latest
    \/ \E t \in inferred, w \in ws : SameSwapIdentity(w, t) /\ w # t

\* The swaps an accepted state leaves, and the one it reports to be persisted.
ObservedSwaps(ws, cur, inferred) == Prune(ws, cur.slot) \cup inferred
RecordedSwap(ws, inferred) == inferred \ ws

\* ActivityTracker.Rollback: the latest slot is only ever rewound.
RolledBackLatest_kept(latest, firstInvalid) == latest    \* mutant: no rewind
RolledBackLatest(latest, firstInvalid) == Lower(LastValid(firstInvalid), latest)

RolledBackSwaps_kept(latest, ws, firstInvalid) ==    \* mutant: only prunes
    Prune(ws, RolledBackLatest(latest, firstInvalid))
RolledBackSwaps(latest, ws, firstInvalid) ==
    Prune({w \in ws : w.slot < firstInvalid},
          RolledBackLatest(latest, firstInvalid))

\* LoadActivityState and ActivityTracker.Restore refuse swaps without
\* metadata, and any swap above the recorded latest slot.
RestoreRejects(meta, ws) == \E w \in ws : w.slot > meta

RestoredLatest(meta) == IF meta = NoMeta THEN 0 ELSE meta
RestoredSwaps(meta, ws) == Prune(ws, RestoredLatest(meta))

-----------------------------------------------------------------------------
(* OracleStorage: the copy on disk                                         *)

\* Badger iterates keys in the order slot, output identity, pool.  Outputs
\* are unique, so slot and output decide.
KeyBefore(v, w) == v.slot < w.slot \/ (v.slot = w.slot /\ v.utxo < w.utxo)

\* SavePoolStateAndActivity replaces whatever an equal key held.
PutSwap(ws, recorded) ==
    {w \in ws : \A t \in recorded : ~SameSwapIdentity(w, t)} \cup recorded

SavedMeta_first(meta, cur) ==    \* mutant: existing metadata is not advanced
    IF meta = NoMeta THEN cur.slot ELSE meta
SavedMeta(meta, cur) == IF cur.slot > meta THEN cur.slot ELSE meta

\* pruneActivityKeys: the oldest keys below the window, within the budget.
PruneKeys_inclusive(ws, cutoff) == {w \in ws : w.slot <= cutoff}    \* mutant
PruneKeys(ws, cutoff) ==
    {w \in ws : /\ w.slot < cutoff
                /\ Cardinality({v \in ws : KeyBefore(v, w)}) < DeleteBudget}

SavedSwaps(meta, ws, cur, recorded) ==
    LET put == PutSwap(ws, recorded)
    IN  put \ PruneKeys(put, Cutoff(SavedMeta(meta, cur)))

\* rolledBackActivityKeys: whole slots from the newest down, and at least the
\* newest whatever the budget; a further slot is begun while it fits.
BatchKeys(ws, firstInvalid) ==
    {w \in ws :
        /\ w.slot >= firstInvalid
        /\ \/ \A v \in ws : v.slot <= w.slot
           \/ Cardinality({v \in ws : v.slot > w.slot}) < DeleteBudget}

\* The batch reports completion when nothing at or after firstInvalid is left.
BatchExhausts_found(ws, firstInvalid) ==    \* mutant: an empty batch is not the end
    /\ BatchKeys(ws, firstInvalid) # {}
    /\ \A w \in ws : w.slot >= firstInvalid => w \in BatchKeys(ws, firstInvalid)
BatchExhausts(ws, firstInvalid) ==
    \A w \in ws : w.slot >= firstInvalid => w \in BatchKeys(ws, firstInvalid)

\* rewindActivityMeta, in the batch's transaction.
RewindMeta_moves(meta, firstInvalid) ==    \* mutant: also advances
    IF meta = NoMeta THEN NoMeta ELSE LastValid(firstInvalid)
RewindMeta(meta, firstInvalid) ==
    IF meta = NoMeta THEN NoMeta ELSE Lower(LastValid(firstInvalid), meta)

\* The slot the batch rewinds to: the rollback slot when it completes the
\* rollback, else the lowest slot it removed.
BatchFirstInvalid_target(ws, firstInvalid) == firstInvalid    \* mutant: at once
BatchFirstInvalid(ws, firstInvalid) ==
    IF BatchExhausts(ws, firstInvalid)
    THEN firstInvalid
    ELSE CHOOSE s \in {w.slot : w \in BatchKeys(ws, firstInvalid)} :
            \A w \in BatchKeys(ws, firstInvalid) : s <= w.slot

BatchMeta(meta, ws, firstInvalid) ==
    RewindMeta(meta, BatchFirstInvalid(ws, firstInvalid))
BatchSwaps(ws, firstInvalid) == ws \ BatchKeys(ws, firstInvalid)

=============================================================================
