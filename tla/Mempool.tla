------------------------------ MODULE Mempool ------------------------------
(***************************************************************************)
(* The mempool view of the pools (internal/oracle/mempool.go): for every   *)
(* pool the confirmed state and, per pending transaction, the change it    *)
(* would make to the reserves, rebased whenever the confirmed state moves. *)
(*                                                                         *)
(* The manager looks a pool's MempoolPoolState up under its own lock and   *)
(* works on it under the pool's lock after it has released the first, so a *)
(* rollback can drop the object from the manager in between.  Objects are  *)
(* therefore numbered; the two lock sections are two actions.  The oracle's*)
(* handler is one goroutine (oracle.go); the feeders that add and remove   *)
(* pending transactions reach the manager through GetMempoolManager.       *)
(***************************************************************************)
EXTENDS Integers, SequencesExt

CONSTANTS
    Pools, TxHashes, Feeders,
    Assets,         \* the two assets of a pool
    Reserves,       \* reserve vectors, functions from Assets to amounts
    MaxInt64,       \* the largest int64; a uint64 reaches 2 * MaxInt64 + 1
    \* bounds of the model
    MaxObjects, MaxAdds, MaxConfirms

ASSUME MaxInt64Assumption == MaxInt64 \in Nat \ {0}
ASSUME ReservesAssumption ==
    Reserves \subseteq [Assets -> 0..(2 * MaxInt64 + 1)]
ASSUME ObjectsAssumption == MaxObjects \in Nat /\ MaxAdds \in Nat /\ MaxConfirms \in Nat

VARIABLES
    tracked,        \* MempoolStateManager.pools: pool -> set of at most one object
    objects,        \* every MempoolPoolState made: a sequence of records
    handler,        \* the handler between its two lock sections
    feeder,         \* each feeder between its two lock sections
    adds, confirms,
    published       \* history: what the handler last published per pool

vars == <<tracked, objects, handler, feeder, adds, confirms, published>>

-----------------------------------------------------------------------------
(* 64-bit arithmetic                                                       *)

MinInt64 == -(MaxInt64 + 1)

\* a + b as the machine computes it.
WrappingAdd(a, b) == ((a + b - MinInt64) % (2 * (MaxInt64 + 1))) + MinInt64

\* reserveDelta: the difference of two uint64 amounts as an int64, saturated.
ReserveDelta_exact(new, old) == new - old    \* mutant: does not saturate
ReserveDelta(new, old) ==
    IF new >= old
    THEN IF new - old <= MaxInt64 THEN new - old ELSE MaxInt64
    ELSE IF old - new <= MaxInt64 THEN -(old - new) ELSE MinInt64

\* addDeltaSaturating, which recognises the overflow by the wrapped sum's sign.
AddDeltaSaturating_wraps(a, b) == WrappingAdd(a, b)    \* mutant
AddDeltaSaturating(a, b) ==
    LET sum == WrappingAdd(a, b)
    IN  CASE a > 0 /\ b > 0 /\ sum < 0  -> MaxInt64
          [] a < 0 /\ b < 0 /\ sum >= 0 -> MinInt64
          [] OTHER -> sum

-----------------------------------------------------------------------------
(* MempoolPoolState                                                        *)

\* A pool state: the transaction that made it and its reserves.  No confirmed
\* state (nil) is the empty set, and has empty reserves.
State == [tx: TxHashes, reserves: Reserves]

PoolReserves(confirmed) ==
    IF confirmed = {} THEN [a \in Assets |-> 0]
    ELSE (CHOOSE s \in confirmed : TRUE).reserves

\* An effect keeps the price of the reserves the transaction results in; the
\* model keeps those reserves.
Effect == [tx: TxHashes, delta: [Assets -> MinInt64..MaxInt64], result: Reserves]

NewObject(confirmed) == [confirmed |-> confirmed, pending |-> {}, order |-> <<>>]

\* removePendingTxLocked: txOrder loses the first entry with the hash.
Without_map(o, tx) ==    \* mutant: leaves the hash in txOrder
    [o EXCEPT !.pending = {e \in @ : e.tx # tx}]
Without(o, tx) ==
    IF \E e \in o.pending : e.tx = tx
    THEN [o EXCEPT !.pending = {e \in @ : e.tx # tx},
                   !.order = RemoveFirst(@, tx)]
    ELSE o

\* AddPendingTx: a known hash keeps its effect.
WithPending(o, tx, result) ==
    IF \E e \in o.pending : e.tx = tx
    THEN o
    ELSE LET old == PoolReserves(o.confirmed)
         IN  [o EXCEPT
                !.pending = @ \cup
                    {[tx |-> tx, result |-> result,
                      delta |-> [a \in Assets |-> ReserveDelta(result[a], old[a])]]},
                !.order = Append(@, tx)]

\* SetConfirmedState: the confirmed transaction is no longer pending, and the
\* remaining deltas shift from the old confirmed reserves to the new ones.
WithConfirmed_stale(o, s) ==    \* mutant: no rebasing
    Without([o EXCEPT !.confirmed = {s}], s.tx)
WithConfirmed(o, s) ==
    LET old  == PoolReserves(o.confirmed)
        rest == Without([o EXCEPT !.confirmed = {s}], s.tx)
        Shift(e) == [e EXCEPT !.delta =
            [a \in Assets |->
                AddDeltaSaturating(@[a], ReserveDelta(old[a], s.reserves[a]))]]
    IN  [rest EXCEPT !.pending = {Shift(e) : e \in @}]

-----------------------------------------------------------------------------
(* MempoolStateManager                                                     *)

Init ==
    /\ tracked = [p \in Pools |-> {}]
    /\ objects = <<>>
    /\ handler = {}
    /\ feeder = [f \in Feeders |-> {}]
    /\ adds = 0 /\ confirms = 0
    /\ published = [p \in Pools |-> {}]

\* The object a pool's operation works on: the one tracked, or a new one.
ObjectOf(p) == IF tracked[p] # {} THEN CHOOSE i \in tracked[p] : TRUE ELSE Len(objects) + 1

\* GetOrCreatePoolState, under the manager's lock: an object is made with the
\* given confirmed state when the pool has none.
GetOrCreatePoolState(p, confirmed) ==
    \/ /\ tracked[p] # {}
       /\ UNCHANGED <<tracked, objects>>
    \/ /\ tracked[p] = {}
       /\ Len(objects) < MaxObjects
       /\ objects' = Append(objects, NewObject(confirmed))
       /\ tracked' = [tracked EXCEPT ![p] = {ObjectOf(p)}]

\* UpdateConfirmedState, by the oracle's handler or when it loads its states.
StartUpdateConfirmed(p, s) ==
    /\ handler = {}
    /\ confirms < MaxConfirms
    /\ confirms' = confirms + 1
    /\ GetOrCreatePoolState(p, {s})
    /\ handler' = {[object |-> ObjectOf(p), pool |-> p, state |-> s]}
    /\ UNCHANGED <<feeder, adds, published>>

FinishUpdateConfirmed ==
    /\ \E h \in handler :
          /\ objects' = [objects EXCEPT ![h.object] = WithConfirmed(@, h.state)]
          /\ published' = [published EXCEPT ![h.pool] = {h.state}]
    /\ handler' = {}
    /\ UNCHANGED <<tracked, feeder, adds, confirms>>

\* RemovePoolState, by the handler of a rollback.
Forget_pending(p) ==    \* mutant: empties the pool's object instead
    /\ tracked[p] # {}
    /\ objects' = [i \in DOMAIN objects |->
            IF i \in tracked[p] THEN NewObject(objects[i].confirmed) ELSE objects[i]]
    /\ UNCHANGED tracked
Forget(p) ==
    /\ tracked[p] # {}
    /\ tracked' = [tracked EXCEPT ![p] = {}]
    /\ UNCHANGED objects

RemovePoolState(p) ==
    /\ handler = {}
    /\ Forget(p)
    /\ published' = [published EXCEPT ![p] = {}]
    /\ UNCHANGED <<handler, feeder, adds, confirms>>

\* AddPendingTx of a parsed state; a nil state changes nothing.
StartAddPending(f, p, tx, result) ==
    /\ feeder[f] = {}
    /\ adds < MaxAdds
    /\ adds' = adds + 1
    /\ GetOrCreatePoolState(p, {})
    /\ feeder' = [feeder EXCEPT ![f] =
            {[object |-> ObjectOf(p), tx |-> tx, result |-> result]}]
    /\ UNCHANGED <<handler, confirms, published>>

FinishAddPending(f) ==
    /\ \E c \in feeder[f] :
          objects' = [objects EXCEPT ![c.object] = WithPending(@, c.tx, c.result)]
    /\ feeder' = [feeder EXCEPT ![f] = {}]
    /\ UNCHANGED <<tracked, handler, adds, confirms, published>>

\* RemovePendingTx, from every pool the manager tracks.
RemovePendingTx(tx) ==
    /\ \E p \in Pools : \E i \in tracked[p] : \E e \in objects[i].pending : e.tx = tx
    /\ objects' = [i \in DOMAIN objects |->
            IF i \in UNION {tracked[p] : p \in Pools}
            THEN Without(objects[i], tx) ELSE objects[i]]
    /\ UNCHANGED <<tracked, handler, feeder, adds, confirms, published>>

Next ==
    \/ \E p \in Pools, s \in State : StartUpdateConfirmed(p, s)
    \/ FinishUpdateConfirmed
    \/ \E p \in Pools : RemovePoolState(p)
    \/ \E f \in Feeders, p \in Pools, tx \in TxHashes, r \in Reserves :
            StartAddPending(f, p, tx, r)
    \/ \E f \in Feeders : FinishAddPending(f)
    \/ \E tx \in TxHashes : RemovePendingTx(tx)

Spec == Init /\ [][Next]_vars

-----------------------------------------------------------------------------
(* Properties                                                              *)

Object == [confirmed: SUBSET State, pending: SUBSET Effect, order: Seq(TxHashes)]

\* Type invariant; in particular no delta leaves the int64 range, whatever the
\* reserves were and however often it was rebased.
TypeOK ==
    /\ tracked \in [Pools -> SUBSET (1..Len(objects))]
    /\ \A p \in Pools : \A i, j \in tracked[p] : i = j
    /\ objects \in Seq(Object)
    /\ handler \subseteq [object: 1..Len(objects), pool: Pools, state: State]
    /\ feeder \in [Feeders -> SUBSET
              [object: 1..Len(objects), tx: TxHashes, result: Reserves]]
    /\ adds \in Nat /\ confirms \in Nat
    /\ published \in [Pools -> SUBSET State]

\* GetPendingTxs returns every pending effect exactly once: txOrder and
\* pendingTxs name the same hashes, and each has a hash only once.
OrderMatchesPending ==
    \A i \in DOMAIN objects :
        LET o == objects[i]
        IN  /\ ToSet(o.order) = {e.tx : e \in o.pending}
            /\ IsInjective(o.order)
            /\ \A d, e \in o.pending : d.tx = e.tx => d = e

Small(n) == n <= MaxInt64

\* As long as the reserves involved fit an int64, confirmed reserves plus delta
\* stay the reserves the transaction results in, through any sequence of
\* confirmations, rollbacks and late additions ("Shifting each delta by
\* (old - new) keeps those resulting reserves constant").
ResultIsFixed ==
    \A i \in DOMAIN objects : \A e \in objects[i].pending : \A a \in Assets :
        (\A r \in Reserves : Small(r[a])) =>
            PoolReserves(objects[i].confirmed)[a] + e.delta[a] = e.result[a]

\* The manager serves exactly the state the handler published last, and none
\* after a rollback withdrew it, although feeders make and use the pools'
\* objects concurrently.
ServesWhatWasPublished ==
    handler = {} =>
        \A p \in Pools :
            published[p] = UNION {objects[i].confirmed : i \in tracked[p]}

\* Neither computing nor rebasing a delta overflows, also with reserves that do
\* not fit an int64: a new delta has the sign of the change ("rather than
\* letting a uint64->int64 cast silently flip the sign, the result saturates"),
\* and a rebased one moves against the confirmed reserves ("rebasing an
\* already-saturated delta cannot itself silently overflow").
NoWrap(before, after) ==
    \A e \in after.pending : \A a \in Assets :
        LET old == PoolReserves(before.confirmed)[a]
            new == PoolReserves(after.confirmed)[a]
            was == {d \in before.pending : d.tx = e.tx}
        IN  IF was = {}
            THEN /\ e.delta[a] > 0 <=> e.result[a] > new
                 /\ e.delta[a] < 0 <=> e.result[a] < new
            ELSE \A d \in was :
                 /\ new <= old => e.delta[a] >= d.delta[a]
                 /\ new >= old => e.delta[a] <= d.delta[a]
DeltasNeverWrap == [][\A i \in DOMAIN objects : NoWrap(objects[i], objects'[i])]_vars

=============================================================================
