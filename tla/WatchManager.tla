---------------------------- MODULE WatchManager ----------------------------
(***************************************************************************)
(* The indexer's watch manager (internal/indexer/watches.go): watches on   *)
(* transaction ids and on spent outputs, their two lookup indexes, the     *)
(* callbacks fired in goroutines of their own, expiry, and shutdown.       *)
(*                                                                         *)
(* Every method body that runs under the manager's RWMutex is one action;  *)
(* Stop has two, because it waits for the callbacks after it unlocks.  A   *)
(* callback that calls Register* or Unregister is one more interleaving of *)
(* those actions.  The id slices of the indexes are sets: each id occurs   *)
(* once and the goroutines it starts are unordered.  A watch matches one    *)
(* event at most once, so a goroutine is named by event and watch.         *)
(***************************************************************************)
EXTENDS Integers, FiniteSets

CONSTANTS
    TxIds,          \* transaction hashes, the patterns of WatchTypeTxId
    UTxOs,          \* "txHash#index", the patterns of WatchTypeUTxO
    Stoppers,       \* threads that call Stop
    \* bounds of the model
    MaxWatches, MaxEvents

ASSUME BoundsAssumption == MaxWatches \in Nat /\ MaxEvents \in Nat

VARIABLES
    watches, txIdIndex, utxoIndex, nextId, stopped,
    elapsed,        \* ids of watches older than their TTL
    events,         \* number of events that fired a callback
    inFlight,       \* callback goroutines <<event, id>>, callbackWg counts them
    stopPc          \* where each caller of Stop is

vars == <<watches, txIdIndex, utxoIndex, nextId, stopped, elapsed, events,
          inFlight, stopPc>>

Watch ==
    [id: Nat, type: {"tx"}, pattern: TxIds, ttl: BOOLEAN, callback: BOOLEAN]
    \cup
    [id: Nat, type: {"utxo"}, pattern: UTxOs, ttl: BOOLEAN, callback: BOOLEAN]

\* A transaction event: its hash and, unless its Transaction is nil, what it
\* consumes.
Event == [tx: TxIds, consumed: SUBSET UTxOs]

Ids(ws) == {w.id : w \in ws}

Init ==
    /\ watches = {}
    /\ txIdIndex = [p \in TxIds |-> {}]
    /\ utxoIndex = [p \in UTxOs |-> {}]
    /\ nextId = 0
    /\ stopped = FALSE
    /\ elapsed = {}
    /\ inFlight = {}
    /\ events = 0
    /\ stopPc = [t \in Stoppers |-> "ready"]

-----------------------------------------------------------------------------
(* Registration.  A stopped manager rejects it.                            *)

RegisterTxWatch(txId, ttl, callback) ==
    /\ ~stopped
    /\ nextId < MaxWatches
    /\ nextId' = nextId + 1
    /\ watches' = watches \cup
          {[id |-> nextId + 1, type |-> "tx", pattern |-> txId, ttl |-> ttl,
            callback |-> callback]}
    /\ txIdIndex' = [txIdIndex EXCEPT ![txId] = @ \cup {nextId + 1}]
    /\ UNCHANGED <<utxoIndex, stopped, elapsed, events, inFlight, stopPc>>

RegisterUTxOWatch(utxo, ttl, callback) ==
    /\ ~stopped
    /\ nextId < MaxWatches
    /\ nextId' = nextId + 1
    /\ watches' = watches \cup
          {[id |-> nextId + 1, type |-> "utxo", pattern |-> utxo, ttl |-> ttl,
            callback |-> callback]}
    /\ utxoIndex' = [utxoIndex EXCEPT ![utxo] = @ \cup {nextId + 1}]
    /\ UNCHANGED <<txIdIndex, stopped, elapsed, events, inFlight, stopPc>>

\* removeFromIndex for every watch of gone.
RemoveFromIndex_key(index, gone) ==    \* mutant: drops the whole key
    [p \in DOMAIN index |->
        IF \E w \in gone : w.pattern = p /\ w.id \in index[p] THEN {} ELSE index[p]]
RemoveFromIndex(index, gone) ==
    [p \in DOMAIN index |-> {i \in index[p] : i \notin Ids(gone)}]

UnregisterLocked(gone) ==
    /\ watches' = watches \ gone
    /\ txIdIndex' = RemoveFromIndex(txIdIndex, {w \in gone : w.type = "tx"})
    /\ utxoIndex' = RemoveFromIndex(utxoIndex, {w \in gone : w.type = "utxo"})

\* Unregister of an unknown id changes nothing.
Unregister(id) ==
    /\ UnregisterLocked({w \in watches : w.id = id})
    /\ UNCHANGED <<nextId, stopped, elapsed, events, inFlight, stopPc>>

-----------------------------------------------------------------------------
(* Events and callbacks                                                    *)

\* fireWatches, for the ids the two indexes give for the event: registered
\* watches with a callback.
Matched(e) == txIdIndex[e.tx] \cup UNION {utxoIndex[u] : u \in e.consumed}
ToFire(e) == {w \in watches : w.id \in Matched(e) /\ w.callback}

CheckEvent(e) ==
    /\ ~stopped
    /\ ToFire(e) # {}
    /\ events < MaxEvents
    /\ events' = events + 1
    /\ inFlight' = inFlight \cup {<<events + 1, w.id>> : w \in ToFire(e)}
    /\ UNCHANGED <<watches, txIdIndex, utxoIndex, nextId, stopped, elapsed, stopPc>>

\* A callback returns or panics; both end in callbackWg.Done.
CallbackDone_panicked(c) ==    \* mutant: a panic skips Done
    /\ c[2] # 1
    /\ inFlight' = inFlight \ {c}
    /\ UNCHANGED <<watches, txIdIndex, utxoIndex, nextId, stopped, elapsed,
                   events, stopPc>>
CallbackDone(c) ==
    /\ inFlight' = inFlight \ {c}
    /\ UNCHANGED <<watches, txIdIndex, utxoIndex, nextId, stopped, elapsed,
                   events, stopPc>>

-----------------------------------------------------------------------------
(* Expiry and shutdown                                                     *)

\* Time passes: the watch is older than its TTL.
Elapse(w) ==
    /\ w.id \notin elapsed
    /\ elapsed' = elapsed \cup {w.id}
    /\ UNCHANGED <<watches, txIdIndex, utxoIndex, nextId, stopped, events,
                   inFlight, stopPc>>

\* One tick of expirationLoop.  A TTL of 0 never expires.  A tick that was
\* chosen over the closed stopChan finds no watches.
Expired_tx == {w \in watches : w.type = "tx" /\ w.ttl /\ w.id \in elapsed}    \* mutant
Expired == {w \in watches : w.ttl /\ w.id \in elapsed}

ExpireWatches ==
    /\ Expired # {}
    /\ UnregisterLocked(Expired)
    /\ UNCHANGED <<nextId, stopped, elapsed, events, inFlight, stopPc>>

\* Stop, up to its Unlock, by the caller that finds the manager running.
StopClears_nil(t) ==    \* mutant: an index is not made again
    /\ stopPc[t] = "ready"
    /\ ~stopped
    /\ stopped' = TRUE
    /\ watches' = {}
    /\ txIdIndex' = [p \in {} |-> {}]
    /\ utxoIndex' = [p \in UTxOs |-> {}]
    /\ stopPc' = [stopPc EXCEPT ![t] = "waiting"]
    /\ UNCHANGED <<nextId, elapsed, events, inFlight>>
StopClears(t) ==
    /\ stopPc[t] = "ready"
    /\ ~stopped
    /\ stopped' = TRUE
    /\ watches' = {}
    /\ txIdIndex' = [p \in TxIds |-> {}]
    /\ utxoIndex' = [p \in UTxOs |-> {}]
    /\ stopPc' = [stopPc EXCEPT ![t] = "waiting"]
    /\ UNCHANGED <<nextId, elapsed, events, inFlight>>

\* callbackWg.Wait returns.
StopWaited_early(t) ==    \* mutant: returns without waiting
    /\ stopPc[t] = "waiting"
    /\ stopPc' = [stopPc EXCEPT ![t] = "returned"]
    /\ UNCHANGED <<watches, txIdIndex, utxoIndex, nextId, stopped, elapsed,
                   events, inFlight>>
StopWaited(t) ==
    /\ stopPc[t] = "waiting"
    /\ inFlight = {}
    /\ stopPc' = [stopPc EXCEPT ![t] = "returned"]
    /\ UNCHANGED <<watches, txIdIndex, utxoIndex, nextId, stopped, elapsed,
                   events, inFlight>>

\* Stop by a caller that finds the manager stopped: it returns at once.
StopAgain(t) ==
    /\ stopPc[t] = "ready"
    /\ stopped
    /\ stopPc' = [stopPc EXCEPT ![t] = "returnedAtOnce"]
    /\ UNCHANGED <<watches, txIdIndex, utxoIndex, nextId, stopped, elapsed,
                   events, inFlight>>

-----------------------------------------------------------------------------

Next ==
    \/ \E x \in TxIds, ttl, cb \in BOOLEAN : RegisterTxWatch(x, ttl, cb)
    \/ \E u \in UTxOs, ttl, cb \in BOOLEAN : RegisterUTxOWatch(u, ttl, cb)
    \/ \E id \in 1..nextId : Unregister(id)
    \/ \E e \in Event : CheckEvent(e)
    \/ \E c \in inFlight : CallbackDone(c)
    \/ \E w \in watches : Elapse(w)
    \/ ExpireWatches
    \/ \E t \in Stoppers : StopClears(t) \/ StopWaited(t) \/ StopAgain(t)

Spec == Init /\ [][Next]_vars

\* Callbacks terminate, the ticker ticks and a runnable Stop proceeds.  Nobody
\* has to register, to send events or to call Stop.
Fairness ==
    /\ WF_vars(\E c \in inFlight : CallbackDone(c))
    /\ WF_vars(ExpireWatches)
    /\ WF_vars(\E t \in Stoppers : StopWaited(t))

LiveSpec == Spec /\ Fairness

-----------------------------------------------------------------------------
(* Properties                                                              *)

\* Type invariant of the manager's tables, its callback goroutines and the
\* callers of Stop.
TypeOK ==
    /\ watches \subseteq Watch
    /\ txIdIndex \in [TxIds -> SUBSET Nat]
    /\ utxoIndex \in [UTxOs -> SUBSET Nat]
    /\ nextId \in Nat
    /\ stopped \in BOOLEAN
    /\ elapsed \subseteq Nat
    /\ events \in Nat
    /\ inFlight \subseteq Nat \X Nat
    /\ stopPc \in [Stoppers -> {"ready", "waiting", "returned", "returnedAtOnce"}]

\* The indexes hold exactly the registered watches, each under its own pattern
\* and id: CheckEvent neither misses a watch nor looks up a removed one,
\* whatever mix of registering, unregistering and expiry went before.
IndexConsistent ==
    /\ \A v, w \in watches : v.id = w.id => v = w
    /\ \A x \in TxIds :
          txIdIndex[x] = Ids({w \in watches : w.type = "tx" /\ w.pattern = x})
    /\ \A u \in UTxOs :
          utxoIndex[u] = Ids({w \in watches : w.type = "utxo" /\ w.pattern = u})

\* Once the Stop that shut the manager down has returned, no callback runs and
\* none starts any more.
NoCallbackAfterShutdown ==
    (\E t \in Stoppers : stopPc[t] = "returned") => inFlight = {} /\ watches = {}

\* What the comment on Stop promises every caller: "Stop also blocks until any
\* callback goroutines that were already in flight have finished, so no
\* callback runs after Stop returns. It is idempotent".
NoCallbackAfterAnyStop ==
    (\E t \in Stoppers : stopPc[t] \in {"returned", "returnedAtOnce"})
        => inFlight = {}

\* A Stop that shuts the manager down returns once the callbacks have.
StopReturns ==
    \A t \in Stoppers : stopPc[t] = "waiting" ~> stopPc[t] = "returned"

\* A watch with a TTL does not outlive it.
TTLWatchesLeave ==
    \A i \in 1..MaxWatches :
        (\E w \in watches : w.id = i /\ w.ttl /\ i \in elapsed)
            ~> (i \notin Ids(watches))

=============================================================================
