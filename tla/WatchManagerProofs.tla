------------------------- MODULE WatchManagerProofs -------------------------
(***************************************************************************)
(* Safety of the watch manager for any number of watches, events, patterns *)
(* and callers of Stop.                                                    *)
(***************************************************************************)
EXTENDS WatchManager, TLAPS

\* An empty, running manager has the types of TypeOK.
LEMMA TypeInit == Init => TypeOK
<1> SUFFICES ASSUME Init PROVE TypeOK
  OBVIOUS
<1>1. stopped \in BOOLEAN
  BY DEF Init
<1>2. /\ txIdIndex \in [TxIds -> SUBSET Nat]
      /\ utxoIndex \in [UTxOs -> SUBSET Nat]
      /\ stopPc \in [Stoppers -> {"ready", "waiting", "returned", "returnedAtOnce"}]
  BY DEF Init
<1>3. /\ watches = {} /\ elapsed = {} /\ inFlight = {}
      /\ nextId \in Nat /\ events \in Nat
  BY DEF Init
<1> QED
  BY <1>1, <1>2, <1>3 DEF TypeOK

\* The type invariant is inductive.
LEMMA TypeStep == ASSUME TypeOK, [Next]_vars PROVE TypeOK'
<1> USE DEF TypeOK
<1>1. ASSUME NEW x \in TxIds, NEW ttl \in BOOLEAN, NEW cb \in BOOLEAN,
             RegisterTxWatch(x, ttl, cb)
      PROVE  TypeOK'
  BY <1>1 DEF RegisterTxWatch, Watch
<1>2. ASSUME NEW u \in UTxOs, NEW ttl \in BOOLEAN, NEW cb \in BOOLEAN,
             RegisterUTxOWatch(u, ttl, cb)
      PROVE  TypeOK'
  BY <1>2 DEF RegisterUTxOWatch, Watch
<1>3. ASSUME NEW gone, UnregisterLocked(gone)
      PROVE  /\ watches' \subseteq Watch
             /\ txIdIndex' \in [TxIds -> SUBSET Nat]
             /\ utxoIndex' \in [UTxOs -> SUBSET Nat]
  BY <1>3 DEF UnregisterLocked, RemoveFromIndex
<1>4. ASSUME NEW id \in 1..nextId, Unregister(id) PROVE TypeOK'
  BY <1>3, <1>4 DEF Unregister
<1>5. ASSUME NEW e \in Event, CheckEvent(e) PROVE TypeOK'
  BY <1>5 DEF CheckEvent, ToFire, Watch
<1>6. ASSUME NEW c \in inFlight, CallbackDone(c) PROVE TypeOK'
  BY <1>6 DEF CallbackDone
<1>7. ASSUME NEW w \in watches, Elapse(w) PROVE TypeOK'
  BY <1>7 DEF Elapse, Watch
<1>8. CASE ExpireWatches
  BY <1>3, <1>8 DEF ExpireWatches
<1>9. ASSUME NEW t \in Stoppers, StopClears(t) \/ StopWaited(t) \/ StopAgain(t)
      PROVE  TypeOK'
  BY <1>9 DEF StopClears, StopWaited, StopAgain
<1>10. CASE UNCHANGED vars
  BY <1>10 DEF vars
<1> QED
  BY <1>1, <1>2, <1>4, <1>5, <1>6, <1>7, <1>8, <1>9, <1>10 DEF Next

\* Every table of the manager keeps its type, whatever is registered, fired,
\* expired or stopped.
THEOREM TypeCorrect == Spec => []TypeOK
<1> QED
  BY TypeInit, TypeStep, PTL DEF Spec

-----------------------------------------------------------------------------

\* Ids are handed out in order and never again: RegisterTxWatch and
\* RegisterUTxOWatch can only ever add a new one.
IdsAreOld == \A w \in watches : w.id <= nextId

\* The inductive strengthening of IndexConsistent.
IndexInv == TypeOK /\ IdsAreOld /\ IndexConsistent

\* unregisterLocked, by Unregister or by expiry, keeps tables and indexes in
\* step as long as it removes registered watches.
LEMMA UnregisterKeepsIndex ==
    ASSUME IndexInv, NEW gone, gone \subseteq watches, UnregisterLocked(gone)
    PROVE  IndexConsistent'
<1> USE DEF IndexInv, TypeOK, Watch, IndexConsistent, UnregisterLocked, Ids
<1>1. watches' \subseteq watches
  OBVIOUS
<1>2. ASSUME NEW x \in TxIds
      PROVE  txIdIndex'[x] = Ids({w \in watches' : w.type = "tx" /\ w.pattern = x})
  BY DEF RemoveFromIndex
<1>3. ASSUME NEW u \in UTxOs
      PROVE  utxoIndex'[u] = Ids({w \in watches' : w.type = "utxo" /\ w.pattern = u})
  BY DEF RemoveFromIndex
<1> QED
  BY <1>1, <1>2, <1>3

\* Registering a watch adds its new id to exactly one entry of one index.
LEMMA RegisterKeepsIndex ==
    ASSUME IndexInv, TypeOK',
           \/ \E x \in TxIds, ttl, cb \in BOOLEAN : RegisterTxWatch(x, ttl, cb)
           \/ \E u \in UTxOs, ttl, cb \in BOOLEAN : RegisterUTxOWatch(u, ttl, cb)
    PROVE  IdsAreOld' /\ IndexConsistent'
<1> USE DEF IndexInv, TypeOK, Watch, IdsAreOld, IndexConsistent, Ids
<1>1. ASSUME NEW x \in TxIds, NEW ttl \in BOOLEAN, NEW cb \in BOOLEAN,
             RegisterTxWatch(x, ttl, cb)
      PROVE  IdsAreOld' /\ IndexConsistent'
  <2> USE <1>1 DEF RegisterTxWatch
  <2>1. IdsAreOld' /\ \A v, w \in watches' : v.id = w.id => v = w
    OBVIOUS
  <2>2. ASSUME NEW y \in TxIds
        PROVE  txIdIndex'[y] = Ids({w \in watches' : w.type = "tx" /\ w.pattern = y})
    <3>1. CASE y = x
      <4> DEFINE old == {w \in watches : w.type = "tx" /\ w.pattern = x}
                 new == [id |-> nextId + 1, type |-> "tx", pattern |-> x,
                         ttl |-> ttl, callback |-> cb]
      <4>1. {w \in watches' : w.type = "tx" /\ w.pattern = x} = old \cup {new}
        OBVIOUS
      <4>2. txIdIndex'[x] = Ids(old) \cup {new.id}
        OBVIOUS
      <4>3. Ids(old \cup {new}) = Ids(old) \cup {new.id}
        <5> HIDE DEF old, new
        <5> QED
          BY DEF Ids
      <4> QED
        BY <3>1, <4>1, <4>2, <4>3
    <3>2. CASE y # x
      BY <3>2
    <3> QED
      BY <3>1, <3>2
  <2>3. ASSUME NEW u \in UTxOs
        PROVE  utxoIndex'[u] = Ids({w \in watches' : w.type = "utxo" /\ w.pattern = u})
    OBVIOUS
  <2> QED
    BY <2>1, <2>2, <2>3
<1>2. ASSUME NEW u \in UTxOs, NEW ttl \in BOOLEAN, NEW cb \in BOOLEAN,
             RegisterUTxOWatch(u, ttl, cb)
      PROVE  IdsAreOld' /\ IndexConsistent'
  <2> USE <1>2 DEF RegisterUTxOWatch
  <2>1. IdsAreOld' /\ \A v, w \in watches' : v.id = w.id => v = w
    OBVIOUS
  <2>2. ASSUME NEW x \in TxIds
        PROVE  txIdIndex'[x] = Ids({w \in watches' : w.type = "tx" /\ w.pattern = x})
    OBVIOUS
  <2>3. ASSUME NEW y \in UTxOs
        PROVE  utxoIndex'[y] = Ids({w \in watches' : w.type = "utxo" /\ w.pattern = y})
    <3>1. CASE y = u
      <4> DEFINE old == {w \in watches : w.type = "utxo" /\ w.pattern = u}
                 new == [id |-> nextId + 1, type |-> "utxo", pattern |-> u,
                         ttl |-> ttl, callback |-> cb]
      <4>1. {w \in watches' : w.type = "utxo" /\ w.pattern = u} = old \cup {new}
        OBVIOUS
      <4>2. utxoIndex'[u] = Ids(old) \cup {new.id}
        OBVIOUS
      <4>3. Ids(old \cup {new}) = Ids(old) \cup {new.id}
        <5> HIDE DEF old, new
        <5> QED
          BY DEF Ids
      <4> QED
        BY <3>1, <4>1, <4>2, <4>3
    <3>2. CASE y # u
      BY <3>2
    <3> QED
      BY <3>1, <3>2
  <2> QED
    BY <2>1, <2>2, <2>3
<1> QED
  BY <1>1, <1>2

\* IndexInv is inductive.
LEMMA IndexStep == ASSUME IndexInv, [Next]_vars PROVE IndexInv'
<1>1. TypeOK'
  BY TypeStep DEF IndexInv
<1>2. CASE \/ \E x \in TxIds, ttl, cb \in BOOLEAN : RegisterTxWatch(x, ttl, cb)
           \/ \E u \in UTxOs, ttl, cb \in BOOLEAN : RegisterUTxOWatch(u, ttl, cb)
  BY <1>1, <1>2, RegisterKeepsIndex DEF IndexInv
<1>3. CASE (\E id \in 1..nextId : Unregister(id)) \/ ExpireWatches
  <2>1. PICK gone \in SUBSET watches : UnregisterLocked(gone) /\ nextId' = nextId
    BY <1>3 DEF Unregister, ExpireWatches, Expired
  <2>2. IndexConsistent'
    BY <2>1, UnregisterKeepsIndex
  <2>3. IdsAreOld'
    BY <2>1 DEF IndexInv, IdsAreOld, UnregisterLocked
  <2> QED
    BY <1>1, <2>2, <2>3 DEF IndexInv
<1>4. CASE \E t \in Stoppers : StopClears(t)
  BY <1>1, <1>4 DEF IndexInv, IdsAreOld, IndexConsistent, Ids, StopClears
<1>5. CASE UNCHANGED <<watches, txIdIndex, utxoIndex, nextId>>
  BY <1>1, <1>5 DEF IndexInv, IdsAreOld, IndexConsistent
<1> QED
  BY <1>2, <1>3, <1>4, <1>5
     DEF Next, CheckEvent, CallbackDone, Elapse, StopWaited, StopAgain, vars

\* For any patterns and any number of watches the two indexes hold exactly the
\* registered watches: CheckEvent fires all of them and no removed one.
THEOREM IndexesAgree == Spec => []IndexConsistent
<1>1. Init => IdsAreOld /\ IndexConsistent
  BY DEF Init, IdsAreOld, IndexConsistent, Ids
<1>2. IndexInv => IndexConsistent
  BY DEF IndexInv
<1> QED
  BY <1>1, <1>2, TypeInit, IndexStep, PTL DEF Spec, IndexInv

-----------------------------------------------------------------------------

\* The inductive strengthening of NoCallbackAfterShutdown: only the caller that
\* stopped the manager waits or has waited, and a stopped manager is empty.
ShutdownInv ==
    /\ TypeOK
    /\ \A t \in Stoppers : stopPc[t] # "ready" => stopped
    /\ stopped => watches = {}
    /\ NoCallbackAfterShutdown

\* ShutdownInv is inductive.
LEMMA ShutdownStep == ASSUME ShutdownInv, [Next]_vars PROVE ShutdownInv'
<1> USE DEF ShutdownInv, NoCallbackAfterShutdown
<1>0. TypeOK /\ TypeOK'
  BY TypeStep
<1>1. CASE \/ \E x \in TxIds, ttl, cb \in BOOLEAN : RegisterTxWatch(x, ttl, cb)
           \/ \E u \in UTxOs, ttl, cb \in BOOLEAN : RegisterUTxOWatch(u, ttl, cb)
  BY <1>0, <1>1 DEF RegisterTxWatch, RegisterUTxOWatch
<1>2. CASE (\E id \in 1..nextId : Unregister(id)) \/ ExpireWatches
  <2>1. /\ watches' \subseteq watches
        /\ UNCHANGED <<stopped, inFlight, stopPc>>
    BY <1>2 DEF Unregister, ExpireWatches, UnregisterLocked
  <2>2. (stopped => watches = {}) => (stopped' => watches' = {})
    BY <2>1
  <2> QED
    BY <1>0, <2>1, <2>2
<1>3. CASE \E e \in Event : CheckEvent(e)
  BY <1>0, <1>3 DEF CheckEvent
<1>4. CASE \/ \E c \in inFlight : CallbackDone(c)
           \/ \E w \in watches : Elapse(w)
  BY <1>0, <1>4 DEF CallbackDone, Elapse
<1>5. ASSUME NEW t \in Stoppers, StopClears(t)
      PROVE  ShutdownInv'
  BY <1>0, <1>5 DEF StopClears, TypeOK
<1>6. ASSUME NEW t \in Stoppers, StopWaited(t) \/ StopAgain(t)
      PROVE  ShutdownInv'
  BY <1>0, <1>6 DEF StopWaited, StopAgain, TypeOK
<1>7. CASE UNCHANGED vars
  BY <1>0, <1>7 DEF vars
<1> QED
  BY <1>1, <1>2, <1>3, <1>4, <1>5, <1>6, <1>7 DEF Next

\* Once the Stop that shut the manager down has returned no callback runs or
\* starts, however many callers of Stop, watches and events there are.
THEOREM ShutdownIsQuiet == Spec => []NoCallbackAfterShutdown
<1>1. Init => ShutdownInv
  BY TypeInit DEF Init, ShutdownInv, NoCallbackAfterShutdown
<1>2. ShutdownInv => NoCallbackAfterShutdown
  BY DEF ShutdownInv
<1> QED
  BY <1>1, <1>2, ShutdownStep, PTL DEF Spec

=============================================================================
