--------------------------- MODULE MempoolProofs ---------------------------
(***************************************************************************)
(* Safety of the mempool view for any pools, transactions, feeders and     *)
(* reserves, and any width of the machine's integers.                      *)
(***************************************************************************)
EXTENDS Mempool, SequenceTheorems, NaturalsInduction, WellFoundedInduction, TLAPS

-----------------------------------------------------------------------------
(* 64-bit arithmetic                                                       *)

Int64 == MinInt64..MaxInt64
UInt64 == 0..(2 * MaxInt64 + 1)

\* Remainders of numbers at most one period away from the range of remainders.
LEMMA NearRemainders ==
    ASSUME NEW M \in Nat \ {0}, NEW k \in Int
    PROVE  /\ 0 <= k /\ k < M => k % M = k
           /\ M <= k /\ k < 2 * M => k % M = k - M
           /\ -M <= k /\ k < 0 => k % M = k + M
<1>1. 0 <= k /\ k < M => k % M = k
  OBVIOUS
<1>2. ASSUME M <= k, k < 2 * M PROVE k % M = k - M
  <2>1. k % M \in 0..(M - 1) /\ k \div M \in Int /\ k = M * (k \div M) + (k % M)
    OBVIOUS
  <2>2. k \div M = 1
    BY <1>2, <2>1
  <2> QED
    BY <2>1, <2>2
<1>3. ASSUME -M <= k, k < 0 PROVE k % M = k + M
  <2>1. k % M \in 0..(M - 1) /\ k \div M \in Int /\ k = M * (k \div M) + (k % M)
    OBVIOUS
  <2>2. k \div M = -1
    BY <1>3, <2>1
  <2> QED
    BY <2>1, <2>2
<1> QED
  BY <1>1, <1>2, <1>3

\* A wrapped sum is the sum, moved by the size of the range when it left it.
LEMMA WrappedSum ==
    ASSUME NEW a \in Int64, NEW b \in Int64
    PROVE  WrappingAdd(a, b) =
             IF a + b > MaxInt64 THEN a + b - 2 * (MaxInt64 + 1)
             ELSE IF a + b < MinInt64 THEN a + b + 2 * (MaxInt64 + 1)
             ELSE a + b
<1> DEFINE M == 2 * (MaxInt64 + 1)
           n == a + b - MinInt64
<1>1. /\ M \in Nat \ {0} /\ n \in Int /\ MaxInt64 \in Nat /\ MinInt64 \in Int
      /\ a \in Int /\ b \in Int /\ M = MaxInt64 + 1 - MinInt64
  BY MaxInt64Assumption DEF Int64, MinInt64
<1>2. -M <= n /\ n < 2 * M
  BY MaxInt64Assumption DEF Int64, MinInt64
<1>3. /\ a + b > MaxInt64 <=> M <= n
      /\ a + b < MinInt64 <=> n < 0
  BY <1>1
<1>4. WrappingAdd(a, b) = (n % M) + MinInt64
  BY DEF WrappingAdd
<1>5. /\ n - M + MinInt64 = a + b - M
      /\ n + M + MinInt64 = a + b + M
      /\ n + MinInt64 = a + b
  BY <1>1
<1> HIDE DEF M, n
<1>6. n % M = IF M <= n THEN n - M ELSE IF n < 0 THEN n + M ELSE n
  <2> DEFINE r == n % M
  <2>1. /\ 0 <= n /\ n < M => r = n
        /\ M <= n /\ n < 2 * M => r = n - M
        /\ -M <= n /\ n < 0 => r = n + M
    BY <1>1, NearRemainders
  <2> HIDE DEF r
  <2>2. r = IF M <= n THEN n - M ELSE IF n < 0 THEN n + M ELSE n
    BY <1>1, <1>2, <2>1
  <2> QED
    BY <2>2 DEF r
<1> QED
  BY <1>3, <1>4, <1>5, <1>6 DEF M

\* The value in the range of an int64 that is closest to n.
Clamp(n) == IF n > MaxInt64 THEN MaxInt64 ELSE IF n < MinInt64 THEN MinInt64 ELSE n

\* addDeltaSaturating, which only looks at signs, clamps the sum.
LEMMA SumClamps ==
    ASSUME NEW a \in Int64, NEW b \in Int64
    PROVE  AddDeltaSaturating(a, b) = Clamp(a + b)
<1> DEFINE sum == WrappingAdd(a, b)
<1>1. sum = IF a + b > MaxInt64 THEN a + b - 2 * (MaxInt64 + 1)
            ELSE IF a + b < MinInt64 THEN a + b + 2 * (MaxInt64 + 1)
            ELSE a + b
  BY WrappedSum
<1> HIDE DEF sum
<1>2. /\ MaxInt64 \in Nat /\ MinInt64 = -(MaxInt64 + 1) /\ a \in Int /\ b \in Int
      /\ a <= MaxInt64 /\ b <= MaxInt64 /\ a >= MinInt64 /\ b >= MinInt64
  BY MaxInt64Assumption DEF Int64, MinInt64
<1>3. AddDeltaSaturating(a, b) =
        CASE a > 0 /\ b > 0 /\ sum < 0  -> MaxInt64
          [] a < 0 /\ b < 0 /\ sum >= 0 -> MinInt64
          [] OTHER -> sum
  BY DEF AddDeltaSaturating, sum
<1>4. CASE a + b > MaxInt64
  <2>1. a > 0 /\ b > 0 /\ sum < 0 /\ ~(a < 0)
    BY <1>1, <1>2, <1>4
  <2>2. AddDeltaSaturating(a, b) = MaxInt64
    BY <1>3, <2>1
  <2> QED
    BY <1>4, <2>2 DEF Clamp
<1>5. CASE a + b < MinInt64
  <2>1. a < 0 /\ b < 0 /\ sum >= 0 /\ ~(a > 0) /\ ~(a + b > MaxInt64)
    BY <1>1, <1>2, <1>5
  <2>2. AddDeltaSaturating(a, b) = MinInt64
    BY <1>3, <2>1
  <2> QED
    BY <1>5, <2>1, <2>2 DEF Clamp
<1>6. CASE ~(a + b > MaxInt64) /\ ~(a + b < MinInt64)
  <2>1. sum = a + b /\ ~(a > 0 /\ b > 0 /\ sum < 0) /\ ~(a < 0 /\ b < 0 /\ sum >= 0)
    BY <1>1, <1>2, <1>6
  <2>2. AddDeltaSaturating(a, b) = a + b
    BY <1>3, <2>1
  <2> QED
    BY <1>6, <2>2 DEF Clamp
<1> QED
  BY <1>4, <1>5, <1>6

\* reserveDelta clamps the difference of two uint64 amounts.
LEMMA DeltaClamps ==
    ASSUME NEW new \in UInt64, NEW old \in UInt64
    PROVE  ReserveDelta(new, old) = Clamp(new - old)
<1>1. new \in Nat /\ old \in Nat /\ MaxInt64 \in Nat /\ MinInt64 = -(MaxInt64 + 1)
  BY MaxInt64Assumption DEF UInt64, MinInt64
<1> QED
  BY <1>1 DEF ReserveDelta, Clamp

\* What clamping does to type, sign and order.
LEMMA ClampFacts ==
    ASSUME NEW n \in Int
    PROVE  /\ Clamp(n) \in Int64
           /\ n > 0 <=> Clamp(n) > 0
           /\ n < 0 <=> Clamp(n) < 0
           /\ n \in Int64 => Clamp(n) = n
           /\ \A d \in Int64 : (n >= d => Clamp(n) >= d) /\ (n <= d => Clamp(n) <= d)
<1>1. MaxInt64 \in Nat \ {0} /\ MinInt64 = -(MaxInt64 + 1)
  BY MaxInt64Assumption DEF MinInt64
<1> QED
  BY <1>1 DEF Clamp, Int64

-----------------------------------------------------------------------------
(* Removing from txOrder                                                   *)

\* A set of naturals has a least element.
LEMMA LeastNatural ==
    ASSUME NEW T \in SUBSET Nat, T # {}
    PROVE  \E x \in T : \A y \in T : ~(y < x)
<1>1. IsWellFoundedOn(OpToRel(<, Nat), Nat)
  BY NatLessThanWellFounded
<1>2. \E x \in T : \A y \in T : ~(<<y, x>> \in OpToRel(<, Nat))
  BY <1>1, WFMin
<1>3. \A x, y \in Nat : <<x, y>> \in OpToRel(<, Nat) <=> x < y
  BY DEF OpToRel
<1> QED
  BY <1>2, <1>3

\* RemoveFirst takes out one occurrence.
LEMMA RemoveFirstIs ==
    ASSUME NEW S, NEW s \in Seq(S), NEW e, NEW i \in 1..Len(s), s[i] = e
    PROVE  \E j \in 1..Len(s) : s[j] = e /\ RemoveFirst(s, e) = RemoveAt(s, j)
<1> DEFINE I == {k \in 1..Len(s) : s[k] = e}
<1>1. I # {} /\ I \in SUBSET Nat
  OBVIOUS
<1>2. RemoveFirst(s, e) = RemoveAt(s, Min(I))
  BY DEF RemoveFirst, SelectInSeq
<1>3. Min(I) \in I
  <2> HIDE DEF I
  <2>1. PICK x \in I : \A y \in I : ~(y < x)
    BY <1>1, LeastNatural
  <2>2. \A y \in I : x <= y
    BY <1>1, <2>1
  <2> QED
    BY <2>2 DEF Min
<1> QED
  BY <1>2, <1>3

\* An injective sequence loses exactly the element removed from it.
LEMMA RemoveFirstFacts ==
    ASSUME NEW S, NEW s \in Seq(S), IsInjective(s), NEW e \in ToSet(s)
    PROVE  /\ RemoveFirst(s, e) \in Seq(S)
           /\ IsInjective(RemoveFirst(s, e))
           /\ ToSet(RemoveFirst(s, e)) = ToSet(s) \ {e}
<1>1. PICK i \in 1..Len(s) : s[i] = e
  BY DEF ToSet
<1>2. PICK j \in 1..Len(s) : s[j] = e /\ RemoveFirst(s, e) = RemoveAt(s, j)
  BY <1>1, RemoveFirstIs
<1> DEFINE l == SubSeq(s, 1, j - 1)
           r == SubSeq(s, j + 1, Len(s))
           t == l \o r
           At(k) == IF k < j THEN k ELSE k + 1
<1>3. /\ l \in Seq(S) /\ Len(l) = j - 1
      /\ \A k \in 1..(j - 1) : l[k] = s[k]
  BY SubSeqProperties
<1>4. /\ r \in Seq(S) /\ Len(r) = Len(s) - j
      /\ \A k \in 1..(Len(s) - j) : r[k] = s[j + k]
  BY SubSeqProperties
<1> HIDE DEF l, r
<1>5. t \in Seq(S) /\ Len(t) = Len(s) - 1
  <2>1. Len(s) \in Nat /\ j \in Nat
    BY LenProperties
  <2>2. t \in Seq(S) /\ Len(t) = Len(l) + Len(r)
    BY <1>3, <1>4, ConcatProperties
  <2> QED
    BY <1>3, <1>4, <2>1, <2>2
<1>6. \A k \in 1..(Len(s) - 1) : t[k] = s[At(k)] /\ At(k) \in 1..Len(s) /\ At(k) # j
  BY <1>3, <1>4, <1>5
<1>7. RemoveFirst(s, e) = t
  BY <1>2 DEF RemoveAt, l, r
<1> HIDE DEF t
<1>8. DOMAIN t = 1..(Len(s) - 1) /\ DOMAIN s = 1..Len(s)
  BY <1>5
<1>9. \A k, m \in 1..Len(s) : s[k] = s[m] => k = m
  BY <1>8 DEF IsInjective
<1>10. IsInjective(t)
  BY <1>6, <1>8, <1>9 DEF IsInjective
<1>11. ToSet(t) = ToSet(s) \ {e}
  <2>1. ASSUME NEW k \in DOMAIN t PROVE t[k] \in ToSet(s) \ {e}
    BY <1>2, <1>6, <1>8, <1>9 DEF ToSet
  <2>2. ASSUME NEW x \in ToSet(s), x # e PROVE x \in ToSet(t)
    <3>1. PICK m \in 1..Len(s) : s[m] = x
      BY <1>8 DEF ToSet
    <3>2. m # j
      BY <1>2, <2>2, <3>1
    <3>3. PICK k \in 1..(Len(s) - 1) : At(k) = m
      <4>1. CASE m < j
        BY <4>1
      <4>2. CASE m > j
        <5>1. m - 1 \in 1..(Len(s) - 1) /\ At(m - 1) = m
          BY <4>2
        <5> QED
          BY <5>1
      <4> QED
        BY <3>2, <4>1, <4>2
    <3> QED
      BY <1>6, <1>8, <3>1, <3>3 DEF ToSet
  <2> QED
    BY <2>1, <2>2 DEF ToSet
<1> QED
  BY <1>5, <1>7, <1>10, <1>11

-----------------------------------------------------------------------------
(* The inductive invariant                                                 *)

\* One pool's pending transactions: txOrder lists pendingTxs, and the deltas
\* lead from the confirmed reserves to the results.
OrderOK(o) ==
    /\ ToSet(o.order) = {e.tx : e \in o.pending}
    /\ IsInjective(o.order)
    /\ \A d, e \in o.pending : d.tx = e.tx => d = e
FixedOK(o) ==
    \A e \in o.pending : \A a \in Assets :
        (\A r \in Reserves : Small(r[a])) =>
            PoolReserves(o.confirmed)[a] + e.delta[a] = e.result[a]

\* The state the manager serves for a pool.
Served(p) == UNION {objects[i].confirmed : i \in tracked[p]}

\* Pools share no object; the object the handler works on stays the tracked one
\* between its two lock sections, since only the handler drops objects; every
\* other pool serves what was published.
Tracking ==
    /\ \A p, q \in Pools : \A i \in tracked[p] : i \in tracked[q] => p = q
    /\ \A g, h \in handler : g = h
    /\ \A h \in handler : tracked[h.pool] = {h.object}
    /\ \A p \in Pools : (\A h \in handler : h.pool # p) => published[p] = Served(p)

MempoolInv ==
    /\ TypeOK
    /\ \A i \in DOMAIN objects : OrderOK(objects[i]) /\ FixedOK(objects[i])
    /\ Tracking

-----------------------------------------------------------------------------
(* Operations on one pool                                                  *)

\* Reserves are uint64 amounts, those of a missing state are 0, and they are
\* small when all are.
LEMMA ReservesType ==
    ASSUME NEW c \in SUBSET State, NEW a \in Assets
    PROVE  /\ PoolReserves(c)[a] \in UInt64
           /\ (\A r \in Reserves : Small(r[a])) => PoolReserves(c)[a] <= MaxInt64
<1>1. MaxInt64 \in Nat /\ 0 \in UInt64
  BY MaxInt64Assumption DEF UInt64
<1>2. CASE c = {}
  BY <1>1, <1>2 DEF PoolReserves
<1>3. CASE c # {}
  <2>1. (CHOOSE s \in c : TRUE) \in c
    BY <1>3
  <2>2. PoolReserves(c) \in Reserves
    BY <1>3, <2>1 DEF PoolReserves, State
  <2>3. PoolReserves(c)[a] \in UInt64
    BY <2>2, ReservesAssumption DEF UInt64
  <2> QED
    BY <2>2, <2>3 DEF Small
<1> QED
  BY <1>2, <1>3

\* A fresh object tracks nothing.
LEMMA NewObjectOK ==
    ASSUME NEW c \in SUBSET State
    PROVE  /\ NewObject(c) \in Object /\ OrderOK(NewObject(c)) /\ FixedOK(NewObject(c))
           /\ NewObject(c).confirmed = c
  BY EmptySeq DEF NewObject, Object, OrderOK, FixedOK, ToSet, IsInjective

\* removePendingTxLocked takes the transaction out of both tables.
LEMMA WithoutOK ==
    ASSUME NEW o \in Object, OrderOK(o), NEW tx \in TxHashes
    PROVE  /\ Without(o, tx) \in Object /\ OrderOK(Without(o, tx))
           /\ Without(o, tx).confirmed = o.confirmed
           /\ Without(o, tx).pending = {e \in o.pending : e.tx # tx}
<1>1. o.order \in Seq(TxHashes) /\ o.pending \in SUBSET Effect
  BY DEF Object
<1>2. CASE \E e \in o.pending : e.tx = tx
  <2> DEFINE w == RemoveFirst(o.order, tx)
  <2>1. tx \in ToSet(o.order)
    BY <1>2 DEF OrderOK
  <2>2. w \in Seq(TxHashes) /\ IsInjective(w) /\ ToSet(w) = ToSet(o.order) \ {tx}
    BY <1>1, <2>1, RemoveFirstFacts DEF OrderOK
  <2>3. Without(o, tx) = [o EXCEPT !.pending = {e \in @ : e.tx # tx}, !.order = w]
    BY <1>2 DEF Without
  <2> HIDE DEF w
  <2>4. /\ Without(o, tx).confirmed = o.confirmed /\ Without(o, tx).order = w
        /\ Without(o, tx).pending = {e \in o.pending : e.tx # tx}
        /\ Without(o, tx) \in Object
    BY <1>1, <2>2, <2>3 DEF Object
  <2>5. ToSet(w) = {e.tx : e \in {d \in o.pending : d.tx # tx}}
    BY <2>2 DEF OrderOK
  <2>6. OrderOK(Without(o, tx))
    BY <2>2, <2>4, <2>5 DEF OrderOK
  <2> QED
    BY <2>4, <2>6
<1>3. CASE ~\E e \in o.pending : e.tx = tx
  BY <1>3 DEF Without
<1> QED
  BY <1>2, <1>3

\* The deltas AddPendingTx computes are the clamped changes of the reserves.
LEMMA NewDelta ==
    ASSUME NEW c \in SUBSET State, NEW result \in Reserves, NEW a \in Assets
    PROVE  /\ result[a] \in UInt64 /\ PoolReserves(c)[a] \in UInt64
           /\ result[a] \in Nat /\ PoolReserves(c)[a] \in Nat
           /\ ReserveDelta(result[a], PoolReserves(c)[a])
                = Clamp(result[a] - PoolReserves(c)[a])
<1>1. result[a] \in UInt64 /\ PoolReserves(c)[a] \in UInt64
  BY ReservesType, ReservesAssumption DEF UInt64
<1>2. \A n \in UInt64 : n \in Nat
  BY MaxInt64Assumption DEF UInt64
<1> QED
  BY <1>1, <1>2, DeltaClamps

\* The values of an int64 are integers; differences of small amounts fit one.
LEMMA Int64Facts ==
    /\ Int64 \subseteq Int
    /\ \A m, n \in Nat : m <= MaxInt64 /\ n <= MaxInt64 => m - n \in Int64
<1>1. MaxInt64 \in Nat /\ MinInt64 = -(MaxInt64 + 1)
  BY MaxInt64Assumption DEF MinInt64
<1> QED
  BY <1>1 DEF Int64

\* AddPendingTx.
LEMMA WithPendingOK ==
    ASSUME NEW o \in Object, OrderOK(o), FixedOK(o),
           NEW tx \in TxHashes, NEW result \in Reserves
    PROVE  LET n == WithPending(o, tx, result)
           IN  /\ n \in Object /\ OrderOK(n) /\ FixedOK(n)
               /\ n.confirmed = o.confirmed /\ NoWrap(o, n)
<1> DEFINE n == WithPending(o, tx, result)
           old == PoolReserves(o.confirmed)
           delta == [a \in Assets |-> ReserveDelta(result[a], old[a])]
           e == [tx |-> tx, result |-> result, delta |-> delta]
<1>1. /\ o.order \in Seq(TxHashes) /\ o.pending \in SUBSET Effect
      /\ o.confirmed \in SUBSET State
  BY DEF Object
<1>2. ASSUME NEW d \in o.pending, NEW x \in o.pending, x.tx = d.tx, NEW a \in Assets
      PROVE  x.delta[a] >= d.delta[a] /\ x.delta[a] <= d.delta[a]
  <2>1. x = d
    BY <1>2 DEF OrderOK
  <2>2. d.delta[a] \in Int
    BY <1>1, Int64Facts DEF Effect, Int64
  <2> QED
    BY <2>1, <2>2
<1>3. CASE \E d \in o.pending : d.tx = tx
  <2>1. n = o
    BY <1>3 DEF WithPending
  <2>2. NoWrap(o, o)
    BY <1>2 DEF NoWrap
  <2> QED
    BY <2>1, <2>2
<1>4. CASE ~\E d \in o.pending : d.tx = tx
  <2>1. /\ n = [o EXCEPT !.pending = @ \cup {e}, !.order = Append(@, tx)]
    BY <1>4 DEF WithPending
  <2>2. ASSUME NEW a \in Assets
        PROVE  /\ result[a] \in Nat /\ old[a] \in Nat
               /\ delta[a] = Clamp(result[a] - old[a]) /\ delta[a] \in Int64
    <3>1. /\ result[a] \in Nat /\ old[a] \in Nat
          /\ delta[a] = Clamp(result[a] - old[a])
      BY <1>1, NewDelta
    <3>2. result[a] - old[a] \in Int
      BY <3>1
    <3> QED
      BY <3>1, <3>2, ClampFacts
  <2>3. delta \in [Assets -> Int64]
    BY <2>2
  <2> HIDE DEF delta
  <2>4. e \in Effect
    BY <2>3 DEF Effect, Int64
  <2>5. e.tx = tx /\ e.result = result /\ e.delta = delta
    OBVIOUS
  <2> HIDE DEF e
  <2>6. Append(o.order, tx) \in Seq(TxHashes)
    BY <1>1
  <2>7. /\ n \in Object /\ n.confirmed = o.confirmed
        /\ n.pending = o.pending \cup {e} /\ n.order = Append(o.order, tx)
    BY <1>1, <2>1, <2>4, <2>6 DEF Object
  <2> HIDE DEF n
  <2>8. OrderOK(n)
    <3>1. tx \notin ToSet(o.order)
      BY <1>4 DEF OrderOK
    <3> DEFINE q == o.order
               m == Len(q)
               w == Append(q, tx)
    <3>2. /\ m \in Nat /\ DOMAIN q = 1..m /\ DOMAIN w = 1..(m + 1)
          /\ w[m + 1] = tx /\ \A k \in 1..m : w[k] = q[k]
      BY <1>1
    <3> HIDE DEF q, m, w
    <3>3. ToSet(w) = ToSet(q) \cup {tx}
      <4>1. ASSUME NEW k \in 1..(m + 1) PROVE w[k] \in ToSet(q) \cup {tx}
        BY <3>2 DEF ToSet
      <4>2. tx \in ToSet(w)
        BY <3>2 DEF ToSet
      <4>3. ASSUME NEW k \in 1..m PROVE q[k] \in ToSet(w)
        <5>1. k \in 1..(m + 1) /\ w[k] = q[k]
          BY <3>2
        <5> QED
          BY <3>2, <5>1 DEF ToSet
      <4> QED
        BY <3>2, <4>1, <4>2, <4>3 DEF ToSet
    <3>4. IsInjective(w)
      <4>1. \A k \in 1..m : q[k] # tx
        BY <3>1, <3>2 DEF ToSet, q
      <4>2. \A k, j \in 1..m : q[k] = q[j] => k = j
        BY <3>2 DEF OrderOK, IsInjective, q
      <4>3. \A k \in 1..(m + 1) : k \in 1..m \/ k = m + 1
        BY <3>2
      <4> QED
        BY <3>2, <4>1, <4>2, <4>3 DEF IsInjective
    <3>5. ToSet(w) = {d.tx : d \in o.pending \cup {e}}
      BY <2>5, <3>3 DEF OrderOK, q
    <3>6. \A d, f \in o.pending \cup {e} : d.tx = f.tx => d = f
      BY <1>4, <2>5 DEF OrderOK
    <3> QED
      BY <2>7, <3>4, <3>5, <3>6 DEF OrderOK, w, q
  <2>9. FixedOK(n)
    <3>1. ASSUME NEW a \in Assets, \A r \in Reserves : Small(r[a])
          PROVE  old[a] + e.delta[a] = e.result[a]
      <4>1. old[a] <= MaxInt64 /\ result[a] <= MaxInt64
        BY <1>1, <3>1, ReservesType DEF Small
      <4>2. result[a] - old[a] \in Int64
        BY <2>2, <4>1, Int64Facts
      <4>3. delta[a] = result[a] - old[a]
        BY <2>2, <4>2, ClampFacts, Int64Facts
      <4> QED
        BY <2>2, <2>5, <4>3
    <3> QED
      BY <2>7, <3>1 DEF FixedOK
  <2>10. NoWrap(o, n)
    <3>1. {d \in o.pending : d.tx = e.tx} = {}
      BY <1>4, <2>5
    <3>2. ASSUME NEW a \in Assets
          PROVE  /\ e.delta[a] > 0 <=> e.result[a] > old[a]
                 /\ e.delta[a] < 0 <=> e.result[a] < old[a]
      <4>1. result[a] - old[a] \in Int
        BY <2>2
      <4> QED
        BY <2>2, <2>5, <4>1, ClampFacts
    <3> QED
      BY <1>2, <2>7, <3>1, <3>2 DEF NoWrap
  <2> QED
    BY <2>7, <2>8, <2>9, <2>10 DEF n
<1> QED
  BY <1>3, <1>4

\* SetConfirmedState.
LEMMA WithConfirmedOK ==
    ASSUME NEW o \in Object, OrderOK(o), FixedOK(o), NEW s \in State
    PROVE  LET n == WithConfirmed(o, s)
           IN  /\ n \in Object /\ OrderOK(n) /\ FixedOK(n)
               /\ n.confirmed = {s} /\ NoWrap(o, n)
<1> DEFINE n == WithConfirmed(o, s)
           old == PoolReserves(o.confirmed)
           new == PoolReserves({s})
           base == [o EXCEPT !.confirmed = {s}]
           rest == Without(base, s.tx)
           shift(a) == ReserveDelta(old[a], s.reserves[a])
           Shift(e) == [e EXCEPT !.delta =
               [a \in Assets |-> AddDeltaSaturating(@[a], shift(a))]]
<1>1. /\ o.order \in Seq(TxHashes) /\ o.pending \in SUBSET Effect
      /\ o.confirmed \in SUBSET State /\ s.tx \in TxHashes /\ s.reserves \in Reserves
  BY DEF Object, State
<1>2. base \in Object /\ OrderOK(base) /\ base.confirmed = {s} /\ base.pending = o.pending
  <2>1. /\ base \in Object /\ base.confirmed = {s} /\ base.pending = o.pending
        /\ base.order = o.order
    BY <1>1 DEF Object
  <2> HIDE DEF base
  <2> QED
    BY <2>1 DEF OrderOK
<1> HIDE DEF base
<1>3. /\ rest \in Object /\ OrderOK(rest) /\ rest.confirmed = {s}
      /\ rest.pending = {e \in o.pending : e.tx # s.tx}
  BY <1>1, <1>2, WithoutOK
<1>4. n = [rest EXCEPT !.pending = {Shift(e) : e \in @}]
  BY DEF WithConfirmed, base
<1> HIDE DEF rest
<1>5. new = s.reserves
  BY DEF PoolReserves
<1>6. ASSUME NEW a \in Assets
      PROVE  /\ old[a] \in Nat /\ s.reserves[a] \in Nat
             /\ shift(a) = Clamp(old[a] - s.reserves[a]) /\ shift(a) \in Int64
  <2>1. old[a] \in UInt64 /\ s.reserves[a] \in UInt64
    BY <1>1, ReservesType, ReservesAssumption DEF UInt64
  <2>2. \A k \in UInt64 : k \in Nat
    BY MaxInt64Assumption DEF UInt64
  <2>3. shift(a) = Clamp(old[a] - s.reserves[a])
    BY <2>1, DeltaClamps
  <2>4. old[a] - s.reserves[a] \in Int
    BY <2>1, <2>2
  <2> QED
    BY <2>1, <2>2, <2>3, <2>4, ClampFacts
<1> HIDE DEF shift
<1>7. ASSUME NEW e \in o.pending
      PROVE  /\ Shift(e) \in Effect /\ Shift(e).tx = e.tx /\ Shift(e).result = e.result
             /\ \A a \in Assets : /\ Shift(e).delta[a] = Clamp(e.delta[a] + shift(a))
                                  /\ e.delta[a] \in Int64
  <2>1. e \in Effect /\ \A a \in Assets : e.delta[a] \in Int64
    BY <1>1 DEF Effect, Int64
  <2> DEFINE delta == [a \in Assets |-> AddDeltaSaturating(e.delta[a], shift(a))]
  <2>2. ASSUME NEW a \in Assets
        PROVE  delta[a] = Clamp(e.delta[a] + shift(a)) /\ delta[a] \in Int64
    <3>1. delta[a] = Clamp(e.delta[a] + shift(a))
      BY <1>6, <2>1, SumClamps
    <3>2. e.delta[a] + shift(a) \in Int
      <4>1. e.delta[a] \in Int /\ shift(a) \in Int
        BY <1>6, <2>1, Int64Facts
      <4> QED
        BY <4>1
    <3> QED
      BY <3>1, <3>2, ClampFacts
  <2>3. delta \in [Assets -> Int64]
    BY <2>2
  <2>4. Shift(e) = [e EXCEPT !.delta = delta]
    OBVIOUS
  <2> HIDE DEF delta, Shift
  <2>5. /\ Shift(e) \in Effect /\ Shift(e).tx = e.tx /\ Shift(e).result = e.result
        /\ Shift(e).delta = delta
    BY <2>1, <2>3, <2>4 DEF Effect, Int64
  <2> QED
    BY <2>1, <2>2, <2>5
<1> HIDE DEF Shift
<1>8. /\ n.confirmed = {s} /\ n.order = rest.order /\ n \in Object
      /\ n.pending = {Shift(e) : e \in rest.pending}
  <2> DEFINE q == {Shift(e) : e \in rest.pending}
  <2>1. q \in SUBSET Effect
    BY <1>3, <1>7
  <2>2. n = [rest EXCEPT !.pending = q]
    BY <1>4
  <2> HIDE DEF q, n
  <2>3. n.confirmed = {s} /\ n.order = rest.order /\ n \in Object /\ n.pending = q
    BY <1>3, <2>1, <2>2 DEF Object
  <2> QED
    BY <2>3 DEF q
<1> HIDE DEF n
<1>9. rest.pending \subseteq o.pending
  BY <1>3
<1>10. OrderOK(n)
  <2>1. {e.tx : e \in n.pending} = {e.tx : e \in rest.pending}
    BY <1>7, <1>8, <1>9
  <2>2. \A d, e \in n.pending : d.tx = e.tx => d = e
    BY <1>3, <1>7, <1>8, <1>9 DEF OrderOK
  <2> QED
    BY <1>3, <1>8, <2>1, <2>2 DEF OrderOK
<1>11. FixedOK(n)
  <2>1. ASSUME NEW e \in o.pending, NEW a \in Assets, \A r \in Reserves : Small(r[a])
        PROVE  s.reserves[a] + Shift(e).delta[a] = Shift(e).result[a]
    <3>1. old[a] <= MaxInt64 /\ s.reserves[a] <= MaxInt64 /\ e.result[a] <= MaxInt64
      BY <1>1, <2>1, ReservesType DEF Small, Effect
    <3>2. e.result[a] \in Nat /\ old[a] + e.delta[a] = e.result[a] /\ e.delta[a] \in Int
      <4>1. e.result \in Reserves
        BY <1>1 DEF Effect
      <4>2. e.result[a] \in Nat
        BY <4>1, ReservesAssumption, MaxInt64Assumption
      <4> QED
        BY <1>7, <2>1, <4>2, Int64Facts DEF FixedOK
    <3>3. shift(a) = old[a] - s.reserves[a]
      <4>1. old[a] - s.reserves[a] \in Int64
        BY <1>6, <3>1, Int64Facts
      <4> QED
        BY <1>6, <4>1, ClampFacts, Int64Facts
    <3>4. e.delta[a] + shift(a) = e.result[a] - s.reserves[a]
      BY <1>6, <3>2, <3>3
    <3>5. e.result[a] - s.reserves[a] \in Int64
      BY <1>6, <3>1, <3>2, Int64Facts
    <3>6. Shift(e).delta[a] = e.result[a] - s.reserves[a]
      BY ZenonT(40), <1>7, <3>4, <3>5, ClampFacts, Int64Facts
    <3> QED
      BY <1>6, <1>7, <3>2, <3>6
  <2> QED
    BY <1>5, <1>8, <1>9, <2>1 DEF FixedOK
<1>12. NoWrap(o, n)
  <2>1. ASSUME NEW e \in o.pending, NEW d \in o.pending, d.tx = Shift(e).tx,
               NEW a \in Assets
        PROVE  /\ s.reserves[a] <= old[a] => Shift(e).delta[a] >= d.delta[a]
               /\ s.reserves[a] >= old[a] => Shift(e).delta[a] <= d.delta[a]
    <3>1. d = e
      BY <1>7, <2>1 DEF OrderOK
    <3>2. e.delta[a] \in Int64 /\ e.delta[a] \in Int /\ shift(a) \in Int
      BY <1>6, <1>7, Int64Facts
    <3>3. /\ s.reserves[a] <= old[a] => shift(a) >= 0
          /\ s.reserves[a] >= old[a] => shift(a) <= 0
      <4> DEFINE k == old[a] - s.reserves[a]
      <4>1. /\ k \in Int /\ (s.reserves[a] <= old[a] => ~(k < 0))
            /\ (s.reserves[a] >= old[a] => ~(k > 0))
        BY <1>6
      <4>2. shift(a) = Clamp(k)
        BY <1>6
      <4> HIDE DEF k
      <4>3. (k > 0 <=> Clamp(k) > 0) /\ (k < 0 <=> Clamp(k) < 0)
        BY <4>1, ClampFacts
      <4> QED
        BY <3>2, <4>1, <4>2, <4>3
    <3> DEFINE m == e.delta[a] + shift(a)
    <3>4. /\ m \in Int /\ (s.reserves[a] <= old[a] => m >= e.delta[a])
          /\ (s.reserves[a] >= old[a] => m <= e.delta[a])
      BY <3>2, <3>3
    <3>5. Shift(e).delta[a] = Clamp(m)
      BY <1>7
    <3> HIDE DEF m
    <3> QED
      BY <3>1, <3>2, <3>4, <3>5, ClampFacts
  <2>2. ASSUME NEW e \in rest.pending
        PROVE  {d \in o.pending : d.tx = Shift(e).tx} # {}
    BY <1>7, <1>9
  <2> QED
    BY <1>5, <1>8, <1>9, <2>1, <2>2 DEF NoWrap
<1> QED
  BY <1>8, <1>10, <1>11, <1>12 DEF n

-----------------------------------------------------------------------------
(* Steps of the manager                                                    *)

\* An object that an operation leaves alone keeps its deltas.
LEMMA NoWrapSame ==
    ASSUME NEW o \in Object, OrderOK(o), NEW n, n.pending \subseteq o.pending,
           n.confirmed = o.confirmed
    PROVE  NoWrap(o, n)
<1>1. ASSUME NEW d \in o.pending, NEW e \in n.pending, d.tx = e.tx, NEW a \in Assets
      PROVE  e.delta[a] >= d.delta[a] /\ e.delta[a] <= d.delta[a]
  <2>1. d = e
    BY <1>1 DEF OrderOK
  <2>2. d.delta[a] \in Int
    BY Int64Facts DEF Object, Effect, Int64
  <2> QED
    BY <2>1, <2>2
<1>2. \A e \in n.pending : {d \in o.pending : d.tx = e.tx} # {}
  OBVIOUS
<1> QED
  BY <1>1, <1>2 DEF NoWrap

\* The objects' part of the invariant, and of a step.
ObjectsOK ==
    /\ objects \in Seq(Object)
    /\ \A i \in DOMAIN objects : OrderOK(objects[i]) /\ FixedOK(objects[i])
ObjectsStep ==
    /\ ObjectsOK'
    /\ \A i \in DOMAIN objects : NoWrap(objects[i], objects'[i])

\* Steps that change no object.
LEMMA ObjectsUnchanged ==
    ASSUME ObjectsOK, objects' = objects PROVE ObjectsStep
<1>1. \A i \in DOMAIN objects : objects[i] \in Object
  BY DEF ObjectsOK
<1> QED
  BY <1>1, NoWrapSame DEF ObjectsOK, ObjectsStep

\* Looking an object up, or making one.
LEMMA ObjectsCreate ==
    ASSUME ObjectsOK, NEW c \in SUBSET State, NEW p, GetOrCreatePoolState(p, c)
    PROVE  ObjectsStep
<1>1. CASE objects' = objects
  BY <1>1, ObjectsUnchanged
<1>2. CASE objects' = Append(objects, NewObject(c))
  <2> DEFINE o == NewObject(c)
             m == Len(objects)
  <2>1. o \in Object /\ OrderOK(o) /\ FixedOK(o)
    BY NewObjectOK
  <2> HIDE DEF o
  <2>2. /\ m \in Nat /\ DOMAIN objects = 1..m /\ DOMAIN objects' = 1..(m + 1)
        /\ objects'[m + 1] = o /\ \A i \in 1..m : objects'[i] = objects[i]
        /\ objects' \in Seq(Object)
    BY <1>2, <2>1 DEF ObjectsOK, o
  <2>3. \A i \in 1..m : objects[i] \in Object
    BY <2>2 DEF ObjectsOK
  <2>4. \A i \in 1..(m + 1) : i \in 1..m \/ i = m + 1
    BY <2>2
  <2> HIDE DEF m
  <2>5. \A i \in 1..(m + 1) : OrderOK(objects'[i]) /\ FixedOK(objects'[i])
    BY <2>1, <2>2, <2>4 DEF ObjectsOK
  <2>6. \A i \in 1..m : NoWrap(objects[i], objects'[i])
    BY <2>2, <2>3, NoWrapSame DEF ObjectsOK
  <2> QED
    BY <2>2, <2>5, <2>6 DEF ObjectsStep, ObjectsOK
<1> QED
  BY <1>1, <1>2 DEF GetOrCreatePoolState

\* An operation on one object.
LEMMA ObjectsUpdate ==
    ASSUME ObjectsOK, NEW i \in DOMAIN objects, NEW n \in Object, OrderOK(n),
           FixedOK(n), NoWrap(objects[i], n), objects' = [objects EXCEPT ![i] = n]
    PROVE  ObjectsStep
<1>1. /\ DOMAIN objects' = DOMAIN objects /\ objects'[i] = n
      /\ \A j \in DOMAIN objects : j # i => objects'[j] = objects[j]
      /\ objects' \in Seq(Object)
  BY DEF ObjectsOK
<1>2. \A j \in DOMAIN objects : objects[j] \in Object
  BY DEF ObjectsOK
<1>3. \A j \in DOMAIN objects' : OrderOK(objects'[j]) /\ FixedOK(objects'[j])
  BY <1>1 DEF ObjectsOK
<1>4. \A j \in DOMAIN objects : NoWrap(objects[j], objects'[j])
  BY <1>1, <1>2, NoWrapSame DEF ObjectsOK
<1> QED
  BY <1>1, <1>3, <1>4 DEF ObjectsStep, ObjectsOK

\* RemovePendingTx.
LEMMA ObjectsRemove ==
    ASSUME ObjectsOK, NEW tx \in TxHashes, RemovePendingTx(tx)
    PROVE  /\ ObjectsStep /\ DOMAIN objects' = DOMAIN objects
           /\ \A i \in DOMAIN objects : objects'[i].confirmed = objects[i].confirmed
<1>1. /\ DOMAIN objects' = DOMAIN objects
      /\ \A i \in DOMAIN objects :
            objects'[i] = Without(objects[i], tx) \/ objects'[i] = objects[i]
  BY DEF RemovePendingTx
<1>2. ASSUME NEW i \in DOMAIN objects
      PROVE  /\ objects'[i] \in Object /\ OrderOK(objects'[i]) /\ FixedOK(objects'[i])
             /\ objects'[i].confirmed = objects[i].confirmed
             /\ NoWrap(objects[i], objects'[i])
  <2>1. objects[i] \in Object /\ OrderOK(objects[i]) /\ FixedOK(objects[i])
    BY DEF ObjectsOK
  <2>2. CASE objects'[i] = objects[i]
    BY <2>1, <2>2, NoWrapSame
  <2>3. CASE objects'[i] = Without(objects[i], tx)
    <3>1. /\ objects'[i] \in Object /\ OrderOK(objects'[i])
          /\ objects'[i].confirmed = objects[i].confirmed
          /\ objects'[i].pending \subseteq objects[i].pending
      BY <2>1, <2>3, WithoutOK
    <3>2. FixedOK(objects'[i])
      BY <2>1, <3>1 DEF FixedOK
    <3> QED
      BY <2>1, <3>1, <3>2, NoWrapSame
  <2> QED
    BY <1>1, <2>2, <2>3
<1>3. objects' \in Seq(Object)
  <2>1. Len(objects) \in Nat /\ DOMAIN objects = 1..Len(objects)
    BY DEF ObjectsOK
  <2>2. objects' = [i \in 1..Len(objects) |-> objects'[i]]
    BY <2>1 DEF RemovePendingTx
  <2>3. objects' \in [1..Len(objects) -> Object]
    BY <1>2, <2>1, <2>2
  <2> QED
    BY <2>1, <2>3, SeqDef
<1> QED
  BY <1>1, <1>2, <1>3 DEF ObjectsStep, ObjectsOK

\* The manager's table and what the handler and the feeders hold.
TableOK ==
    /\ tracked \in [Pools -> SUBSET (1..Len(objects))]
    /\ \A p \in Pools : \A i, j \in tracked[p] : i = j
    /\ \A p, q \in Pools : \A i \in tracked[p] : i \in tracked[q] => p = q
Calls ==
    /\ handler \subseteq [object: 1..Len(objects), pool: Pools, state: State]
    /\ feeder \in [Feeders -> SUBSET
              [object: 1..Len(objects), tx: TxHashes, result: Reserves]]
    /\ adds \in Nat /\ confirms \in Nat
    /\ published \in [Pools -> SUBSET State]

\* The invariant in its parts.
LEMMA InvParts ==
    MempoolInv <=> /\ ObjectsOK /\ TableOK /\ Calls
                   /\ \A g, h \in handler : g = h
                   /\ \A h \in handler : tracked[h.pool] = {h.object}
                   /\ \A p \in Pools : (\A h \in handler : h.pool # p)
                                          => published[p] = Served(p)
  BY DEF MempoolInv, TypeOK, ObjectsOK, TableOK, Calls, Tracking

\* GetOrCreatePoolState returns the pool's only object, which no other pool has.
LEMMA LookUp ==
    ASSUME ObjectsOK, TableOK, NEW p \in Pools, NEW c \in SUBSET State,
           GetOrCreatePoolState(p, c)
    PROVE  /\ 1..Len(objects) \subseteq 1..Len(objects')
           /\ TableOK'
           /\ tracked'[p] = {ObjectOf(p)} /\ ObjectOf(p) \in 1..Len(objects')
           /\ \A q \in Pools : tracked[q] # {} => tracked'[q] = tracked[q]
           /\ \A q \in Pools : q # p \/ c = {} => Served(q)' = Served(q)
<1> DEFINE m == Len(objects)
<1>1. m \in Nat /\ DOMAIN objects = 1..m
  BY DEF ObjectsOK
<1>2. CASE tracked[p] # {} /\ UNCHANGED <<tracked, objects>>
  <2>1. ObjectOf(p) \in tracked[p]
    BY <1>2 DEF ObjectOf
  <2>2. tracked[p] = {ObjectOf(p)} /\ ObjectOf(p) \in 1..m
    BY <2>1 DEF TableOK
  <2>3. TableOK' /\ \A q \in Pools : Served(q)' = Served(q)
    BY <1>2 DEF TableOK, Served
  <2> QED
    BY <1>2, <2>2, <2>3
<1>3. CASE /\ tracked[p] = {} /\ objects' = Append(objects, NewObject(c))
           /\ tracked' = [tracked EXCEPT ![p] = {ObjectOf(p)}]
  <2>1. ObjectOf(p) = m + 1
    BY <1>3 DEF ObjectOf
  <2>2. /\ Len(objects') = m + 1 /\ objects'[m + 1] = NewObject(c)
        /\ \A i \in 1..m : objects'[i] = objects[i]
    BY <1>1, <1>3 DEF ObjectsOK
  <2>3. 1..m \subseteq 1..(m + 1) /\ m + 1 \in 1..(m + 1) /\ m + 1 \notin 1..m
    BY <1>1
  <2>4. /\ tracked'[p] = {m + 1}
        /\ \A q \in Pools : q # p => tracked'[q] = tracked[q]
    BY <1>3, <2>1 DEF TableOK
  <2> HIDE DEF m
  <2>5. \A q \in Pools : tracked[q] \subseteq 1..m
    BY DEF TableOK, m
  <2>6. TableOK'
    <3>1. tracked' \in [Pools -> SUBSET (1..(m + 1))]
      BY <1>3, <2>1, <2>3, <2>5 DEF TableOK, m
    <3>2. \A q \in Pools : \A i, j \in tracked'[q] : i = j
      BY <2>4 DEF TableOK
    <3>3. \A q, r \in Pools : \A i \in tracked'[q] : i \in tracked'[r] => q = r
      BY <2>3, <2>4, <2>5 DEF TableOK
    <3> QED
      BY <2>2, <3>1, <3>2, <3>3 DEF TableOK
  <2>7. ASSUME NEW q \in Pools, q # p PROVE Served(q)' = Served(q)
    BY <2>2, <2>4, <2>5, <2>7 DEF Served
  <2>8. ASSUME c = {} PROVE Served(p)' = Served(p)
    <3>1. objects'[m + 1].confirmed = {}
      BY <2>2, <2>8, NewObjectOK
    <3>2. Served(p)' = {}
      BY <2>4, <3>1 DEF Served
    <3>3. Served(p) = {}
      BY <1>3 DEF Served
    <3> QED
      BY <3>2, <3>3
  <2> QED
    BY <1>3, <2>1, <2>2, <2>3, <2>4, <2>6, <2>7, <2>8 DEF m
<1> QED
  BY <1>2, <1>3 DEF GetOrCreatePoolState

\* Every step keeps the invariant and wraps no delta.
LEMMA MempoolStep ==
    ASSUME MempoolInv, [Next]_vars
    PROVE  MempoolInv' /\ ObjectsStep
<1>1. /\ ObjectsOK /\ TableOK /\ Calls
      /\ \A g, h \in handler : g = h
      /\ \A h \in handler : tracked[h.pool] = {h.object}
      /\ \A p \in Pools : (\A h \in handler : h.pool # p) => published[p] = Served(p)
  BY InvParts
<1>0. DOMAIN objects = 1..Len(objects)
  BY <1>1 DEF ObjectsOK
<1> DEFINE Goal == /\ ObjectsStep /\ TableOK' /\ Calls'
                   /\ \A g, h \in handler' : g = h
                   /\ \A h \in handler' : tracked'[h.pool] = {h.object}
                   /\ \A p \in Pools : (\A h \in handler' : h.pool # p)
                                          => published'[p] = Served(p)'
<1>2. ASSUME NEW p \in Pools, NEW s \in State, StartUpdateConfirmed(p, s) PROVE Goal
  <2> DEFINE new == [object |-> ObjectOf(p), pool |-> p, state |-> s]
  <2>1. /\ GetOrCreatePoolState(p, {s}) /\ handler = {} /\ handler' = {new}
        /\ UNCHANGED <<feeder, adds, published>> /\ confirms' = confirms + 1
    BY <1>2 DEF StartUpdateConfirmed
  <2>2. ObjectsStep
    BY <1>1, <2>1, ObjectsCreate
  <2>3. /\ 1..Len(objects) \subseteq 1..Len(objects') /\ TableOK'
        /\ tracked'[p] = {ObjectOf(p)} /\ ObjectOf(p) \in 1..Len(objects')
        /\ \A q \in Pools : q # p => Served(q)' = Served(q)
    BY <1>1, <2>1, LookUp
  <2>4. new.pool = p /\ new.object = ObjectOf(p)
        /\ new \in [object: 1..Len(objects'), pool: Pools, state: State]
    BY <2>3
  <2> HIDE DEF new
  <2>5. Calls'
    BY <1>1, <2>1, <2>3, <2>4 DEF Calls
  <2> QED
    BY <1>1, <2>1, <2>2, <2>3, <2>4, <2>5
<1>3. ASSUME FinishUpdateConfirmed PROVE Goal
  <2>1. PICK h \in handler :
          /\ objects' = [objects EXCEPT ![h.object] = WithConfirmed(@, h.state)]
          /\ published' = [published EXCEPT ![h.pool] = {h.state}]
    BY <1>3 DEF FinishUpdateConfirmed
  <2>2. handler' = {} /\ UNCHANGED <<tracked, feeder, adds, confirms>>
    BY <1>3 DEF FinishUpdateConfirmed
  <2>3. h.object \in DOMAIN objects /\ h.pool \in Pools /\ h.state \in State
    BY <1>0, <1>1 DEF Calls
  <2> DEFINE n == WithConfirmed(objects[h.object], h.state)
  <2>4. /\ n \in Object /\ OrderOK(n) /\ FixedOK(n) /\ n.confirmed = {h.state}
        /\ NoWrap(objects[h.object], n)
    BY <1>1, <2>3, WithConfirmedOK DEF ObjectsOK
  <2> HIDE DEF n
  <2>5. objects' = [objects EXCEPT ![h.object] = n]
    BY <2>1 DEF n
  <2>6. ObjectsStep
    BY <1>1, <2>3, <2>4, <2>5, ObjectsUpdate
  <2>7. /\ Len(objects') = Len(objects) /\ objects'[h.object] = n
        /\ \A i \in DOMAIN objects : i # h.object => objects'[i] = objects[i]
    BY <1>1, <2>3, <2>5 DEF ObjectsOK
  <2>8. TableOK'
    BY <1>1, <2>2, <2>7 DEF TableOK
  <2>9. Calls'
    BY <1>1, <2>1, <2>2, <2>3, <2>7 DEF Calls
  <2>10. ASSUME NEW p \in Pools PROVE published'[p] = Served(p)'
    <3>1. CASE p = h.pool
      <4>1. tracked'[p] = {h.object}
        BY <1>1, <2>2, <3>1
      <4>2. Served(p)' = {h.state}
        BY <2>4, <2>7, <4>1 DEF Served
      <4>3. published'[p] = {h.state}
        BY <1>1, <2>1, <3>1 DEF Calls
      <4> QED
        BY <4>2, <4>3
    <3>2. CASE p # h.pool
      <4>1. published'[p] = published[p] /\ published[p] = Served(p)
        BY <1>1, <2>1, <3>2 DEF Calls
      <4>2. \A i \in tracked[p] : i \in DOMAIN objects /\ i # h.object
        BY <1>0, <1>1, <2>3, <3>2 DEF TableOK
      <4>3. Served(p)' = Served(p)
        BY <2>2, <2>7, <4>2 DEF Served
      <4> QED
        BY <4>1, <4>3
    <3> QED
      BY <3>1, <3>2
  <2> QED
    BY <2>2, <2>6, <2>8, <2>9, <2>10
<1>4. ASSUME NEW p \in Pools, RemovePoolState(p) PROVE Goal
  <2>1. /\ handler = {} /\ tracked' = [tracked EXCEPT ![p] = {}] /\ objects' = objects
        /\ published' = [published EXCEPT ![p] = {}]
        /\ UNCHANGED <<handler, feeder, adds, confirms>>
    BY <1>4 DEF RemovePoolState, Forget
  <2>2. ObjectsStep
    BY <1>1, <2>1, ObjectsUnchanged
  <2>3. TableOK' /\ Calls'
    BY <1>1, <2>1 DEF TableOK, Calls
  <2>4. ASSUME NEW q \in Pools PROVE published'[q] = Served(q)'
    <3>1. CASE q = p
      BY <1>1, <2>1, <3>1 DEF Served, TableOK, Calls
    <3>2. CASE q # p
      <4>1. tracked'[q] = tracked[q] /\ published'[q] = published[q]
        BY <1>1, <2>1, <3>2 DEF TableOK, Calls
      <4> QED
        BY <1>1, <2>1, <4>1 DEF Served
    <3> QED
      BY <3>1, <3>2
  <2> QED
    BY <2>1, <2>2, <2>3, <2>4
<1>5. ASSUME NEW f \in Feeders, NEW p \in Pools, NEW tx \in TxHashes,
             NEW r \in Reserves, StartAddPending(f, p, tx, r)
      PROVE  Goal
  <2> DEFINE new == [object |-> ObjectOf(p), tx |-> tx, result |-> r]
  <2>1. /\ GetOrCreatePoolState(p, {}) /\ feeder' = [feeder EXCEPT ![f] = {new}]
        /\ adds' = adds + 1 /\ UNCHANGED <<handler, confirms, published>>
    BY <1>5 DEF StartAddPending
  <2>2. ObjectsStep
    BY <1>1, <2>1, ObjectsCreate
  <2>3. /\ 1..Len(objects) \subseteq 1..Len(objects') /\ TableOK'
        /\ ObjectOf(p) \in 1..Len(objects')
        /\ \A q \in Pools : tracked[q] # {} => tracked'[q] = tracked[q]
        /\ \A q \in Pools : Served(q)' = Served(q)
    BY <1>1, <2>1, LookUp
  <2>4. new \in [object: 1..Len(objects'), tx: TxHashes, result: Reserves]
    BY <2>3
  <2> HIDE DEF new
  <2>5. Calls'
    <3>1. feeder' \in [Feeders -> SUBSET
              [object: 1..Len(objects'), tx: TxHashes, result: Reserves]]
      BY <1>1, <2>1, <2>3, <2>4 DEF Calls
    <3>2. handler' \subseteq [object: 1..Len(objects'), pool: Pools, state: State]
      BY <1>1, <2>1, <2>3 DEF Calls
    <3> QED
      BY <1>1, <2>1, <3>1, <3>2 DEF Calls
  <2>6. \A h \in handler : h.pool \in Pools /\ tracked[h.pool] # {}
    BY <1>1 DEF Calls
  <2> QED
    BY <1>1, <2>1, <2>2, <2>3, <2>5, <2>6
<1>6. ASSUME NEW f \in Feeders, FinishAddPending(f) PROVE Goal
  <2>1. PICK c \in feeder[f] :
          objects' = [objects EXCEPT ![c.object] = WithPending(@, c.tx, c.result)]
    BY <1>6 DEF FinishAddPending
  <2>2. /\ feeder' = [feeder EXCEPT ![f] = {}]
        /\ UNCHANGED <<tracked, handler, adds, confirms, published>>
    BY <1>6 DEF FinishAddPending
  <2>3. c.object \in DOMAIN objects /\ c.tx \in TxHashes /\ c.result \in Reserves
    BY <1>0, <1>1 DEF Calls
  <2> DEFINE n == WithPending(objects[c.object], c.tx, c.result)
  <2>4. /\ n \in Object /\ OrderOK(n) /\ FixedOK(n)
        /\ n.confirmed = objects[c.object].confirmed /\ NoWrap(objects[c.object], n)
    BY <1>1, <2>3, WithPendingOK DEF ObjectsOK
  <2> HIDE DEF n
  <2>5. objects' = [objects EXCEPT ![c.object] = n]
    BY <2>1 DEF n
  <2>6. ObjectsStep
    BY <1>1, <2>3, <2>4, <2>5, ObjectsUpdate
  <2>7. /\ Len(objects') = Len(objects)
        /\ \A i \in DOMAIN objects : objects'[i].confirmed = objects[i].confirmed
    BY <1>1, <2>3, <2>4, <2>5 DEF ObjectsOK
  <2>8. TableOK' /\ Calls'
    BY <1>1, <2>2, <2>7 DEF TableOK, Calls
  <2>9. \A p \in Pools : Served(p)' = Served(p)
    BY <1>0, <1>1, <2>2, <2>7 DEF Served, TableOK
  <2> QED
    BY <1>1, <2>2, <2>6, <2>8, <2>9
<1>7. ASSUME NEW tx \in TxHashes, RemovePendingTx(tx) PROVE Goal
  <2>1. /\ ObjectsStep /\ DOMAIN objects' = DOMAIN objects
        /\ \A i \in DOMAIN objects : objects'[i].confirmed = objects[i].confirmed
    BY <1>1, <1>7, ObjectsRemove
  <2>2. UNCHANGED <<tracked, handler, feeder, adds, confirms, published>>
    BY <1>7 DEF RemovePendingTx
  <2>3. Len(objects') = Len(objects)
    BY <1>1, <2>1 DEF ObjectsStep, ObjectsOK
  <2>4. TableOK' /\ Calls'
    BY <1>1, <2>2, <2>3 DEF TableOK, Calls
  <2>5. \A p \in Pools : Served(p)' = Served(p)
    BY <1>0, <1>1, <2>1, <2>2 DEF Served, TableOK
  <2> QED
    BY <1>1, <2>1, <2>2, <2>4, <2>5
<1>8. ASSUME UNCHANGED vars PROVE Goal
  <2>1. ObjectsStep
    BY <1>1, <1>8, ObjectsUnchanged DEF vars
  <2>2. TableOK' /\ Calls' /\ \A p \in Pools : Served(p)' = Served(p)
    BY <1>1, <1>8 DEF vars, TableOK, Calls, Served
  <2> QED
    BY <1>1, <1>8, <2>1, <2>2 DEF vars
<1>9. Goal
  BY <1>2, <1>3, <1>4, <1>5, <1>6, <1>7, <1>8 DEF Next
<1>10. MempoolInv' <=> /\ ObjectsOK' /\ TableOK' /\ Calls'
                       /\ \A g, h \in handler' : g = h
                       /\ \A h \in handler' : tracked'[h.pool] = {h.object}
                       /\ \A p \in Pools : (\A h \in handler' : h.pool # p)
                                              => published'[p] = Served(p)'
  BY DEF MempoolInv, TypeOK, ObjectsOK, TableOK, Calls, Tracking
<1> QED
  BY <1>9, <1>10 DEF ObjectsStep

-----------------------------------------------------------------------------
(* The specification                                                       *)

\* The mempool view keeps its invariant.
THEOREM MempoolCorrect == Spec => []MempoolInv
<1>1. Init => MempoolInv
  BY EmptySeq DEF Init, MempoolInv, TypeOK, Tracking, Served
<1>2. MempoolInv /\ [Next]_vars => MempoolInv'
  BY MempoolStep
<1> QED
  BY <1>1, <1>2, PTL DEF Spec

\* Every variable keeps its type; no delta leaves the int64 range.
THEOREM TypeCorrect == Spec => []TypeOK
<1>1. MempoolInv => TypeOK
  BY DEF MempoolInv
<1> QED
  BY <1>1, MempoolCorrect, PTL

\* GetPendingTxs returns every pending effect exactly once.
THEOREM OrderCorrect == Spec => []OrderMatchesPending
<1>1. MempoolInv => OrderMatchesPending
  BY DEF MempoolInv, OrderOK, OrderMatchesPending
<1> QED
  BY <1>1, MempoolCorrect, PTL

\* Rebasing keeps the resulting reserves of pending transactions.
THEOREM ResultsFixed == Spec => []ResultIsFixed
<1>1. MempoolInv => ResultIsFixed
  BY DEF MempoolInv, FixedOK, ResultIsFixed
<1> QED
  BY <1>1, MempoolCorrect, PTL

\* The manager serves the state the handler published last.
THEOREM ServesPublished == Spec => []ServesWhatWasPublished
<1>1. MempoolInv => ServesWhatWasPublished
  BY DEF MempoolInv, Tracking, Served, ServesWhatWasPublished
<1> QED
  BY <1>1, MempoolCorrect, PTL

\* No computation of a delta wraps around.
THEOREM NeverWraps == Spec => DeltasNeverWrap
<1>1. MempoolInv /\ [Next]_vars =>
        [\A i \in DOMAIN objects : NoWrap(objects[i], objects'[i])]_vars
  BY MempoolStep DEF ObjectsStep
<1> QED
  BY <1>1, MempoolCorrect, PTL DEF Spec, DeltasNeverWrap
=============================================================================
