---------------------------- MODULE PricesProofs ----------------------------
(***************************************************************************)
(* A pool never loses on a swap, whatever its reserves, its fee and the    *)
(* amount put in, and the transaction that fills an order balances,        *)
(* whatever the pool, the order and the wallet; the Djed tracker holds the *)
(* ledger's unspent oracle outputs, over every sequence of blocks,         *)
(* redeliveries, rollbacks and prunings, and pruning it behind a horizon   *)
(* cannot be noticed; the TWAP engine averages all the prices on the chain *)
(* whatever it pruned, rolled back, saved and restored; the ADA/USD price  *)
(* is the liquidity-weighted median of the newest confirmed pool states,   *)
(* whatever their number, their order and their weights.                   *)
(***************************************************************************)
EXTENDS Prices, FiniteSetTheorems, SequenceTheorems, NaturalsInduction, WellFoundedInduction, TLAPS

-----------------------------------------------------------------------------
(* The arithmetic of a Spectrum pool                                       *)

\* Multiplication by a natural number keeps an inequality.
LEMMA TimesMonotone ==
    ASSUME NEW a \in Nat, NEW b \in Nat, NEW c \in Nat, a <= b
    PROVE  a * c <= b * c
<1>1. PICK k \in Nat : b = a + k
  <2>1. b - a \in Nat OBVIOUS
  <2>2. b = a + (b - a) OBVIOUS
  <2> QED BY <2>1, <2>2
<1>2. b * c = a * c + k * c
  BY <1>1
<1>3. k * c \in Nat /\ a * c \in Nat
  BY <1>1
<1> QED BY <1>2, <1>3

\* A positive factor can be cancelled.
LEMMA TimesCancel ==
    ASSUME NEW a \in Nat, NEW b \in Nat, NEW c \in Nat \ {0}, a * c <= b * c
    PROVE  a <= b
<1> SUFFICES ASSUME b + 1 <= a PROVE FALSE
  OBVIOUS
<1>1. (b + 1) * c <= a * c
  BY TimesMonotone
<1>2. (b + 1) * c = b * c + c
  OBVIOUS
<1>3. b * c \in Nat /\ a * c \in Nat
  OBVIOUS
<1> QED BY <1>1, <1>2, <1>3

\* The quotient times the divisor is at most the dividend.
LEMMA QuotientBelow ==
    ASSUME NEW n \in Nat, NEW d \in Nat \ {0}
    PROVE  n \div d \in Nat /\ (n \div d) * d <= n
OBVIOUS

-----------------------------------------------------------------------------
\* With a fee of at most the whole input, what PaidOut returns, times the
\* reserve after the swap, is at most the input times the other reserve.
LEMMA PaidOutIsFair ==
    ASSUME NEW in \in Nat \ {0}, NEW out \in Nat, NEW amount \in Nat,
           NEW feeNum \in 1..FeeDenom
    PROVE  /\ PaidOut(in, out, amount, feeNum) \in Nat
           /\ PaidOut(in, out, amount, feeNum) * (in + amount) <= out * amount
<1> DEFINE d == Divisor(in, amount, feeNum)
           n == feeNum * (out * amount)
           r == PaidOut(in, out, amount, feeNum)
<1>1. FeeDenom \in Nat \ {0} /\ feeNum \in Nat \ {0} /\ feeNum <= FeeDenom
  BY SwapPoolAssumption
<1>2. d = in * FeeDenom + amount * feeNum
  BY DEF Divisor
<1>3. in * feeNum \in Nat /\ in * FeeDenom \in Nat /\ amount * feeNum \in Nat
  BY <1>1
<1>4. feeNum * in <= FeeDenom * in
  BY <1>1, TimesMonotone
<1>5. d \in Nat \ {0}
  <2>1. 1 <= feeNum * in
    <3>1. 1 * in <= feeNum * in
      BY <1>1, TimesMonotone
    <3> QED BY <3>1
  <2>2. in * FeeDenom = FeeDenom * in
    BY <1>1
  <2> QED BY <1>2, <1>3, <1>4, <2>1, <2>2
<1>6. n \in Nat
  BY <1>1
<1>7. r \in Nat /\ r * d <= n
  <2>1. r = n \div d
    BY DEF PaidOut
  <2> HIDE DEF d, n, r
  <2> QED BY <1>5, <1>6, <2>1, QuotientBelow
<1>8. (in + amount) * feeNum <= d
  <2>1. (in + amount) * feeNum = in * feeNum + amount * feeNum
    BY <1>1
  <2>2. in * feeNum <= in * FeeDenom
    BY <1>1, <1>4
  <2> QED BY <1>2, <1>3, <2>1, <2>2
<1>9. (r * (in + amount)) * feeNum <= (out * amount) * feeNum
  <2> HIDE DEF d, n, r
  <2>1. (in + amount) * feeNum \in Nat
    BY <1>1
  <2>2. ((in + amount) * feeNum) * r <= d * r
    BY <1>5, <1>7, <1>8, <2>1, TimesMonotone
  <2>3. ((in + amount) * feeNum) * r = (r * (in + amount)) * feeNum
    BY <1>1, <1>7
  <2>4. d * r = r * d
    BY <1>5, <1>7
  <2>5. n = (out * amount) * feeNum
    BY <1>1 DEF n
  <2>6. d * r \in Nat /\ (r * (in + amount)) * feeNum \in Nat
    BY <1>1, <1>5, <1>7
  <2> QED BY <1>6, <1>7, <2>2, <2>3, <2>4, <2>5, <2>6
<1>10. r * (in + amount) <= out * amount
  <2> HIDE DEF d, n, r
  <2>1. r * (in + amount) \in Nat /\ out * amount \in Nat
    BY <1>7
  <2> QED BY <1>1, <1>9, <2>1, TimesCancel
<1> QED BY <1>7, <1>10

\* OutputForInput and CalculateReturnToPool, on the amounts: for all positive
\* reserves and any fee of the pool, a swap pays out no more than the reserve,
\* and the product of the reserves does not fall.
THEOREM PoolNeverLoses ==
    ASSUME NEW in \in Nat \ {0}, NEW out \in Nat, NEW amount \in Nat,
           NEW feeNum \in 1..FeeDenom
    PROVE  LET r == PaidOut(in, out, amount, feeNum)
           IN  r <= out /\ in * out <= (in + amount) * (out - r)
<1> DEFINE r == PaidOut(in, out, amount, feeNum)
<1>1. r \in Nat /\ r * (in + amount) <= out * amount
  BY PaidOutIsFair
<1> HIDE DEF r
<1>2. in + amount \in Nat \ {0}
  OBVIOUS
<1>3. (in + amount) * (out - r) = in * out + amount * out - r * (in + amount)
  BY <1>1
<1>4. in * out <= (in + amount) * (out - r)
  <2>1. out * amount = amount * out
    OBVIOUS
  <2>2. in * out \in Nat /\ amount * out \in Nat /\ r * (in + amount) \in Nat
    BY <1>1
  <2> QED BY <1>1, <1>3, <2>1, <2>2
<1>5. r <= out
  <2>1. out * amount <= out * (in + amount)
    <3>1. amount * out <= (in + amount) * out
      BY TimesMonotone
    <3> QED BY <3>1
  <2>2. r * (in + amount) <= out * (in + amount)
    BY <1>1, <2>1
  <2> QED BY <1>1, <1>2, <2>2, TimesCancel
<1> QED BY <1>4, <1>5 DEF r

-----------------------------------------------------------------------------
(* The swap transaction                                                    *)

\* A set of naturals has a least element: induction without a predicate.
LEMMA LeastOf ==
    ASSUME NEW T \in SUBSET Nat, T # {}
    PROVE  \E x \in T : \A y \in T : ~(y < x)
<1>1. IsWellFoundedOn(OpToRel(<, Nat), Nat)
  BY NatLessThanWellFounded
<1>2. \E x \in T : \A y \in T : ~(<<y, x>> \in OpToRel(<, Nat))
  BY <1>1, WFMin
<1>3. \A x, y \in Nat : <<x, y>> \in OpToRel(<, Nat) <=> x < y
  BY DEF OpToRel
<1> QED
  BY <1>2, <1>3

\* The division of a proper swap has a divisor.
LEMMA DivisorPositive ==
    ASSUME NEW in \in Nat \ {0}, NEW amount \in Nat, NEW feeNum \in Nat
    PROVE  Divisor(in, amount, feeNum) # 0
<1>1. FeeDenom \in Nat \ {0}
  BY SwapPoolAssumption
<1>2. 1 * FeeDenom <= in * FeeDenom
  BY <1>1, TimesMonotone
<1>3. in * FeeDenom \in Nat /\ amount * feeNum \in Nat
  BY <1>1
<1> QED
  BY <1>1, <1>2, <1>3 DEF Divisor

\* What fits a word is not cut.
LEMMA WordOf ==
    ASSUME NEW n \in 0..MaxWord
    PROVE  Word(n) = n
<1>1. MaxWord \in Nat
  BY SwapPoolAssumption
<1> QED
  BY <1>1 DEF Word

\* The asset class that an order takes out of the pool.
Quote(p, order) == IF order.base = p.x THEN p.y ELSE p.x

\* What a proper order puts in and takes out, before anything is checked.
LEMMA ProperSwap ==
    ASSUME NEW p \in PoolOutputs, NEW order \in Orders, IsProper(p, order),
           NEW b, b = order.base, NEW q, q = Quote(p, order),
           NEW in, in = p.value[b], NEW out, out = p.value[q],
           NEW amount, amount = order.baseAmount,
           NEW r, r = PaidOut(in, out, amount, p.feeNum)
    PROVE  /\ b \in Classes \ {Nft, Lq} /\ q \in Classes \ {Nft, Lq} /\ b # q /\ Ada \in {b, q}
           /\ in \in 1..MaxWord /\ out \in 1..MaxWord /\ amount \in 0..MaxWord
           /\ in + amount \in 0..MaxWord
           /\ r \in Nat /\ r <= out /\ in * out <= (in + amount) * (out - r)
           /\ Divisor(in, amount, p.feeNum) # 0
           /\ OutputForInput(NewPool(p), b, amount) = [class |-> q, amount |-> r]
           /\ Asset(NewPool(p), b) = [class |-> b, amount |-> in]
           /\ Asset(NewPool(p), q) = [class |-> q, amount |-> out]
<1>0. MaxWord \in Nat \ {0} /\ FeeDenom \in Nat \ {0}
  BY SwapPoolAssumption
<1>1. /\ b \in Classes \ {Nft, Lq} /\ q \in Classes \ {Nft, Lq} /\ b # q /\ Ada \in {b, q}
      /\ {b, q} = {p.x, p.y} /\ p.x # p.y /\ ((b = p.x /\ q = p.y) \/ (b = p.y /\ q = p.x))
  BY DEF IsProper, Quote
<1>2. in \in 1..MaxWord /\ out \in 1..MaxWord /\ amount \in 0..MaxWord
  <2>1. p.value \in [Classes -> 0..MaxWord] /\ amount \in 0..MaxWord
    BY SwapFillAssumption
  <2>2. in \in 0..MaxWord /\ out \in 0..MaxWord
    BY <1>1, <2>1
  <2>3. in > 0 /\ out > 0
    BY <1>1 DEF IsProper
  <2> QED
    BY <1>0, <2>1, <2>2, <2>3
<1>3. in + amount \in 0..MaxWord
  <2>1. in + amount <= MaxWord
    BY DEF IsProper
  <2> QED
    BY <1>0, <1>2, <2>1
<1>4. p.feeNum \in 1..FeeDenom /\ p.feeNum \in Nat
  BY <1>0 DEF IsProper
<1>5. in \in Nat \ {0} /\ out \in Nat /\ amount \in Nat
  BY <1>0, <1>2
<1>6. r \in Nat /\ r <= out /\ in * out <= (in + amount) * (out - r)
  <2>1. r \in Nat
    BY <1>4, <1>5, PaidOutIsFair
  <2>2. r <= out /\ in * out <= (in + amount) * (out - r)
    BY <1>4, <1>5, PoolNeverLoses
  <2> QED
    BY <2>1, <2>2
<1>7. Divisor(in, amount, p.feeNum) # 0
  BY <1>4, <1>5, DivisorPositive
<1>8. Word(r) = r
  <2>1. r \in 0..MaxWord
    BY <1>0, <1>2, <1>6
  <2> QED
    BY <2>1, WordOf
<1>9. /\ NewPool(p).x.class = p.x /\ NewPool(p).x.amount = p.value[p.x]
      /\ NewPool(p).y.class = p.y /\ NewPool(p).y.amount = p.value[p.y]
      /\ NewPool(p).x = [class |-> p.x, amount |-> p.value[p.x]]
      /\ NewPool(p).y = [class |-> p.y, amount |-> p.value[p.y]]
      /\ NewPool(p).feeNum = p.feeNum
  BY DEF NewPool
<1>10. /\ Asset(NewPool(p), b) = [class |-> b, amount |-> in]
       /\ Asset(NewPool(p), q) = [class |-> q, amount |-> out]
  BY <1>1, <1>9 DEF Asset
<1>11. OutputForInput(NewPool(p), b, amount) = [class |-> q, amount |-> r]
  <2>1. CASE b = p.x /\ q = p.y
    BY <1>8, <1>9, <2>1 DEF OutputForInput
  <2>2. CASE b = p.y /\ q = p.x
    BY <1>1, <1>8, <1>9, <2>2 DEF OutputForInput
  <2> QED
    BY <1>1, <2>1, <2>2
<1> QED
  BY <1>1, <1>2, <1>3, <1>6, <1>7, <1>10, <1>11

\* What goes back to the pool, by asset class.
Returned(p, b, q, in, out, amount, r, back) ==
    /\ b # q /\ Ada \in {b, q} /\ {b, q} \cap {Nft, Lq} = {} /\ in + amount \in 0..MaxWord
    /\ Asset(NewPool(p), b) = [class |-> b, amount |-> in]
    /\ Asset(NewPool(p), q) = [class |-> q, amount |-> out]
    /\ back = CalculateReturnToPool(NewPool(p), [class |-> b, amount |-> amount],
                                    [class |-> q, amount |-> r])

\* It is the pool's tokens, with the input added and the output taken away.
LEMMA ReturnToPool ==
    ASSUME NEW p, NEW b, NEW q, NEW in, NEW out, NEW amount, NEW r, NEW back,
           Returned(p, b, q, in, out, amount, r, back)
    PROVE  /\ DOMAIN back = Classes /\ back = [c \in Classes |-> back[c]]
           /\ \A c \in Classes :
                 back[c] = IF c = Nft THEN 1 ELSE IF c = Lq THEN p.value[Lq]
                           ELSE IF c = b THEN in + amount
                           ELSE IF c = q THEN out - r ELSE 0
<1>1. Word(in + amount) = in + amount
  BY WordOf DEF Returned
<1>2. NewPool(p).lq = p.value[Lq]
  BY DEF NewPool
<1>3. Nft # Lq
  BY SwapPoolAssumption
<1>4. back = [c \in Classes |->
                 CASE c = Nft -> 1
                   [] c = Lq -> p.value[Lq]
                   [] c = b /\ Ada \in {b, q} -> in + amount
                   [] c = q /\ Ada \in {b, q} -> out - r
                   [] OTHER -> 0]
  BY <1>1, <1>2 DEF Returned, CalculateReturnToPool
<1> QED
  BY <1>3, <1>4 DEF Returned

\* The matcher fee is a number when the datum's fraction is one.
LEMMA FeeIsNumber ==
    ASSUME NEW order \in Orders, NEW k \in Roundings,
           order.feePerTokenNum # Nil, order.feePerTokenDen \notin {Nil, 0}
    PROVE  MatcherFee(order, k) \in Int
<1>1. order.feePerTokenNum \in Int /\ order.feePerTokenDen \in Int \ {0}
      /\ order.minQuote \in Nat /\ k \in Int /\ MaxWord \in Int
  <2>1. {order.feePerTokenNum, order.feePerTokenDen} \subseteq Int \cup {Nil}
    BY SwapFillAssumption
  <2>2. order.minQuote \in 0..MaxWord /\ k \in Int
    BY SwapFillAssumption
  <2>3. MaxWord \in Nat
    BY SwapPoolAssumption
  <2> QED
    BY <2>1, <2>2, <2>3
<1>2. PICK n, d : n = AbsOf(order.feePerTokenNum) /\ d = AbsOf(order.feePerTokenDen)
  OBVIOUS
<1>3. n \in Nat /\ d \in Nat \ {0}
  BY <1>1, <1>2 DEF AbsOf
<1>4. order.minQuote * n \in Nat
  BY <1>1, <1>3
<1>5. (order.minQuote * n) \div d \in Nat
  BY <1>3, <1>4, QuotientBelow
<1>6. (order.minQuote * n) \div d + k \in Int
  BY <1>1, <1>5
<1> QED
  BY <1>1, <1>2, <1>6 DEF MatcherFee

\* What is numbered 1 and 2 has two elements.
LEMMA TwoLong ==
    ASSUME NEW n \in Nat, 1..n = 1..2
    PROVE  n = 2
<1>1. 2 \in 1..n /\ 3 \notin 1..n
  OBVIOUS
<1> QED
  BY <1>1

\* Of two inputs the lesser one comes first, and has the index 0.
LEMMA TwoInputs ==
    ASSUME NEW a \in Nat, NEW b \in Nat, a < b, NEW refs, refs = {a, b}
    PROVE  /\ SortedInputIndex(refs, a) = 0 /\ SortedInputIndex(refs, b) = 1
           /\ Len(SortedInputs(refs)) = 2
           /\ SortedInputs(refs)[1] = a /\ SortedInputs(refs)[2] = b
<1>1. {r \in refs : r < a} = {} /\ {r \in refs : r < b} = {a}
  OBVIOUS
<1>2. Cardinality({}) = 0 /\ Cardinality({a}) = 1
  BY FS_EmptySet, FS_Singleton
<1>3. Cardinality(refs) = 2
  <2>1. IsFiniteSet({a}) /\ b \notin {a} /\ refs = {a} \cup {b}
    BY FS_Singleton
  <2> QED
    BY <1>2, <2>1, FS_AddElement
<1> DEFINE P(s) == \A i, j \in DOMAIN s : i < j => s[i] < s[j]
           S == [1..2 -> refs]
           w == [i \in 1..2 |-> IF i = 1 THEN a ELSE b]
           c == CHOOSE s \in S : P(s)
<1>4. w \in S /\ P(w)
  OBVIOUS
<1>5. c \in S /\ P(c)
  <2> HIDE DEF P, S, w
  <2> QED
    BY <1>4
<1>6. c = SortedInputs(refs)
  BY <1>3 DEF SortedInputs
<1> HIDE DEF c
<1>7. c[1] \in {a, b} /\ c[2] \in {a, b} /\ DOMAIN c = 1..2
  BY <1>5
<1>8. c[1] < c[2]
  BY <1>5, <1>7
<1>9. c[1] = a /\ c[2] = b
  BY <1>7, <1>8
<1>10. Len(c) = 2
  <2>1. c \in Seq(refs)
    <3>1. c \in [1..2 -> refs] /\ 2 \in Nat
      BY <1>5
    <3> QED
      BY ONLY <3>1, SeqDef
  <2>2. Len(c) \in Nat /\ 1..Len(c) = 1..2
    BY <1>7, <2>1, LenProperties
  <2> QED
    BY ONLY <2>2, TwoLong
<1> QED
  BY <1>1, <1>2, <1>6, <1>9, <1>10 DEF SortedInputIndex

\* The redeemers' indexes, counted before the transaction is built, are those
\* of the inputs it has.
LEMMA InputsAreValid ==
    ASSUME NEW a \in Nat, NEW b \in Nat, a # b, NEW refs, refs = {a, b}
    PROVE  ValidateSwapTxInputs(SortedInputs(refs), a, b,
                                SortedInputIndex(refs, a), SortedInputIndex(refs, b))
<1>1. CASE a < b
  <2>1. /\ SortedInputIndex(refs, a) = 0 /\ SortedInputIndex(refs, b) = 1
        /\ Len(SortedInputs(refs)) = 2
        /\ SortedInputs(refs)[1] = a /\ SortedInputs(refs)[2] = b
    BY <1>1, TwoInputs
  <2> QED
    BY <2>1 DEF ValidateSwapTxInputs
<1>2. CASE b < a
  <2>1. refs = {b, a}
    OBVIOUS
  <2>2. /\ SortedInputIndex(refs, b) = 0 /\ SortedInputIndex(refs, a) = 1
        /\ Len(SortedInputs(refs)) = 2
        /\ SortedInputs(refs)[1] = b /\ SortedInputs(refs)[2] = a
    BY <1>2, <2>1, TwoInputs
  <2> QED
    BY <2>2 DEF ValidateSwapTxInputs
<1> QED
  BY <1>1, <1>2

\* The collateral is the wallet's least output that suffices.
LEMMA LeastCollateral ==
    ASSUME NEW wallet \in Wallets, \E i \in DOMAIN wallet : IsCollateral(wallet[i]),
           NEW u, u = SelectCollateralUtxo(wallet)
    PROVE  /\ u \in Range(wallet) /\ IsCollateral(u)
           /\ \A v \in Range(wallet) : IsCollateral(v) => u.value[Ada] <= v.value[Ada]
<1> DEFINE fit == {i \in DOMAIN wallet : IsCollateral(wallet[i])}
           amount(i) == wallet[i].value[Ada]
           First(i) == \A j \in fit :
                          amount(i) < amount(j) \/ (amount(i) = amount(j) /\ i <= j)
<1>1. fit # {} /\ DOMAIN wallet \subseteq Nat /\ \A i \in DOMAIN wallet : amount(i) \in Nat
  <2> DEFINE U == [value : [Classes -> 0..MaxWord], ownedByKey : BOOLEAN]
  <2>1. wallet \in Seq(U)
    BY SwapFillAssumption
  <2>2. \A v \in U : v.value \in [Classes -> 0..MaxWord]
    OBVIOUS
  <2> HIDE DEF U
  <2>3. /\ DOMAIN wallet = 1..Len(wallet) /\ Len(wallet) \in Nat
        /\ \A i \in DOMAIN wallet : wallet[i] \in U
    BY <2>1
  <2>4. \A i \in DOMAIN wallet : wallet[i].value \in [Classes -> 0..MaxWord]
    BY <2>2, <2>3
  <2>5. Ada \in Classes /\ MaxWord \in Nat
    BY SwapPoolAssumption DEF Classes
  <2>6. \A i \in DOMAIN wallet : wallet[i].value[Ada] \in 0..MaxWord
    BY <2>4, <2>5
  <2> QED
    BY <2>3, <2>5, <2>6
<1>2. \A i \in fit : i \in DOMAIN wallet /\ IsCollateral(wallet[i])
  OBVIOUS
<1>3. u = wallet[CHOOSE i \in fit : First(i)]
  BY DEF SelectCollateralUtxo
<1>4. \A i \in DOMAIN wallet : IsCollateral(wallet[i]) => i \in fit
  OBVIOUS
<1>5. \E i \in fit : First(i)
  <2> DEFINE A == {amount(i) : i \in fit}
  <2>1. A \in SUBSET Nat /\ A # {}
    BY <1>1
  <2>2. PICK m \in A : \A n \in A : ~(n < m)
    <3> HIDE DEF A
    <3> QED
      BY <2>1, LeastOf
  <2> DEFINE B == {i \in fit : amount(i) = m}
  <2>3. B \in SUBSET Nat /\ B # {}
    BY <1>1
  <2>4. PICK i \in B : \A j \in B : ~(j < i)
    <3> HIDE DEF B
    <3> QED
      BY <2>3, LeastOf
  <2>5. i \in fit /\ amount(i) = m /\ i \in Nat /\ m \in Nat
    BY <1>1
  <2> HIDE DEF amount, fit
  <2>6. ASSUME NEW j \in fit
        PROVE  amount(i) < amount(j) \/ (amount(i) = amount(j) /\ i <= j)
    <3>1. amount(j) \in A /\ amount(j) \in Nat /\ j \in Nat
      BY <1>1, <1>2
    <3>2. ~(amount(j) < m)
      BY <2>2, <3>1
    <3>3. CASE amount(j) = m
      BY <2>4, <2>5, <3>1, <3>3
    <3>4. CASE amount(j) # m
      BY <2>5, <3>1, <3>2, <3>4
    <3> QED
      BY <3>3, <3>4
  <2> QED
    BY <2>5, <2>6
<1> DEFINE k == CHOOSE i \in fit : First(i)
<1>6. k \in fit /\ First(k)
  <2> HIDE DEF fit, First
  <2> QED
    BY <1>5
<1>7. u = wallet[k]
  BY <1>3
<1> HIDE DEF k, fit
<1>8. k \in DOMAIN wallet /\ IsCollateral(u) /\ u \in Range(wallet)
  BY <1>2, <1>6, <1>7 DEF Range
<1>9. ASSUME NEW v \in Range(wallet), IsCollateral(v) PROVE u.value[Ada] <= v.value[Ada]
  <2>1. PICK j \in DOMAIN wallet : v = wallet[j]
    BY DEF Range
  <2>2. j \in fit
    BY <1>4, <1>9, <2>1
  <2>3. amount(k) <= amount(j)
    BY <1>1, <1>6, <1>8, <2>1, <2>2
  <2> QED
    BY <1>7, <2>1, <2>3
<1> QED
  BY <1>8, <1>9

\* Total, of two, three and four values.
LEMMA TotalOf ==
    ASSUME NEW s, NEW n \in 2..4, DOMAIN s = 1..n, NEW c \in Classes,
           \A i \in 1..n : s[i][c] \in Int
    PROVE  /\ n = 2 => Total(s)[c] = s[1][c] + s[2][c]
           /\ n = 3 => Total(s)[c] = s[1][c] + s[2][c] + s[3][c]
           /\ n = 4 => Total(s)[c] = s[1][c] + s[2][c] + s[3][c] + s[4][c]
<1> DEFINE at(i, x) == IF i \in DOMAIN s THEN s[i][x] ELSE 0
<1>1. Total(s)[c] = at(1, c) + at(2, c) + at(3, c) + at(4, c)
  BY DEF Total
<1>2. CASE n = 2
  <2>1. /\ 1 \in 1..n /\ 2 \in 1..n /\ 3 \notin 1..n /\ 4 \notin 1..n
    BY <1>2
  <2>2. /\ at(1, c) = s[1][c] /\ at(2, c) = s[2][c] /\ at(3, c) = 0 /\ at(4, c) = 0
        /\ s[1][c] \in Int /\ s[2][c] \in Int
    BY <2>1
  <2> QED
    BY <1>1, <1>2, <2>2
<1>3. CASE n = 3
  <2>1. /\ 1 \in 1..n /\ 2 \in 1..n /\ 3 \in 1..n /\ 4 \notin 1..n
    BY <1>3
  <2>2. /\ at(1, c) = s[1][c] /\ at(2, c) = s[2][c] /\ at(3, c) = s[3][c] /\ at(4, c) = 0
        /\ s[1][c] \in Int /\ s[2][c] \in Int /\ s[3][c] \in Int
    BY <2>1
  <2> QED
    BY <1>1, <1>3, <2>2
<1>4. CASE n = 4
  <2>1. /\ 1 \in 1..n /\ 2 \in 1..n /\ 3 \in 1..n /\ 4 \in 1..n
    BY <1>4
  <2>2. /\ at(1, c) = s[1][c] /\ at(2, c) = s[2][c] /\ at(3, c) = s[3][c]
        /\ at(4, c) = s[4][c]
    BY <2>1
  <2> QED
    BY <1>1, <1>4, <2>2
<1> QED
  BY <1>2, <1>3, <1>4

\* What is left of the inputs is what the balance lacks.
LEMMA Balance ==
    ASSUME NEW a \in Int, NEW b \in Int, NEW fee \in Int,
           NEW r \in Int, NEW s \in Int, NEW t \in Int,
           NEW left, left = a + b - fee - (r + s + t)
    PROVE  r + s + t + left + fee = a + b
OBVIOUS

\* An output more.
LEMMA OneAppended ==
    ASSUME NEW S, NEW s \in Seq(S), NEW z \in S, NEW n \in Nat, n = Len(s)
    PROVE  /\ Append(s, z) # s
           /\ Len(Append(s, z)) = n + 1 /\ DOMAIN Append(s, z) = 1..(n + 1)
           /\ Append(s, z)[n + 1] = z /\ \A i \in 1..n : Append(s, z)[i] = s[i]
<1>1. Append(s, z) \in Seq(S) /\ Len(Append(s, z)) = n + 1
  BY AppendProperties
<1>2. Append(s, z)[n + 1] = z /\ \A i \in 1..n : Append(s, z)[i] = s[i]
  BY AppendProperties
<1> QED
  BY <1>1, <1>2

\* The places of three or four outputs.
LEMMA FirstFour ==
    ASSUME NEW n \in {3, 4}, NEW i \in 1..n
    PROVE  i = 1 \/ i = 2 \/ i = 3 \/ (i = 4 /\ n = 4)
OBVIOUS

\* The outputs that createSwapTx adds, in its order.
Paying(back, reward, change) ==
    <<[to |-> "pool", value |-> back], [to |-> "trader", value |-> reward],
      [to |-> "wallet", value |-> AdaOnly(change)]>>

\* What is paid and the fee are covered by the two inputs.
Covers(p, order, v, w, back, reward, change) ==
    /\ p.ref \in Nat /\ order.ref \in Nat /\ p.ref # order.ref
    /\ v \in [Classes -> Nat] /\ v = p.value
    /\ w \in [Classes -> Nat] /\ w = order.value
    /\ back \in [Classes -> Nat] /\ reward \in [Classes -> Nat]
    /\ change \in Nat /\ SwapTxFee \in Nat
    /\ \A c \in Classes : back[c] + reward[c] + AdaOnly(change)[c] + AdaOnly(SwapTxFee)[c]
                              <= v[c] + w[c]

\* The transaction pays what it should, and balances.
IsBuilt(tx, p, order, v, w, back, reward, change, u) ==
    /\ tx.status = "built" /\ tx.collateral = u /\ tx.rewardIdx = 1
    /\ tx.inputs[tx.poolIdx + 1] = p.ref /\ tx.inputs[tx.swapIdx + 1] = order.ref
    /\ Len(tx.outputs) \in 3..4
    /\ \A i \in 1..3 : tx.outputs[i] = Paying(back, reward, change)[i]
    /\ \A i \in 1..Len(tx.outputs) : tx.outputs[i].value \in [Classes -> Nat]
    /\ \A c \in Classes :
          Total([i \in DOMAIN tx.outputs |-> tx.outputs[i].value])[c]
            + AdaOnly(SwapTxFee)[c] = v[c] + w[c]

\* Amounts that the inputs cover make a transaction that balances.
LEMMA BuiltSwap ==
    ASSUME NEW p, NEW order, NEW v, NEW w, NEW back, NEW reward, NEW change, NEW u,
           Covers(p, order, v, w, back, reward, change),
           NEW tx, tx = BuildSwapTx(p, order, back, reward, change, u)
    PROVE  IsBuilt(tx, p, order, v, w, back, reward, change, u)
<1> DEFINE outs == Paying(back, reward, change)
           left == Left(<<v, w>>, outs)
           refs == {p.ref, order.ref}
           x == AdaOnly(change)
           fee == AdaOnly(SwapTxFee)
<1>0. /\ p.ref \in Nat /\ order.ref \in Nat /\ p.ref # order.ref
      /\ v = p.value /\ w = order.value /\ change \in Nat /\ SwapTxFee \in Nat
      /\ v \in [Classes -> Nat] /\ w \in [Classes -> Nat]
      /\ back \in [Classes -> Nat] /\ reward \in [Classes -> Nat]
  BY DEF Covers
<1>1. x \in [Classes -> Nat] /\ fee \in [Classes -> Nat]
  BY <1>0 DEF AdaOnly
<1>2. /\ DOMAIN outs = 1..3 /\ Len(outs) = 3
      /\ outs[1].value = back /\ outs[2].value = reward /\ outs[3].value = x
      /\ outs[1] = [to |-> "pool", value |-> back]
      /\ outs[2] = [to |-> "trader", value |-> reward]
      /\ outs[3] = [to |-> "wallet", value |-> x]
  BY DEF Paying
<1>3. ASSUME NEW c \in Classes
      PROVE  /\ v[c] \in Nat /\ w[c] \in Nat /\ back[c] \in Nat /\ reward[c] \in Nat
             /\ x[c] \in Nat /\ fee[c] \in Nat
  BY <1>0, <1>1, <1>3
<1> HIDE DEF x, fee, outs
<1>4. ASSUME NEW c \in Classes
      PROVE  left[c] = v[c] + w[c] - fee[c] - (back[c] + reward[c] + x[c])
  <2> DEFINE s == [i \in DOMAIN outs |-> outs[i].value]
             in == <<v, w>>
  <2>1. DOMAIN in = 1..2 /\ in[1] = v /\ in[2] = w
    OBVIOUS
  <2>2. DOMAIN s = 1..3 /\ s[1] = back /\ s[2] = reward /\ s[3] = x
    BY <1>2
  <2>3. left[c] = Total(in)[c] - fee[c] - Total(s)[c]
    BY DEF Left, fee
  <2> HIDE DEF s, in, left
  <2>4. \A i \in 1..2 : in[i][c] \in Int
    <3>1. \A i \in 1..2 : i = 1 \/ i = 2
      OBVIOUS
    <3> QED
      BY <1>3, <2>1, <3>1
  <2>5. \A i \in 1..3 : s[i][c] \in Int
    <3>1. \A i \in 1..3 : i = 1 \/ i = 2 \/ i = 3
      OBVIOUS
    <3> QED
      BY <1>3, <2>2, <3>1
  <2>6. Total(in)[c] = v[c] + w[c]
    BY <2>1, <2>4, TotalOf
  <2>7. Total(s)[c] = back[c] + reward[c] + x[c]
    BY <2>2, <2>5, TotalOf
  <2> QED
    BY <1>3, <2>3, <2>6, <2>7
<1>5. left = [c \in Classes |-> left[c]]
  BY DEF Left
<1>6. \A c \in Classes : back[c] + reward[c] + x[c] + fee[c] <= v[c] + w[c]
  BY DEF Covers, x, fee
<1> HIDE DEF left
<1>7. \A c \in Classes : left[c] \in Nat
  BY <1>3, <1>4, <1>6
<1>8. left \in [Classes -> Nat]
  BY <1>5, <1>7
<1>9. ValidateSwapTxInputs(SortedInputs(refs), p.ref, order.ref,
                           SortedInputIndex(refs, p.ref), SortedInputIndex(refs, order.ref))
  BY <1>0, InputsAreValid
<1>10. tx = [status |-> "built", inputs |-> SortedInputs(refs),
             outputs |-> Complete(outs, left), collateral |-> u,
             poolIdx |-> SortedInputIndex(refs, p.ref),
             swapIdx |-> SortedInputIndex(refs, order.ref), rewardIdx |-> 1]
  <2>1. ~\E c \in Classes : left[c] < 0
    BY <1>7
  <2> QED
    BY <1>0, <1>9, <2>1 DEF BuildSwapTx, left, outs, Paying
<1>11. /\ tx.status = "built" /\ tx.collateral = u /\ tx.rewardIdx = 1
       /\ tx.inputs = SortedInputs(refs) /\ tx.outputs = Complete(outs, left)
       /\ tx.poolIdx = SortedInputIndex(refs, p.ref)
       /\ tx.swapIdx = SortedInputIndex(refs, order.ref)
  BY <1>10
<1>12. tx.inputs[tx.poolIdx + 1] = p.ref /\ tx.inputs[tx.swapIdx + 1] = order.ref
  BY <1>9, <1>11 DEF ValidateSwapTxInputs
<1>13. PICK o : o = tx.outputs
  OBVIOUS
<1>14. PICK z : z = [to |-> "wallet", value |-> left]
  OBVIOUS
<1>15. o = outs \/ o = Append(outs, z)
  BY <1>11, <1>13, <1>14 DEF Complete
<1>16. /\ outs # Append(outs, z)
      /\ Len(Append(outs, z)) = 4 /\ DOMAIN Append(outs, z) = 1..4
      /\ Append(outs, z)[4] = z /\ \A i \in 1..3 : Append(outs, z)[i] = outs[i]
  <2>1. PICK S : outs \in Seq(S) /\ z \in S
    <3>1. outs \in Seq({outs[1], outs[2], outs[3], z}) /\ z \in {outs[1], outs[2], outs[3], z}
      BY DEF outs, Paying
    <3> QED
      BY <3>1
  <2>2. PICK n \in Nat : n = Len(outs) /\ n = 3
    BY <1>2
  <2>3. /\ outs # Append(outs, z)
        /\ Len(Append(outs, z)) = n + 1 /\ DOMAIN Append(outs, z) = 1..(n + 1)
        /\ Append(outs, z)[n + 1] = z /\ \A i \in 1..n : Append(outs, z)[i] = outs[i]
    <3>1. n = Len(outs)
      BY <2>2
    <3> QED
      BY <2>1, <3>1, OneAppended
  <2>4. n = 3 /\ n + 1 = 4
    BY <2>2
  <2> QED
    BY <2>3, <2>4
<1>17. o = outs => \A c \in Classes : left[c] = 0
  <2>1. o = outs => ~\E c \in Classes : left[c] > 0
    BY <1>11, <1>13, <1>14, <1>16 DEF Complete
  <2> QED
    BY <1>7, <2>1
<1>18. /\ o = Append(outs, z) => Len(o) = 4 /\ o[4] = z /\ DOMAIN o = 1..4
       /\ \A i \in 1..3 : o[i] = outs[i]
  BY <1>15, <1>16
<1>19. \/ Len(o) = 3 /\ DOMAIN o = 1..3 /\ \A c \in Classes : left[c] = 0
       \/ Len(o) = 4 /\ DOMAIN o = 1..4 /\ o[4].value = left
  <2>1. z.value = left
    BY <1>14
  <2>2. CASE o = outs
    BY <1>2, <1>17, <2>2
  <2>3. CASE o = Append(outs, z)
    BY <1>18, <2>1, <2>3
  <2> QED
    BY <1>15, <2>2, <2>3
<1>20. o[1].value = back /\ o[2].value = reward /\ o[3].value = x
  <2>1. o[1] = outs[1] /\ o[2] = outs[2] /\ o[3] = outs[3]
    BY <1>18
  <2> QED
    BY <1>2, <2>1
<1>21. ASSUME NEW i \in 1..Len(o) PROVE o[i].value \in [Classes -> Nat]
  <2>1. i = 1 \/ i = 2 \/ i = 3 \/ (i = 4 /\ Len(o) = 4)
    <3>1. Len(o) \in {3, 4}
      BY <1>19
    <3> QED
      BY <3>1, FirstFour
  <2>2. Len(o) = 4 => o[4].value = left
    BY <1>19
  <2> QED
    BY <1>0, <1>1, <1>8, <1>20, <2>1, <2>2
<1>22. ASSUME NEW c \in Classes
       PROVE  Total([i \in DOMAIN o |-> o[i].value])[c] + fee[c] = v[c] + w[c]
  <2> DEFINE s == [i \in DOMAIN o |-> o[i].value]
  <2>0. /\ v[c] \in Nat /\ w[c] \in Nat /\ back[c] \in Nat /\ reward[c] \in Nat
        /\ x[c] \in Nat /\ fee[c] \in Nat /\ left[c] \in Nat
    BY <1>3, <1>7
  <2>4. back[c] + reward[c] + x[c] + left[c] + fee[c] = v[c] + w[c]
    BY <1>4, <2>0, Balance
  <2>1. DOMAIN s = DOMAIN o /\ \A i \in DOMAIN o : s[i] = o[i].value
    OBVIOUS
  <2> HIDE DEF s
  <2>2. CASE Len(o) = 3 /\ DOMAIN o = 1..3 /\ \A k \in Classes : left[k] = 0
    <3>1. s[1] = back /\ s[2] = reward /\ s[3] = x
      BY <1>20, <2>1, <2>2
    <3>2. \A i \in 1..3 : i = 1 \/ i = 2 \/ i = 3
      OBVIOUS
    <3>3. \A i \in 1..3 : s[i][c] \in Int
      BY <2>0, <3>1, <3>2
    <3>4. Total(s)[c] = back[c] + reward[c] + x[c]
      BY <2>1, <2>2, <3>1, <3>3, TotalOf
    <3>5. left[c] = 0
      BY <2>2
    <3>6. Total(s)[c] + fee[c] = v[c] + w[c]
      BY <2>0, <2>4, <3>4, <3>5
    <3> QED
      BY <3>6 DEF s
  <2>3. CASE Len(o) = 4 /\ DOMAIN o = 1..4 /\ o[4].value = left
    <3>1. s[1] = back /\ s[2] = reward /\ s[3] = x /\ s[4] = left
      BY <1>20, <2>1, <2>3
    <3>2. \A i \in 1..4 : i = 1 \/ i = 2 \/ i = 3 \/ i = 4
      OBVIOUS
    <3>3. \A i \in 1..4 : s[i][c] \in Int
      BY <2>0, <3>1, <3>2
    <3>4. Total(s)[c] = back[c] + reward[c] + x[c] + left[c]
      BY <2>1, <2>3, <3>1, <3>3, TotalOf
    <3>6. Total(s)[c] + fee[c] = v[c] + w[c]
      BY <2>4, <3>4
    <3> QED
      BY <3>6 DEF s
  <2> QED
    BY <1>19, <2>2, <2>3
<1> QED
  <2>1. Len(o) \in 3..4
    BY <1>19
  <2>2. \A i \in 1..3 : o[i] = Paying(back, reward, change)[i]
    BY <1>18 DEF outs
  <2>3. \A c \in Classes :
           Total([i \in DOMAIN o |-> o[i].value])[c] + AdaOnly(SwapTxFee)[c] = v[c] + w[c]
    BY <1>22 DEF fee
  <2> QED
    BY <1>11, <1>12, <1>13, <1>21, <2>1, <2>2, <2>3 DEF IsBuilt

\* A length of three or four is at most four.
LEMMA AtMostFour ==
    ASSUME NEW n \in 3..4
    PROVE  n <= 4
OBVIOUS

\* What createSwapTx leaves to the trader, by asset class.
RewardOf(order, q, r, fee) ==
    LET leftover == order.value[Ada] - fee - (IF order.base = Ada THEN order.baseAmount ELSE 0)
        ada == leftover + (IF q = Ada THEN r ELSE 0)
    IN  [c \in Classes |-> IF c = Ada THEN ada ELSE IF c = q THEN r ELSE 0]

\* createSwapTx for a proper order: it fails for one of these reasons, or the
\* amounts are in order and the transaction is built.
LEMMA SwapOutcome ==
    ASSUME NEW p \in PoolOutputs, NEW order \in Orders, NEW wallet \in Wallets, NEW k,
           NEW b, b = order.base, NEW q, NEW in, in = p.value[b], NEW out,
           NEW amount, amount = order.baseAmount, NEW r \in Nat, out \in Nat, r <= out,
           Divisor(in, amount, p.feeNum) # 0,
           OutputForInput(NewPool(p), b, amount) = [class |-> q, amount |-> r],
           Asset(NewPool(p), b) = [class |-> b, amount |-> in],
           Asset(NewPool(p), q) = [class |-> q, amount |-> out],
           NEW back, back = CalculateReturnToPool(NewPool(p), [class |-> b, amount |-> amount],
                                                  [class |-> q, amount |-> r]),
           NEW fee, fee = MatcherFee(order, k),
           NEW tx, tx = CreateSwapTx(p, order, wallet, k)
    PROVE  \/ tx.status \in {"no_reference_script", "no_collateral", "below_minimum", "int64",
                             "no_reward", "no_matcher_fee", "coin_below_fee",
                             "coin_below_base", "overflow", "fee_below_tx_fee"}
           \/ /\ \E i \in DOMAIN wallet : IsCollateral(wallet[i])
              /\ ~(r < order.minQuote)
              /\ order.feePerTokenNum # Nil /\ order.feePerTokenDen \notin {Nil, 0}
              /\ ~(order.value[Ada] - fee - (IF b = Ada THEN amount ELSE 0) < 0)
              /\ ~(fee <= SwapTxFee)
              /\ tx = BuildSwapTx(p, order, back, RewardOf(order, q, r, fee),
                                  fee - SwapTxFee, SelectCollateralUtxo(wallet))
<1> DEFINE coin == order.value[Ada]
           leftover == coin - fee - (IF b = Ada THEN amount ELSE 0)
           ada == leftover + (IF q = Ada THEN r ELSE 0)
           e == RewardError(p, order, wallet)
           built == BuildSwapTx(p, order, back, RewardOf(order, q, r, fee),
                                fee - SwapTxFee, SelectCollateralUtxo(wallet))
<1>1. \A x : Fails(x).status = x
  BY DEF Fails
<1>2. e = IF ~HasReferenceScripts(p) THEN "no_reference_script"
          ELSE IF ~\E i \in DOMAIN wallet : IsCollateral(wallet[i]) THEN "no_collateral"
          ELSE IF r < order.minQuote THEN "below_minimum"
          ELSE IF q # Ada /\ r > MaxInt THEN "int64"
          ELSE IF r = 0 THEN "no_reward"
          ELSE None
  BY DEF RewardError
<1>3. tx = IF e # None THEN Fails(e)
           ELSE IF out < r THEN Fails("underflow")
           ELSE IF \E c \in Classes \ {Ada} : back[c] > MaxInt THEN Fails("int64")
           ELSE IF order.feePerTokenNum = Nil \/ order.feePerTokenDen \in {Nil, 0}
           THEN Fails("no_matcher_fee")
           ELSE IF coin < fee THEN Fails("coin_below_fee")
           ELSE IF leftover < 0 THEN Fails("coin_below_base")
           ELSE IF ada > MaxWord THEN Fails("overflow")
           ELSE IF fee <= SwapTxFee THEN Fails("fee_below_tx_fee")
           ELSE IF back[Ada] > MaxInt \/ ada > MaxInt \/ fee - SwapTxFee > MaxInt
           THEN Fails("int64")
           ELSE built
  BY DEF CreateSwapTx, RewardOf
<1>4. ~(out < r)
  OBVIOUS
<1> HIDE DEF e, built, ada, leftover
<1>5. CASE e # None
  <2>1. tx.status = e
    BY <1>1, <1>3, <1>5
  <2> QED
    BY <1>2, <1>5, <2>1 DEF None
<1>6. CASE e = None
  <2>1. ~(r < order.minQuote) /\ \E i \in DOMAIN wallet : IsCollateral(wallet[i])
    BY <1>2, <1>6 DEF None
  <2>2. CASE tx = built
    <3> QED
      BY <1>1, <1>3, <1>4, <1>6, <2>1 DEF leftover, built
  <2>3. CASE tx # built
    BY <1>1, <1>3, <1>4, <1>6, <2>3
  <2> QED
    BY <2>2, <2>3
<1> QED
  BY <1>5, <1>6

\* The amounts of a proper order, covered by the pool's output and the order's.
Amounts(v, w, order, b, q, amount, r, fee, change, back, reward) ==
    /\ v \in [Classes -> Nat] /\ w \in [Classes -> Nat] /\ v[Nft] = 1 /\ w = order.value
    /\ b \in Classes \ {Nft, Lq} /\ b = order.base /\ q \in Classes \ {Nft, Lq}
    /\ b # q /\ Ada \in {b, q}
    /\ amount \in Nat /\ amount = order.baseAmount /\ amount <= w[b]
    /\ r \in Nat /\ r <= v[q]
    /\ fee \in Int /\ change \in Nat /\ SwapTxFee \in Nat /\ fee = change + SwapTxFee
    /\ ~(w[Ada] - fee - (IF b = Ada THEN amount ELSE 0) < 0)
    /\ back = [c \in Classes |-> back[c]]
    /\ \A c \in Classes :
          back[c] = IF c = Nft THEN 1 ELSE IF c = Lq THEN v[Lq]
                    ELSE IF c = b THEN v[b] + amount
                    ELSE IF c = q THEN v[q] - r ELSE 0
    /\ reward = RewardOf(order, q, r, fee)

\* Nothing is negative, and the two inputs cover what is paid.
LEMMA SwapAmounts ==
    ASSUME NEW v, NEW w, NEW order, NEW b, NEW q, NEW amount, NEW r, NEW fee, NEW change,
           NEW back, NEW reward,
           Amounts(v, w, order, b, q, amount, r, fee, change, back, reward)
    PROVE  /\ back \in [Classes -> Nat] /\ reward \in [Classes -> Nat]
           /\ \A c \in Classes : back[c] + reward[c] + AdaOnly(change)[c] + AdaOnly(SwapTxFee)[c]
                                   <= v[c] + w[c]
           /\ reward[Ada] = w[Ada] - fee - (IF b = Ada THEN amount ELSE 0)
                              + (IF q = Ada THEN r ELSE 0)
           /\ reward[q] >= r
<1> USE DEF Amounts
<1>1. /\ Ada \in Classes /\ Nft \in Classes /\ Lq \in Classes
      /\ Nft # Lq /\ Ada # Nft /\ Ada # Lq
  BY SwapPoolAssumption DEF Classes
<1>2. PICK left : left = w[Ada] - fee - (IF b = Ada THEN amount ELSE 0)
  OBVIOUS
<1>3. left \in Nat /\ w[Ada] \in Nat /\ v[Ada] \in Nat
  BY <1>1, <1>2
<1>4. /\ reward = [c \in Classes |-> IF c = Ada THEN left + (IF q = Ada THEN r ELSE 0)
                                     ELSE IF c = q THEN r ELSE 0]
      /\ reward[Ada] = left + (IF q = Ada THEN r ELSE 0)
      /\ \A c \in Classes \ {Ada} : reward[c] = IF c = q THEN r ELSE 0
  BY <1>1, <1>2 DEF RewardOf
<1>5. /\ AdaOnly(change)[Ada] = change /\ AdaOnly(SwapTxFee)[Ada] = SwapTxFee
      /\ \A c \in Classes \ {Ada} : AdaOnly(change)[c] = 0 /\ AdaOnly(SwapTxFee)[c] = 0
  BY <1>1 DEF AdaOnly
<1>6. ASSUME NEW c \in Classes
      PROVE  /\ back[c] \in Nat /\ reward[c] \in Nat
             /\ back[c] + reward[c] + AdaOnly(change)[c] + AdaOnly(SwapTxFee)[c] <= v[c] + w[c]
  <2>0. v[c] \in Nat /\ w[c] \in Nat /\ v[b] \in Nat /\ v[q] \in Nat /\ w[b] \in Nat
    OBVIOUS
  <2>1. CASE c = Nft \/ c = Lq
    <3>1. back[c] = v[c] /\ reward[c] = 0
      BY <1>1, <1>4, <2>1
    <3>2. AdaOnly(change)[c] = 0 /\ AdaOnly(SwapTxFee)[c] = 0
      BY <1>1, <1>5, <2>1
    <3> QED
      BY <2>0, <3>1, <3>2
  <2>2. CASE c = b /\ c # Ada
    <3>1. back[c] = v[c] + amount /\ reward[c] = 0 /\ amount <= w[c]
      BY <1>4, <2>2
    <3>2. AdaOnly(change)[c] = 0 /\ AdaOnly(SwapTxFee)[c] = 0
      BY <1>5, <2>2
    <3> QED
      BY <2>0, <3>1, <3>2
  <2>3. CASE c = b /\ c = Ada
    <3>1. back[c] = v[c] + amount /\ reward[c] = left /\ left = w[c] - fee - amount
      BY <1>2, <1>3, <1>4, <2>3
    <3>2. AdaOnly(change)[c] = change /\ AdaOnly(SwapTxFee)[c] = SwapTxFee
      BY <1>5, <2>3
    <3> QED
      BY <1>3, <2>0, <3>1, <3>2
  <2>4. CASE c = q /\ c # Ada
    <3>1. back[c] = v[c] - r /\ reward[c] = r /\ r <= v[c]
      BY <1>4, <2>4
    <3>2. AdaOnly(change)[c] = 0 /\ AdaOnly(SwapTxFee)[c] = 0
      BY <1>5, <2>4
    <3> QED
      BY <2>0, <3>1, <3>2
  <2>5. CASE c = q /\ c = Ada
    <3>1. back[c] = v[c] - r /\ reward[c] = left + r /\ left = w[c] - fee /\ r <= v[c]
      BY <1>2, <1>4, <2>0, <2>5
    <3>2. AdaOnly(change)[c] = change /\ AdaOnly(SwapTxFee)[c] = SwapTxFee
      BY <1>5, <2>5
    <3> QED
      BY <1>3, <2>0, <3>1, <3>2
  <2>6. CASE c \notin {Nft, Lq, b, q}
    <3>1. back[c] = 0 /\ reward[c] = 0 /\ c # Ada
      BY <1>4, <2>6
    <3>2. AdaOnly(change)[c] = 0 /\ AdaOnly(SwapTxFee)[c] = 0
      BY <1>5, <3>1
    <3> QED
      BY <2>0, <3>1, <3>2
  <2> QED
    BY <2>1, <2>2, <2>3, <2>4, <2>5, <2>6
<1>7. reward[q] >= r
  <2>1. CASE q = Ada
    BY <1>3, <1>4, <2>1
  <2>2. CASE q # Ada
    BY <1>4, <2>2
  <2> QED
    BY <2>1, <2>2
<1>8. back \in [Classes -> Nat] /\ reward \in [Classes -> Nat]
  <2>1. reward = [c \in Classes |-> reward[c]]
    BY <1>4
  <2> QED
    BY <1>6, <2>1
<1> QED
  BY <1>2, <1>4, <1>6, <1>7, <1>8

\* What SwapBalances says of a transaction.
SwapIsRight(p, order, wallet, k, tx) ==
    LET outs == tx.outputs
        quote == Quote(p, order)
    IN  /\ Len(outs) <= 4 /\ \A i \in 1..Len(outs) : outs[i].value \in [Classes -> Nat]
        /\ \A c \in Classes :
              Total([i \in DOMAIN outs |-> outs[i].value])[c] + AdaOnly(SwapTxFee)[c]
                = p.value[c] + order.value[c]
        /\ PoolIsWhole(p, outs[1])
        /\ outs[tx.rewardIdx + 1].to = "trader"
        /\ outs[tx.rewardIdx + 1].value[quote] >= order.minQuote
        /\ outs[tx.rewardIdx + 1].value[Ada] >= order.value[Ada] - MatcherFee(order, k)
             - (IF order.base = Ada THEN order.baseAmount ELSE -order.minQuote)
        /\ \E i \in 1..Len(outs) : outs[i].to = "wallet" /\ outs[i].value[Ada] > 0
        /\ tx.inputs[tx.poolIdx + 1] = p.ref
        /\ tx.inputs[tx.swapIdx + 1] = order.ref
        /\ CollateralIsLeast(tx, wallet)

\* A proper order is filled as it should be, or not at all.
LEMMA ProperFill ==
    ASSUME NEW p \in PoolOutputs, NEW order \in Orders, NEW wallet \in Wallets,
           NEW k \in Roundings, IsProper(p, order),
           NEW tx, tx = CreateSwapTx(p, order, wallet, k)
    PROVE  /\ tx.status \notin {"panic", "underflow", "unbalanced", "input_order"}
           /\ tx.status = "built" => SwapIsRight(p, order, wallet, k, tx)
<1>1. PICK b, q, in, out, amount, r, back, fee, v, w :
         /\ b = order.base /\ q = Quote(p, order) /\ amount = order.baseAmount
         /\ v = p.value /\ w = order.value /\ in = p.value[b] /\ out = p.value[q]
         /\ r = PaidOut(in, out, amount, p.feeNum) /\ fee = MatcherFee(order, k)
         /\ back = CalculateReturnToPool(NewPool(p), [class |-> b, amount |-> amount],
                                         [class |-> q, amount |-> r])
  OBVIOUS
<1>2. /\ b \in Classes \ {Nft, Lq} /\ q \in Classes \ {Nft, Lq} /\ b # q /\ Ada \in {b, q}
      /\ in \in 1..MaxWord /\ out \in 1..MaxWord /\ amount \in 0..MaxWord
      /\ in + amount \in 0..MaxWord
      /\ r \in Nat /\ r <= out /\ in * out <= (in + amount) * (out - r)
      /\ Divisor(in, amount, p.feeNum) # 0
      /\ OutputForInput(NewPool(p), b, amount) = [class |-> q, amount |-> r]
      /\ Asset(NewPool(p), b) = [class |-> b, amount |-> in]
      /\ Asset(NewPool(p), q) = [class |-> q, amount |-> out]
  <2>1. /\ b = order.base /\ q = Quote(p, order) /\ amount = order.baseAmount
        /\ in = p.value[b] /\ out = p.value[q] /\ r = PaidOut(in, out, amount, p.feeNum)
    BY <1>1
  <2> QED
    BY <2>1, ProperSwap
<1>3. MaxWord \in Nat /\ SwapTxFee \in Nat /\ Ada \in Classes
  BY SwapPoolAssumption, SwapFillAssumption DEF Classes
<1>4. in \in Nat /\ out \in Nat /\ amount \in Nat
  BY <1>2, <1>3
<1>5. /\ v \in [Classes -> Nat] /\ w \in [Classes -> Nat]
      /\ p.ref \in Nat /\ order.ref \in Nat /\ order.minQuote \in Nat
  <2>1. /\ v \in [Classes -> 0..MaxWord] /\ w \in [Classes -> 0..MaxWord]
        /\ p.ref \in Nat /\ order.ref \in Nat /\ order.minQuote \in 0..MaxWord
    BY <1>1, SwapFillAssumption
  <2> QED
    BY <1>3, <2>1
<1>6. v[Nft] = 1 /\ p.ref # order.ref /\ amount <= w[b]
  <2>1. v[Nft] = 1 /\ p.ref # order.ref /\ w[b] >= amount
    BY <1>1 DEF IsProper
  <2>2. w[b] \in Nat
    BY <1>2, <1>5
  <2> QED
    BY <1>4, <2>1, <2>2
<1>7. /\ back = [c \in Classes |-> back[c]]
      /\ \A c \in Classes :
            back[c] = IF c = Nft THEN 1 ELSE IF c = Lq THEN v[Lq]
                      ELSE IF c = b THEN v[b] + amount
                      ELSE IF c = q THEN v[q] - r ELSE 0
  <2>1. {b, q} \cap {Nft, Lq} = {}
    BY <1>2
  <2>2. back = CalculateReturnToPool(NewPool(p), [class |-> b, amount |-> amount],
                                     [class |-> q, amount |-> r])
    BY <1>1
  <2>3. /\ back = [c \in Classes |-> back[c]]
        /\ \A c \in Classes :
              back[c] = IF c = Nft THEN 1 ELSE IF c = Lq THEN p.value[Lq]
                        ELSE IF c = b THEN in + amount
                        ELSE IF c = q THEN out - r ELSE 0
    <3>1. /\ b # q /\ Ada \in {b, q} /\ in + amount \in 0..MaxWord
          /\ Asset(NewPool(p), b) = [class |-> b, amount |-> in]
          /\ Asset(NewPool(p), q) = [class |-> q, amount |-> out]
      BY <1>2
    <3>2. Returned(p, b, q, in, out, amount, r, back)
      BY <2>1, <2>2, <3>1 DEF Returned
    <3> QED
      BY <3>2, ReturnToPool
  <2> QED
    BY <1>1, <2>3
<1>8. PICK reward, change, u :
         /\ reward = RewardOf(order, q, r, fee) /\ change = fee - SwapTxFee
         /\ u = SelectCollateralUtxo(wallet)
  OBVIOUS
<1>9. \/ tx.status \in {"no_reference_script", "no_collateral", "below_minimum", "int64",
                        "no_reward", "no_matcher_fee", "coin_below_fee",
                        "coin_below_base", "overflow", "fee_below_tx_fee"}
      \/ /\ \E i \in DOMAIN wallet : IsCollateral(wallet[i])
         /\ ~(r < order.minQuote)
         /\ order.feePerTokenNum # Nil /\ order.feePerTokenDen \notin {Nil, 0}
         /\ ~(order.value[Ada] - fee - (IF b = Ada THEN amount ELSE 0) < 0)
         /\ ~(fee <= SwapTxFee)
         /\ tx = BuildSwapTx(p, order, back, reward, change, u)
  <2>1. /\ b = order.base /\ amount = order.baseAmount /\ in = p.value[b]
        /\ fee = MatcherFee(order, k)
        /\ back = CalculateReturnToPool(NewPool(p), [class |-> b, amount |-> amount],
                                        [class |-> q, amount |-> r])
    BY <1>1
  <2>2. /\ r \in Nat /\ out \in Nat /\ r <= out /\ Divisor(in, amount, p.feeNum) # 0
        /\ OutputForInput(NewPool(p), b, amount) = [class |-> q, amount |-> r]
        /\ Asset(NewPool(p), b) = [class |-> b, amount |-> in]
        /\ Asset(NewPool(p), q) = [class |-> q, amount |-> out]
    BY <1>2, <1>4
  <2> QED
    BY <1>8, <2>1, <2>2, SwapOutcome
<1>10. CASE tx.status \in {"no_reference_script", "no_collateral", "below_minimum", "int64",
                           "no_reward", "no_matcher_fee", "coin_below_fee",
                           "coin_below_base", "overflow", "fee_below_tx_fee"}
  BY <1>10
<1>11. CASE /\ \E i \in DOMAIN wallet : IsCollateral(wallet[i])
            /\ ~(r < order.minQuote)
            /\ order.feePerTokenNum # Nil /\ order.feePerTokenDen \notin {Nil, 0}
            /\ ~(order.value[Ada] - fee - (IF b = Ada THEN amount ELSE 0) < 0)
            /\ ~(fee <= SwapTxFee)
            /\ tx = BuildSwapTx(p, order, back, reward, change, u)
  <2>1. fee \in Int
    BY <1>1, <1>11, FeeIsNumber
  <2>2. change \in Nat /\ change > 0 /\ fee = change + SwapTxFee
    BY <1>3, <1>8, <1>11, <2>1
  <2>3. /\ back \in [Classes -> Nat] /\ reward \in [Classes -> Nat]
        /\ \A c \in Classes : back[c] + reward[c] + AdaOnly(change)[c] + AdaOnly(SwapTxFee)[c]
                                <= v[c] + w[c]
        /\ reward[Ada] = w[Ada] - fee - (IF b = Ada THEN amount ELSE 0)
                           + (IF q = Ada THEN r ELSE 0)
        /\ reward[q] >= r
    <3>1. /\ w = order.value /\ b = order.base /\ amount = order.baseAmount /\ r <= v[q]
          /\ ~(w[Ada] - fee - (IF b = Ada THEN amount ELSE 0) < 0)
      BY <1>1, <1>2, <1>11
    <3> QED
      <4>1. Amounts(v, w, order, b, q, amount, r, fee, change, back, reward)
        BY <1>2, <1>3, <1>4, <1>5, <1>6, <1>7, <1>8, <2>1, <2>2, <3>1 DEF Amounts
      <4> QED
        BY <4>1, SwapAmounts
  <2>4. /\ tx.status = "built" /\ tx.collateral = u /\ tx.rewardIdx = 1
        /\ tx.inputs[tx.poolIdx + 1] = p.ref /\ tx.inputs[tx.swapIdx + 1] = order.ref
        /\ Len(tx.outputs) \in 3..4
        /\ \A i \in 1..3 : tx.outputs[i] = Paying(back, reward, change)[i]
        /\ \A i \in 1..Len(tx.outputs) : tx.outputs[i].value \in [Classes -> Nat]
        /\ \A c \in Classes :
              Total([i \in DOMAIN tx.outputs |-> tx.outputs[i].value])[c]
                + AdaOnly(SwapTxFee)[c] = v[c] + w[c]
    <3>1. v = p.value /\ w = order.value /\ tx = BuildSwapTx(p, order, back, reward, change, u)
      BY <1>1, <1>11
    <3>2. Covers(p, order, v, w, back, reward, change)
      BY <1>3, <1>5, <1>6, <2>2, <2>3, <3>1 DEF Covers
    <3>3. IsBuilt(tx, p, order, v, w, back, reward, change, u)
      BY <3>1, <3>2, BuiltSwap
    <3> QED
      BY ONLY <3>3 DEF IsBuilt
  <2>5. PICK outs : outs = tx.outputs
    OBVIOUS
  <2>6. /\ outs[1] = [to |-> "pool", value |-> back]
        /\ outs[2] = [to |-> "trader", value |-> reward]
        /\ outs[3] = [to |-> "wallet", value |-> AdaOnly(change)]
    <3>1. /\ Paying(back, reward, change)[1] = [to |-> "pool", value |-> back]
          /\ Paying(back, reward, change)[2] = [to |-> "trader", value |-> reward]
          /\ Paying(back, reward, change)[3] = [to |-> "wallet", value |-> AdaOnly(change)]
      BY DEF Paying
    <3>2. 1 \in 1..3 /\ 2 \in 1..3 /\ 3 \in 1..3
      OBVIOUS
    <3> QED
      BY <2>4, <2>5, <3>1, <3>2
  <2>7. PoolIsWhole(p, outs[1])
    <3>1. outs[1].to = "pool" /\ outs[1].value = back
      BY <2>6
    <3>2. Nft \in Classes /\ Lq \in Classes /\ Nft # Lq
      BY SwapPoolAssumption DEF Classes
    <3>3. back[Nft] = 1 /\ back[Lq] = p.value[Lq]
      BY <1>1, <1>7, <3>2
    <3>4. back[b] = in + amount /\ back[q] = out - r
      BY <1>1, <1>2, <1>7
    <3>5. (p.x = b /\ p.y = q) \/ (p.x = q /\ p.y = b)
      BY <1>1 DEF IsProper, Quote
    <3>6. back[p.x] * back[p.y] = (in + amount) * (out - r)
      <4>1. in + amount \in Int /\ out - r \in Int
        BY <1>2, <1>4
      <4>2. CASE p.x = b /\ p.y = q
        BY <3>4, <4>2
      <4>3. CASE p.x = q /\ p.y = b
        BY <3>4, <4>1, <4>3
      <4> QED
        BY <3>5, <4>2, <4>3
    <3>7. p.value[p.x] * p.value[p.y] = in * out
      <4>1. CASE p.x = b /\ p.y = q
        BY <1>1, <4>1
      <4>2. CASE p.x = q /\ p.y = b
        BY <1>1, <1>4, <4>2
      <4> QED
        BY <3>5, <4>1, <4>2
    <3>8. (in + amount) * (out - r) >= in * out
      <4>1. in * out \in Int /\ (in + amount) * (out - r) \in Int
        BY <1>2, <1>4
      <4> QED
        BY <1>2, <4>1
    <3> QED
      BY <3>1, <3>3, <3>6, <3>7, <3>8 DEF PoolIsWhole
  <2>8. /\ outs[tx.rewardIdx + 1].to = "trader"
        /\ outs[tx.rewardIdx + 1].value = reward
    <3>1. tx.rewardIdx + 1 = 2
      BY <2>4
    <3> QED
      BY <2>6, <3>1
  <2>9. reward[q] >= order.minQuote
    <3>1. reward[q] \in Nat
      BY <1>2, <2>3
    <3> QED
      BY <1>2, <1>5, <1>11, <2>3, <3>1
  <2>10. reward[Ada] >= order.value[Ada] - fee
                          - (IF order.base = Ada THEN order.baseAmount ELSE -order.minQuote)
    <3>1. w[Ada] \in Nat /\ w = order.value /\ b = order.base /\ amount = order.baseAmount
      BY <1>1, <1>3, <1>5
    <3>2. CASE b = Ada
      <4>1. reward[Ada] = w[Ada] - fee - amount /\ q # Ada
        BY <1>2, <1>4, <2>1, <2>3, <3>1, <3>2
      <4> QED
        BY <1>4, <2>1, <3>1, <3>2, <4>1
    <3>3. CASE b # Ada
      <4>1. q = Ada
        BY <1>2, <3>3
      <4>2. reward[Ada] = w[Ada] - fee + r
        BY <1>2, <2>1, <2>3, <3>1, <3>3, <4>1
      <4> QED
        BY <1>2, <1>5, <1>11, <2>1, <3>1, <3>3, <4>2
    <3> QED
      BY <3>2, <3>3
  <2>11. \E i \in 1..Len(outs) : outs[i].to = "wallet" /\ outs[i].value[Ada] > 0
    <3>1. 3 \in 1..Len(outs)
      BY <2>4, <2>5
    <3>2. outs[3].to = "wallet" /\ outs[3].value = AdaOnly(change)
      BY <2>6
    <3>3. AdaOnly(change)[Ada] = change
      BY <1>3 DEF AdaOnly
    <3> QED
      BY <2>2, <3>1, <3>2, <3>3
  <2>12. CollateralIsLeast(tx, wallet)
    <3>1. /\ u \in Range(wallet) /\ IsCollateral(u)
          /\ \A x \in Range(wallet) : IsCollateral(x) => u.value[Ada] <= x.value[Ada]
      BY <1>8, <1>11, LeastCollateral
    <3> QED
      BY <2>4, <3>1 DEF CollateralIsLeast
  <2>13. Len(outs) <= 4
    <3>1. Len(outs) \in 3..4
      BY <2>4, <2>5
    <3> QED
      BY ONLY <3>1, AtMostFour
  <2>14. \A c \in Classes :
            Total([i \in DOMAIN outs |-> outs[i].value])[c] + AdaOnly(SwapTxFee)[c]
              = p.value[c] + order.value[c]
    BY <1>1, <2>4, <2>5
  <2>15. SwapIsRight(p, order, wallet, k, tx)
    BY <1>1, <2>4, <2>5, <2>7, <2>8, <2>9, <2>10, <2>11, <2>12, <2>13, <2>14 DEF SwapIsRight
  <2> QED
    BY <2>4, <2>15
<1> QED
  BY <1>9, <1>10, <1>11

\* Every fill is the outcome of createSwapTx for a pool, an order and a wallet.
FillOK ==
    \/ fill = NoFill
    \/ \E p \in PoolOutputs, order \in Orders, wallet \in Wallets, k \in Roundings :
          fill = [status |-> "tried", pool |-> p, order |-> order, wallet |-> wallet,
                  rounding |-> k, tx |-> CreateSwapTx(p, order, wallet, k)]

\* So every fill balances.
LEMMA FillBalances ==
    ASSUME FillOK
    PROVE  SwapBalances
<1>1. CASE fill = NoFill
  <2>1. fill.status # "tried"
    BY <1>1 DEF NoFill
  <2> QED
    BY <2>1 DEF SwapBalances
<1>2. ASSUME NEW p \in PoolOutputs, NEW order \in Orders, NEW wallet \in Wallets,
             NEW k \in Roundings,
             fill = [status |-> "tried", pool |-> p, order |-> order, wallet |-> wallet,
                     rounding |-> k, tx |-> CreateSwapTx(p, order, wallet, k)]
      PROVE  SwapBalances
  <2>1. PICK tx : tx = CreateSwapTx(p, order, wallet, k)
    OBVIOUS
  <2>2. /\ fill.pool = p /\ fill.order = order /\ fill.wallet = wallet
        /\ fill.rounding = k /\ fill.tx = tx
    BY <1>2, <2>1
  <2>3. CASE IsProper(p, order)
    <3>1. /\ tx.status \notin {"panic", "underflow", "unbalanced", "input_order"}
          /\ tx.status = "built" => SwapIsRight(p, order, wallet, k, tx)
      BY <2>1, <2>3, ProperFill
    <3>2. SwapGoesThrough
      BY <2>2, <3>1 DEF SwapGoesThrough
    <3>3. tx.status = "built" => TraderIsPaid(p, order, tx.outputs[tx.rewardIdx + 1])
      BY <2>2, <3>1 DEF TraderIsPaid, SwapIsRight, Quote
    <3> QED
      BY <2>2, <3>1, <3>2, <3>3 DEF SwapBalances, SwapIsRight
  <2>4. CASE ~IsProper(p, order)
    BY <2>2, <2>4 DEF SwapBalances
  <2> QED
    BY <2>3, <2>4
<1> QED
  BY <1>1, <1>2 DEF FillOK

\* The transaction that the Spectrum filler builds (createSwapTx,
\* src/internal/spectrum/tx.go) balances and leaves no party short, for every
\* pool, order, wallet and amount that fits a uint64.
THEOREM SwapBalancesHolds == Spec => []SwapBalances
<1>1. Init => FillOK
  BY DEF Init, SwapInit, FillOK
<1>2. FillOK /\ [Next]_vars => FillOK'
  <2> SUFFICES ASSUME FillOK, [Next]_vars PROVE FillOK'
    OBVIOUS
  <2>1. SwapNext \/ UNCHANGED fill
    BY DEF Next, vars
  <2>2. CASE UNCHANGED fill
    BY <2>2 DEF FillOK
  <2>3. CASE SwapNext
    BY <2>3 DEF SwapNext, FillOrder, FillOK
  <2> QED
    BY <2>1, <2>2, <2>3
<1>3. FillOK => SwapBalances
  BY FillBalances
<1> QED
  BY <1>1, <1>2, <1>3, PTL DEF Spec

-----------------------------------------------------------------------------
(* The Djed tracker                                                        *)

\* What the tracker keeps of an observation.
Tracked ==
    [ref : DjedOutputs, slot : Nat, transactionIndex : Nat, txIndex : Nat,
     spentAt : Nat \cup {NotSpent}]

\* The observations that are not marked as spent.
Unspent(obs) == {x \in obs : x.spentAt = NotSpent}

\* What Rollback leaves unspent, said of the observations before it.
LEMMA RollbackLeavesUnspent ==
    ASSUME NEW obs \in SUBSET Tracked, NEW slot \in Nat
    PROVE  Unspent(Rollback(obs, slot)) =
             {[x EXCEPT !.spentAt = NotSpent] :
                x \in {y \in obs : y.slot <= slot
                                     /\ (y.spentAt = NotSpent \/ y.spentAt > slot)}}
<1> DEFINE back(x) == IF x.spentAt > slot THEN [x EXCEPT !.spentAt = NotSpent] ELSE x
           kept == {y \in obs : y.slot <= slot}
           open == {y \in obs : y.slot <= slot
                                  /\ (y.spentAt = NotSpent \/ y.spentAt > slot)}
           clear(x) == [x EXCEPT !.spentAt = NotSpent]
<1>1. Unspent(Rollback(obs, slot)) = {z \in {back(x) : x \in kept} : z.spentAt = NotSpent}
  BY DEF Unspent, Rollback
<1>2. \A x \in kept : back(x).spentAt = NotSpent <=> x \in open
  BY DEF Tracked, NotSpent
<1>3. \A x \in open : back(x) = clear(x)
  BY DEF Tracked, NotSpent
<1>4. open \subseteq kept
  OBVIOUS
<1> HIDE DEF back, clear, open, kept
<1>5. {z \in {back(x) : x \in kept} : z.spentAt = NotSpent} = {clear(x) : x \in open}
  BY <1>2, <1>3, <1>4
<1> QED BY <1>1, <1>5 DEF clear, open

\* As the comment of Prune asks of its callers, beforeSlot is not beyond the
\* rollback horizon: then every rollback restores the same unspent outputs as
\* if nothing had been pruned, and the unspent ones are the same without one.
THEOREM PruneIsInvisible ==
    ASSUME NEW obs \in SUBSET Tracked, NEW before \in Nat, NEW slot \in Nat,
           slot >= before - 1
    PROVE  /\ Unspent(Prune(obs, before)) = Unspent(obs)
           /\ Unspent(Rollback(Prune(obs, before), slot)) = Unspent(Rollback(obs, slot))
<1>1. Unspent(Prune(obs, before)) = Unspent(obs)
  BY DEF Unspent, Prune
<1>2. Prune(obs, before) \in SUBSET Tracked
  BY DEF Prune
<1> DEFINE open(s) == {y \in s : y.slot <= slot
                                   /\ (y.spentAt = NotSpent \/ y.spentAt > slot)}
<1>3. open(Prune(obs, before)) = open(obs)
  <2>1. \A y \in obs : y.spentAt > slot => ~(y.spentAt < before)
    BY DEF Tracked, NotSpent
  <2> QED BY <2>1 DEF Prune
<1>4. Unspent(Rollback(Prune(obs, before), slot))
        = {[x EXCEPT !.spentAt = NotSpent] : x \in open(Prune(obs, before))}
  BY <1>2, RollbackLeavesUnspent
<1>5. Unspent(Rollback(obs, slot)) = {[x EXCEPT !.spentAt = NotSpent] : x \in open(obs)}
  BY RollbackLeavesUnspent
<1> QED BY <1>1, <1>3, <1>4, <1>5

-----------------------------------------------------------------------------
(* The Djed tracker is the ledger: the inductive invariant                 *)

\* A block of the chain: one of the bodies, in a slot.
DjedBlock ==
    {[slot |-> s, txs |-> b.txs, spends |-> b.spends] : b \in DjedBlocks, s \in DjedSlots}

\* A chain of blocks: an output is produced once and spent once, not before.
ChainOK(c) ==
    /\ c \in Seq(DjedBlock)
    /\ \A i, j \in 1..Len(c) :
          /\ i < j => c[i].slot < c[j].slot
          /\ i # j => RefsOf(c[i]) \cap RefsOf(c[j]) = {}
          /\ i # j => c[i].spends \cap c[j].spends = {}
    /\ \A j \in 1..Len(c) : \A r \in c[j].spends : \E i \in 1..j : r \in RefsOf(c[i])

\* The output that an observation is of.
OutputOf(x) ==
    [ref |-> x.ref, slot |-> x.slot, transactionIndex |-> x.transactionIndex,
     txIndex |-> x.txIndex]

\* What is tracked was produced on the chain c, and is marked as spent if one
\* of the first n blocks spends it, with the slot of the block that does.
HeldOK(c, n, obs) ==
    \A x \in obs :
       /\ \E i \in 1..Len(c) : OutputOf(x) \in OutputsOf(c[i])
       /\ IF x.spentAt = NotSpent THEN \A j \in 1..n : x.ref \notin c[j].spends
          ELSE \E j \in 1..Len(c) : x.ref \in c[j].spends /\ x.spentAt = c[j].slot

\* The outputs of the first n blocks are tracked, unless they were rejected or
\* are spent behind the horizon.
KeptOK(c, n, obs, refused, h) ==
    \A i \in 1..n : \A r \in RefsOf(c[i]) :
       \/ r \in refused \cup Refs(obs)
       \/ \E j \in 1..Len(c) : r \in c[j].spends /\ c[j].slot < h

\* An output is observed once, and not if it was rejected.
OnceOK(obs, refused) ==
    /\ \A x, y \in obs : x.ref = y.ref => x = y
    /\ Refs(obs) \cap refused = {}

\* The inductive invariant.
DjedInv ==
    /\ ChainOK(djedChain) /\ horizon \in Nat /\ tracked \in SUBSET Tracked
    /\ HeldOK(djedChain, Len(djedChain), tracked)
    /\ KeptOK(djedChain, Len(djedChain), tracked, rejected, horizon)
    /\ OnceOK(tracked, rejected)

-----------------------------------------------------------------------------
(* Blocks                                                                  *)

\* What a block is, and where its outputs are.
LEMMA BlockOf ==
    ASSUME NEW b \in DjedBlock
    PROVE  /\ b.slot \in Nat /\ b.txs \in Seq(Seq(DjedOutputs)) /\ b.spends \subseteq DjedOutputs
           /\ \A o \in OutputsOf(b) :
                 /\ o.ref \in DjedOutputs /\ o.slot = b.slot
                 /\ o.transactionIndex \in 1..Len(b.txs)
                 /\ o.txIndex \in 1..Len(b.txs[o.transactionIndex])
                 /\ o = [ref |-> o.ref, slot |-> o.slot,
                         transactionIndex |-> o.transactionIndex, txIndex |-> o.txIndex]
           /\ \A o, p \in OutputsOf(b) : o.ref = p.ref => o = p
           /\ \A o, p \in OutputsOf(b) :
                 o.transactionIndex = p.transactionIndex /\ o.txIndex = p.txIndex => o = p
<1>1. PICK a \in DjedBlocks, s \in DjedSlots :
        b = [slot |-> s, txs |-> a.txs, spends |-> a.spends]
  BY DEF DjedBlock
<1>2. /\ b.slot \in Nat /\ b.txs \in Seq(Seq(DjedOutputs)) /\ b.spends \subseteq DjedOutputs
      /\ \A i, k \in 1..Len(b.txs) : \A j \in 1..Len(b.txs[i]), l \in 1..Len(b.txs[k]) :
            b.txs[i][j] = b.txs[k][l] => i = k /\ j = l
  <2> DEFINE OK(txs, spends) ==
               /\ txs \in Seq(Seq(DjedOutputs)) /\ spends \subseteq DjedOutputs
               /\ \A i, k \in 1..Len(txs) : \A j \in 1..Len(txs[i]), l \in 1..Len(txs[k]) :
                     txs[i][j] = txs[k][l] => i = k /\ j = l
  <2>1. b.slot = s /\ b.txs = a.txs /\ b.spends = a.spends
    BY <1>1
  <2>2. OK(a.txs, a.spends) /\ s \in Nat
    BY DjedAssumption
  <2>3. OK(b.txs, b.spends) /\ b.slot \in Nat
    <3> HIDE DEF OK
    <3> QED
      BY <2>1, <2>2
  <2> QED
    BY ONLY <2>3
<1>3. ASSUME NEW o \in OutputsOf(b)
      PROVE  \E i \in 1..Len(b.txs) : \E j \in 1..Len(b.txs[i]) :
                o = [ref |-> b.txs[i][j], slot |-> b.slot, transactionIndex |-> i,
                     txIndex |-> j]
  BY <1>3 DEF OutputsOf
<1>4. \A i \in 1..Len(b.txs) : \A j \in 1..Len(b.txs[i]) : b.txs[i][j] \in DjedOutputs
  <2>1. \A i \in 1..Len(b.txs) : b.txs[i] \in Seq(DjedOutputs)
    BY <1>2
  <2> QED
    BY <2>1
<1>5. ASSUME NEW o \in OutputsOf(b)
      PROVE  /\ o.ref \in DjedOutputs /\ o.slot = b.slot
             /\ o.transactionIndex \in 1..Len(b.txs)
             /\ o.txIndex \in 1..Len(b.txs[o.transactionIndex])
             /\ o.ref = b.txs[o.transactionIndex][o.txIndex]
             /\ o = [ref |-> o.ref, slot |-> o.slot,
                     transactionIndex |-> o.transactionIndex, txIndex |-> o.txIndex]
  <2>1. PICK i \in 1..Len(b.txs) : \E j \in 1..Len(b.txs[i]) :
                o = [ref |-> b.txs[i][j], slot |-> b.slot, transactionIndex |-> i,
                     txIndex |-> j]
    BY <1>3
  <2>2. PICK j \in 1..Len(b.txs[i]) :
                o = [ref |-> b.txs[i][j], slot |-> b.slot, transactionIndex |-> i,
                     txIndex |-> j]
    BY <2>1
  <2>3. /\ o.ref = b.txs[i][j] /\ o.slot = b.slot /\ o.transactionIndex = i
        /\ o.txIndex = j
    BY <2>2
  <2>4. b.txs[i][j] \in DjedOutputs
    BY <1>4
  <2>5. o = [ref |-> o.ref, slot |-> o.slot,
             transactionIndex |-> o.transactionIndex, txIndex |-> o.txIndex]
    BY <2>2
  <2> QED
    BY <2>3, <2>4, <2>5
<1>6. ASSUME NEW o \in OutputsOf(b), NEW p \in OutputsOf(b),
             o.ref = p.ref
      PROVE  o = p
  <2>0. /\ o.transactionIndex \in 1..Len(b.txs) /\ p.transactionIndex \in 1..Len(b.txs)
        /\ o.txIndex \in 1..Len(b.txs[o.transactionIndex])
        /\ p.txIndex \in 1..Len(b.txs[p.transactionIndex])
        /\ b.txs[o.transactionIndex][o.txIndex] = b.txs[p.transactionIndex][p.txIndex]
    BY <1>5, <1>6
  <2>1. o.transactionIndex = p.transactionIndex /\ o.txIndex = p.txIndex
    <3>1. PICK i, k : i = o.transactionIndex /\ k = p.transactionIndex
      OBVIOUS
    <3>2. i \in 1..Len(b.txs) /\ k \in 1..Len(b.txs)
      BY <2>0, <3>1
    <3>3. \A j \in 1..Len(b.txs[i]), l \in 1..Len(b.txs[k]) :
             b.txs[i][j] = b.txs[k][l] => i = k /\ j = l
      BY <1>2, <3>2
    <3> QED
      BY <2>0, <3>1, <3>3
  <2> QED
    BY <1>5, <1>6, <2>1
<1>7. ASSUME NEW o \in OutputsOf(b), NEW p \in OutputsOf(b),
             o.transactionIndex = p.transactionIndex /\ o.txIndex = p.txIndex
      PROVE  o = p
  BY <1>5, <1>7
<1> QED
  BY <1>2, <1>5, <1>6, <1>7

\* The refs of a block are those of its outputs.
LEMMA RefsOfBlock ==
    ASSUME NEW b, NEW r
    PROVE  r \in RefsOf(b) <=> \E o \in OutputsOf(b) : o.ref = r
BY DEF RefsOf

\* An output is in one block of a chain only.
LEMMA OneBlock ==
    ASSUME NEW c, ChainOK(c), NEW i \in 1..Len(c), NEW j \in 1..Len(c),
           NEW o \in OutputsOf(c[i]), NEW p \in OutputsOf(c[j]), o.ref = p.ref
    PROVE  i = j /\ o = p
<1>1. i = j
  <2>1. o.ref \in RefsOf(c[i]) /\ o.ref \in RefsOf(c[j])
    BY DEF RefsOf
  <2> QED
    BY <2>1 DEF ChainOK
<1>2. c[i] \in DjedBlock
  BY DEF ChainOK
<1>3. o = p
  BY <1>1, <1>2, BlockOf
<1> QED
  BY <1>1, <1>3

\* The first blocks of a chain are one.
LEMMA ChainPrefix ==
    ASSUME NEW c, ChainOK(c), NEW n \in 0..Len(c)
    PROVE  /\ ChainOK(SubSeq(c, 1, n)) /\ Len(SubSeq(c, 1, n)) = n
           /\ \A i \in 1..n : SubSeq(c, 1, n)[i] = c[i]
<1> DEFINE d == SubSeq(c, 1, n)
<1>1. c \in Seq(DjedBlock) /\ Len(c) \in Nat
  BY DEF ChainOK
<1>2. d \in Seq(DjedBlock) /\ Len(d) = n /\ \A i \in 1..n : d[i] = c[i]
  BY <1>1, SubSeqProperties
<1> HIDE DEF d
<1>3. \A i \in 1..n : i \in 1..Len(c)
  BY <1>1
<1>4. ASSUME NEW i \in 1..n, NEW j \in 1..n
      PROVE  /\ i < j => d[i].slot < d[j].slot
             /\ i # j => RefsOf(d[i]) \cap RefsOf(d[j]) = {}
             /\ i # j => d[i].spends \cap d[j].spends = {}
  <2>1. d[i] = c[i] /\ d[j] = c[j] /\ i \in 1..Len(c) /\ j \in 1..Len(c)
    BY <1>2, <1>3
  <2> QED
    BY <2>1 DEF ChainOK
<1>5. ASSUME NEW j \in 1..n, NEW r \in d[j].spends
      PROVE  \E i \in 1..j : r \in RefsOf(d[i])
  <2>1. d[j] = c[j] /\ j \in 1..Len(c)
    BY <1>2, <1>3
  <2>2. PICK i \in 1..j : r \in RefsOf(c[i])
    BY <1>5, <2>1 DEF ChainOK
  <2>3. d[i] = c[i]
    BY <1>2
  <2> QED
    BY <2>2, <2>3
<1>6. ChainOK(d)
  BY <1>2, <1>4, <1>5 DEF ChainOK
<1> QED
  BY <1>2, <1>6 DEF d

-----------------------------------------------------------------------------
(* Steps                                                                   *)

\* What Apply and ConsumeAt make of what is tracked.
LEMMA DeliveredAre ==
    ASSUME NEW b \in DjedBlock, NEW obs \in SUBSET Tracked, NEW t,
           NEW made, made = Apply(obs, OutputsOf(b), t),
           NEW next, next = ConsumeAt(made, b.spends, b.slot),
           OnceOK(obs, {})
    PROVE  /\ next \in SUBSET Tracked
           /\ Refs(next) = Refs(made)
           /\ Refs(obs) \subseteq Refs(made) /\ Refs(made) \subseteq Refs(obs) \cup RefsOf(b)
           /\ OnceOK(next, {})
           /\ \A x \in next :
                 \E y \in Tracked :
                    /\ OutputOf(y) = OutputOf(x)
                    /\ \/ y \in obs
                       \/ y.spentAt = NotSpent /\ OutputOf(y) \in OutputsOf(b)
                    /\ x.spentAt = IF x.ref \in b.spends THEN b.slot ELSE y.spentAt
<1> DEFINE take(o) == [ref |-> o.ref, slot |-> o.slot,
                       transactionIndex |-> o.transactionIndex,
                       txIndex |-> o.txIndex, spentAt |-> NotSpent]
           good == {o \in OutputsOf(b) : /\ ParseMainnetObservation(Datum[o.ref], t)
                                         /\ o.ref \notin Refs(obs)}
           mark(x) == IF x.ref \in b.spends THEN [x EXCEPT !.spentAt = b.slot] ELSE x
<1>1. made = obs \cup {take(o) : o \in good} /\ next = {mark(x) : x \in made}
  BY DEF Apply, ConsumeAt
<1>2. \A o \in good : /\ take(o) \in Tracked /\ OutputOf(take(o)) = o
                      /\ take(o).ref = o.ref /\ take(o).spentAt = NotSpent
                      /\ o \in OutputsOf(b) /\ o.ref \in RefsOf(b)
  <2> SUFFICES ASSUME NEW o \in good
               PROVE  /\ take(o) \in Tracked /\ OutputOf(take(o)) = o
                      /\ take(o).ref = o.ref /\ take(o).spentAt = NotSpent
                      /\ o \in OutputsOf(b) /\ o.ref \in RefsOf(b)
    OBVIOUS
  <2>1. o \in OutputsOf(b)
    OBVIOUS
  <2>2. /\ o.ref \in DjedOutputs /\ o.slot \in Nat
        /\ o.transactionIndex \in 1..Len(b.txs) /\ o.txIndex \in 1..Len(b.txs[o.transactionIndex])
        /\ o = [ref |-> o.ref, slot |-> o.slot,
                transactionIndex |-> o.transactionIndex, txIndex |-> o.txIndex]
    BY <2>1, BlockOf
  <2>3. o.transactionIndex \in Nat /\ o.txIndex \in Nat
    BY <2>2
  <2>4. take(o) \in Tracked
    BY <2>2, <2>3 DEF Tracked
  <2> QED
    BY <2>1, <2>2, <2>4 DEF OutputOf, RefsOf
<1>3. \A x \in Tracked : /\ mark(x) \in Tracked /\ OutputOf(mark(x)) = OutputOf(x)
                         /\ mark(x).ref = x.ref
                         /\ mark(x).spentAt = IF x.ref \in b.spends THEN b.slot ELSE x.spentAt
  <2>1. b.slot \in Nat
    BY BlockOf
  <2> QED
    BY <2>1 DEF Tracked, OutputOf
<1> HIDE DEF mark, take
<1>4. made \in SUBSET Tracked /\ next \in SUBSET Tracked
  BY <1>1, <1>2, <1>3
<1>5. Refs(next) = Refs(made)
  <2>1. \A x \in made : mark(x) \in next /\ mark(x).ref = x.ref
    BY <1>1, <1>3, <1>4
  <2>2. \A y \in next : \E x \in made : y.ref = x.ref
    BY <1>1, <2>1
  <2>3. \A x \in made : \E y \in next : y.ref = x.ref
    BY <2>1
  <2> QED
    BY <2>2, <2>3 DEF Refs
<1>6. Refs(obs) \subseteq Refs(made) /\ Refs(made) \subseteq Refs(obs) \cup RefsOf(b)
  BY <1>1, <1>2 DEF Refs
<1>7. \A x, y \in made : x.ref = y.ref => x = y
  <2> SUFFICES ASSUME NEW x \in made, NEW y \in made, x.ref = y.ref
               PROVE  x = y
    OBVIOUS
  <2>1. CASE x \in obs /\ y \in obs
    BY <2>1 DEF OnceOK
  <2>2. CASE x \notin obs /\ y \notin obs
    <3>1. PICK o \in good, p \in good : x = take(o) /\ y = take(p)
      BY <1>1, <2>2
    <3>2. o.ref = p.ref
      BY <1>2, <3>1
    <3>3. o = p
      BY <1>2, <3>2, BlockOf
    <3> QED
      BY <3>1, <3>3
  <2>3. CASE x \in obs /\ y \notin obs
    <3>1. PICK p \in good : y = take(p)
      BY <1>1, <2>3
    <3>2. p.ref \notin Refs(obs)
      OBVIOUS
    <3> QED
      BY <1>2, <2>3, <3>1, <3>2 DEF Refs
  <2>4. CASE x \notin obs /\ y \in obs
    <3>1. PICK p \in good : x = take(p)
      BY <1>1, <2>4
    <3>2. p.ref \notin Refs(obs)
      OBVIOUS
    <3> QED
      BY <1>2, <2>4, <3>1, <3>2 DEF Refs
  <2> QED
    BY <2>1, <2>2, <2>3, <2>4
<1>8. OnceOK(next, {})
  <2>1. \A x, y \in next : x.ref = y.ref => x = y
    BY <1>1, <1>3, <1>4, <1>7
  <2> QED
    BY <2>1 DEF OnceOK
<1>9. ASSUME NEW x \in next
      PROVE  \E y \in Tracked :
                /\ OutputOf(y) = OutputOf(x)
                /\ \/ y \in obs
                   \/ y.spentAt = NotSpent /\ OutputOf(y) \in OutputsOf(b)
                /\ x.spentAt = IF x.ref \in b.spends THEN b.slot ELSE y.spentAt
  <2>1. PICK y \in made : x = mark(y)
    BY <1>1, <1>9
  <2>2. y \in Tracked
    BY <1>4
  <2>3. /\ OutputOf(y) = OutputOf(x) /\ x.ref = y.ref
        /\ x.spentAt = IF y.ref \in b.spends THEN b.slot ELSE y.spentAt
    BY <1>3, <2>1, <2>2
  <2>4. y \in obs \/ (y.spentAt = NotSpent /\ OutputOf(y) \in OutputsOf(b))
    BY <1>1, <1>2
  <2> QED
    BY <2>2, <2>3, <2>4
<1> QED
  BY <1>4, <1>5, <1>6, <1>8, <1>9

\* A tracked output is in the block that produced it.
LEMMA HeldWhere ==
    ASSUME NEW c, ChainOK(c), NEW x \in Tracked, NEW i \in 1..Len(c),
           OutputOf(x) \in OutputsOf(c[i])
    PROVE  x.slot = c[i].slot /\ x.ref \in RefsOf(c[i]) /\ c[i].slot \in Nat
<1>1. c[i] \in DjedBlock
  BY DEF ChainOK
<1>2. OutputOf(x).slot = x.slot /\ OutputOf(x).ref = x.ref
  BY DEF OutputOf
<1> QED
  BY <1>1, <1>2, BlockOf, RefsOfBlock

\* An output is not spent before the block that produces it.
LEMMA SpentNotBefore ==
    ASSUME NEW c, ChainOK(c), NEW i \in 1..Len(c), NEW j \in 1..Len(c),
           NEW r \in RefsOf(c[i]), r \in c[j].spends
    PROVE  i <= j
<1>1. PICK k \in 1..j : r \in RefsOf(c[k])
  BY DEF ChainOK
<1>2. Len(c) \in Nat
  BY DEF ChainOK
<1>3. k \in 1..Len(c)
  BY <1>2
<1>4. k = i
  BY <1>1, <1>3 DEF ChainOK
<1> QED
  BY <1>4

\* The block b turns what is tracked and what is refused into next and Q.
Delivered(b, obs, t, R, made, next, Q) ==
    /\ made = Apply(obs, OutputsOf(b), t)
    /\ next = ConsumeAt(made, b.spends, b.slot)
    /\ Q = (R \ RefsOf(b)) \cup (RefsOf(b) \ Refs(made))

\* The last block of a chain is delivered, for the first time or again.
LEMMA DeliverKeeps ==
    ASSUME NEW c, ChainOK(c), NEW n \in Nat \ {0}, n = Len(c), NEW b, b = c[n],
           NEW obs \in SUBSET Tracked, NEW t, NEW made, NEW next, NEW h, NEW R, NEW Q,
           Delivered(b, obs, t, R, made, next, Q),
           OnceOK(obs, R), HeldOK(c, n - 1, obs), KeptOK(c, n - 1, obs, R, h)
    PROVE  /\ next \in SUBSET Tracked /\ HeldOK(c, n, next)
           /\ KeptOK(c, n, next, Q, h) /\ OnceOK(next, Q)
<1> /\ made = Apply(obs, OutputsOf(b), t)
    /\ next = ConsumeAt(made, b.spends, b.slot)
    /\ Q = (R \ RefsOf(b)) \cup (RefsOf(b) \ Refs(made))
  BY DEF Delivered
<1>0. b \in DjedBlock /\ OnceOK(obs, {}) /\ n \in 1..Len(c)
  BY DEF ChainOK, OnceOK
<1>1. /\ next \in SUBSET Tracked
      /\ Refs(next) = Refs(made)
      /\ Refs(obs) \subseteq Refs(made) /\ Refs(made) \subseteq Refs(obs) \cup RefsOf(b)
      /\ OnceOK(next, {})
  BY <1>0, DeliveredAre
<1>2. \A x \in next :
         \E y \in Tracked :
            /\ OutputOf(y) = OutputOf(x)
            /\ \/ y \in obs
               \/ y.spentAt = NotSpent /\ OutputOf(y) \in OutputsOf(b)
            /\ x.spentAt = IF x.ref \in b.spends THEN b.slot ELSE y.spentAt
  BY <1>0, DeliveredAre
<1>3. b.slot \in Nat
  BY <1>0, BlockOf
<1>4. ASSUME NEW x \in next
      PROVE  /\ \E i \in 1..Len(c) : OutputOf(x) \in OutputsOf(c[i])
             /\ IF x.spentAt = NotSpent THEN \A j \in 1..n : x.ref \notin c[j].spends
                ELSE \E j \in 1..Len(c) : x.ref \in c[j].spends /\ x.spentAt = c[j].slot
  <2>1. PICK y \in Tracked :
            /\ OutputOf(y) = OutputOf(x)
            /\ \/ y \in obs
               \/ y.spentAt = NotSpent /\ OutputOf(y) \in OutputsOf(b)
            /\ x.spentAt = IF x.ref \in b.spends THEN b.slot ELSE y.spentAt
    BY <1>2, <1>4
  <2>2. x.ref = y.ref /\ x \in Tracked
    <3>1. OutputOf(x).ref = x.ref /\ OutputOf(y).ref = y.ref
      BY DEF OutputOf
    <3> QED
      BY <1>1, <1>4, <2>1, <3>1
  <2>3. \E i \in 1..Len(c) : OutputOf(x) \in OutputsOf(c[i])
    <3>1. CASE y \in obs
      BY <2>1, <3>1 DEF HeldOK
    <3>2. CASE OutputOf(y) \in OutputsOf(b)
      BY <1>0, <2>1, <3>2
    <3> QED
      BY <2>1, <3>1, <3>2
  <2>4. CASE x.ref \in b.spends
    <3>1. x.spentAt = b.slot /\ x.spentAt # NotSpent
      BY <1>3, <2>1, <2>4 DEF NotSpent
    <3> QED
      BY <1>0, <2>3, <2>4, <3>1
  <2>5. CASE x.ref \notin b.spends /\ y \in obs
    <3>1. x.spentAt = y.spentAt
      BY <2>1, <2>5
    <3>2. CASE y.spentAt = NotSpent
      <4>1. \A j \in 1..(n - 1) : x.ref \notin c[j].spends
        BY <2>2, <2>5, <3>2 DEF HeldOK
      <4>2. \A j \in 1..n : j \in 1..(n - 1) \/ j = n
        OBVIOUS
      <4>3. \A j \in 1..n : x.ref \notin c[j].spends
        BY <2>5, <4>1, <4>2
      <4> QED
        BY <2>3, <3>1, <3>2, <4>3
    <3>3. CASE y.spentAt # NotSpent
      <4>1. \E j \in 1..Len(c) : y.ref \in c[j].spends /\ y.spentAt = c[j].slot
        BY <2>5, <3>3 DEF HeldOK
      <4> QED
        BY <2>2, <2>3, <3>1, <3>3, <4>1
    <3> QED
      BY <3>2, <3>3
  <2>6. CASE x.ref \notin b.spends /\ y \notin obs
    <3>1. x.spentAt = NotSpent /\ OutputOf(x) \in OutputsOf(c[n])
      BY <2>1, <2>6
    <3>2. x.ref \in RefsOf(c[n])
      BY <1>0, <2>2, <3>1, HeldWhere
    <3>3. ASSUME NEW j \in 1..n, x.ref \in c[j].spends PROVE FALSE
      <4>1. n <= j
        BY <1>0, <3>2, <3>3, SpentNotBefore
      <4> QED
        BY <2>6, <3>3, <4>1
    <3> QED
      BY <2>3, <3>1, <3>3
  <2> QED
    BY <2>4, <2>5, <2>6
<1>5. ASSUME NEW i \in 1..n, NEW r \in RefsOf(c[i])
      PROVE  \/ r \in Q \cup Refs(next)
             \/ \E j \in 1..Len(c) : r \in c[j].spends /\ c[j].slot < h
  <2>1. CASE i = n
    BY <1>1, <1>5, <2>1
  <2>2. CASE i # n
    <3>1. i \in 1..(n - 1) /\ i \in 1..Len(c)
      BY <2>2
    <3>2. r \notin RefsOf(b)
      BY <1>0, <1>5, <2>2, <3>1 DEF ChainOK
    <3>3. \/ r \in R \cup Refs(obs)
          \/ \E j \in 1..Len(c) : r \in c[j].spends /\ c[j].slot < h
      BY <1>5, <3>1 DEF KeptOK
    <3> QED
      BY <1>1, <3>2, <3>3
  <2> QED
    BY <2>1, <2>2
<1>6. Refs(next) \cap Q = {}
  BY <1>1 DEF OnceOK
<1> QED
  BY <1>1, <1>4, <1>5, <1>6 DEF HeldOK, KeptOK, OnceOK

\* A new block, of which every output is handled.
LEMMA RollForwardKeeps ==
    ASSUME DjedInv, NEW b \in DjedBlock, RollForward(b)
    PROVE  DjedInv'
<1> DEFINE c == djedChain
           m == Len(djedChain)
           d == Append(djedChain, b)
<1>1. ChainOK(c) /\ c \in Seq(DjedBlock) /\ m \in Nat
  <2>1. ChainOK(c)
    BY DEF DjedInv
  <2>2. c \in Seq(DjedBlock)
    BY <2>1 DEF ChainOK
  <2> QED
    BY <2>1, <2>2
<1>2. /\ d \in Seq(DjedBlock) /\ Len(d) = m + 1 /\ d[m + 1] = b
      /\ \A i \in 1..m : d[i] = c[i]
  BY <1>1, AppendProperties
<1>3. djedChain' = d /\ UNCHANGED <<time, horizon>>
  BY DEF RollForward
<1>4. /\ \A i \in 1..m : c[i].slot < b.slot
      /\ \A i \in 1..m : RefsOf(c[i]) \cap RefsOf(b) = {}
      /\ \A r \in b.spends : \/ r \in RefsOf(b)
                             \/ /\ \E i \in 1..m : r \in RefsOf(c[i])
                                /\ \A i \in 1..m : r \notin c[i].spends
  <2>1. DOMAIN c = 1..m
    BY <1>1
  <2>2. ASSUME NEW i \in 1..m PROVE c[i].slot < b.slot
    <3>1. c # <<>> /\ m \in 1..m
      BY <1>1
    <3>2. b.slot > c[m].slot
      BY <3>1 DEF RollForward, Last
    <3>3. c[i] \in DjedBlock /\ c[m] \in DjedBlock
      BY <1>1, <3>1
    <3>4. c[i].slot \in Nat /\ c[m].slot \in Nat /\ b.slot \in Nat
      BY <3>3, BlockOf
    <3>5. i < m => c[i].slot < c[m].slot
      BY <1>1, <3>1 DEF ChainOK
    <3>6. i = m \/ i < m
      BY <1>1
    <3> QED
      BY <3>2, <3>4, <3>5, <3>6
  <2>3. ASSUME NEW i \in 1..m PROVE RefsOf(c[i]) \cap RefsOf(b) = {}
    <3>1. RefsOf(b) \cap UNION {RefsOf(c[k]) : k \in DOMAIN c} = {}
      BY DEF RollForward
    <3> QED
      BY <2>1, <3>1
  <2>4. ASSUME NEW r \in b.spends, r \notin RefsOf(b)
        PROVE  /\ \E i \in 1..m : r \in RefsOf(c[i])
               /\ \A i \in 1..m : r \notin c[i].spends
    <3>1. r \in Ledger(c)
      BY <2>4 DEF RollForward
    <3> QED
      BY <2>1, <3>1 DEF Ledger
  <2> QED
    BY <2>2, <2>3, <2>4
<1> HIDE DEF d
<1>5. ASSUME NEW j \in 1..(m + 1), NEW r \in d[j].spends
      PROVE  \E i \in 1..j : r \in RefsOf(d[i])
  <2>1. CASE j \in 1..m
    <3>1. PICK i \in 1..j : r \in RefsOf(c[i])
      BY <1>1, <1>2, <1>5, <2>1 DEF ChainOK
    <3>2. i \in 1..m
      BY <2>1
    <3> QED
      BY <1>2, <3>1, <3>2
  <2>2. CASE j = m + 1
    <3>1. CASE r \in RefsOf(b)
      BY <1>1, <1>2, <2>2, <3>1
    <3>2. CASE r \notin RefsOf(b)
      <4>1. PICK i \in 1..m : r \in RefsOf(c[i])
        BY <1>2, <1>4, <1>5, <2>2, <3>2
      <4>2. i \in 1..j /\ d[i] = c[i]
        BY <1>1, <1>2, <2>2
      <4> QED
        BY <4>1, <4>2
    <3> QED
      BY <3>1, <3>2
  <2> QED
    BY <1>1, <2>1, <2>2
<1>6. \A i \in 1..m : c[i].spends \cap b.spends = {}
  <2> SUFFICES ASSUME NEW i \in 1..m, NEW r \in c[i].spends, r \in b.spends
               PROVE  FALSE
    OBVIOUS
  <2>1. r \in RefsOf(b)
    BY <1>4
  <2>2. PICK k \in 1..i : r \in RefsOf(c[k])
    BY <1>1 DEF ChainOK
  <2>3. k \in 1..m
    BY <1>1
  <2> QED
    BY <1>4, <2>1, <2>2, <2>3
<1>7. ASSUME NEW i \in 1..(m + 1), NEW j \in 1..(m + 1)
      PROVE  /\ i < j => d[i].slot < d[j].slot
             /\ i # j => RefsOf(d[i]) \cap RefsOf(d[j]) = {}
             /\ i # j => d[i].spends \cap d[j].spends = {}
  <2>1. CASE i \in 1..m /\ j \in 1..m
    <3>1. d[i] = c[i] /\ d[j] = c[j]
      BY <1>2, <2>1
    <3> QED
      BY <1>1, <2>1, <3>1 DEF ChainOK
  <2>2. CASE i \in 1..m /\ j = m + 1
    <3>1. d[i] = c[i] /\ d[j] = b
      BY <1>2, <2>2
    <3> QED
      BY <1>4, <1>6, <2>2, <3>1
  <2>3. CASE i = m + 1 /\ j \in 1..m
    <3>1. d[i] = b /\ d[j] = c[j] /\ ~(i < j)
      BY <1>1, <1>2, <2>3
    <3> QED
      BY <1>4, <1>6, <2>3, <3>1
  <2>4. CASE i = m + 1 /\ j = m + 1
    BY <1>1, <2>4
  <2> QED
    BY <1>1, <2>1, <2>2, <2>3, <2>4
<1>8. ChainOK(d)
  BY <1>2, <1>5, <1>7 DEF ChainOK
<1>9. HeldOK(d, m, tracked) /\ KeptOK(d, m, tracked, rejected, horizon)
  <2>0. 1..m \subseteq 1..Len(d)
    BY <1>1, <1>2
  <2>1. ASSUME NEW x \in tracked
        PROVE  /\ \E i \in 1..Len(d) : OutputOf(x) \in OutputsOf(d[i])
               /\ IF x.spentAt = NotSpent THEN \A j \in 1..m : x.ref \notin d[j].spends
                  ELSE \E j \in 1..Len(d) : x.ref \in d[j].spends /\ x.spentAt = d[j].slot
    <3>1. /\ \E i \in 1..m : OutputOf(x) \in OutputsOf(c[i])
          /\ IF x.spentAt = NotSpent THEN \A j \in 1..m : x.ref \notin c[j].spends
             ELSE \E j \in 1..m : x.ref \in c[j].spends /\ x.spentAt = c[j].slot
      BY <2>1 DEF DjedInv, HeldOK
    <3> QED
      BY <1>2, <2>0, <3>1
  <2>2. ASSUME NEW i \in 1..m, NEW r \in RefsOf(d[i])
        PROVE  \/ r \in rejected \cup Refs(tracked)
               \/ \E j \in 1..Len(d) : r \in d[j].spends /\ d[j].slot < horizon
    <3>1. \/ r \in rejected \cup Refs(tracked)
          \/ \E j \in 1..m : r \in c[j].spends /\ c[j].slot < horizon
      BY <1>2, <2>2 DEF DjedInv, KeptOK
    <3> QED
      BY <1>2, <2>0, <3>1
  <2> QED
    BY <2>1, <2>2 DEF HeldOK, KeptOK
<1>10. PICK n, made :
          n \in Nat \ {0} /\ n = m + 1 /\ made = Apply(tracked, OutputsOf(b), time)
  BY <1>1
<1>11. /\ tracked' = ConsumeAt(made, b.spends, b.slot)
       /\ rejected' = (rejected \ RefsOf(b)) \cup (RefsOf(b) \ Refs(made))
  BY <1>10 DEF RollForward, Deliver
<1>12. n \in Nat \ {0} /\ n = Len(d) /\ b = d[n] /\ m = n - 1
  BY <1>1, <1>2, <1>10
<1>13. tracked \in SUBSET Tracked /\ OnceOK(tracked, rejected)
  BY DEF DjedInv
<1>14. HeldOK(d, n - 1, tracked) /\ KeptOK(d, n - 1, tracked, rejected, horizon)
  BY <1>9, <1>12
<1>15. PICK next, Q : next = tracked' /\ Q = rejected'
  OBVIOUS
<1>16. /\ next \in SUBSET Tracked /\ HeldOK(d, n, next)
       /\ KeptOK(d, n, next, Q, horizon) /\ OnceOK(next, Q)
  <2>1. Delivered(b, tracked, time, rejected, made, next, Q)
    BY <1>10, <1>11, <1>15 DEF Delivered
  <2> QED
    BY <1>8, <1>12, <1>13, <1>14, <2>1, DeliverKeeps
<1> QED
  <2>1. /\ tracked' \in SUBSET Tracked /\ HeldOK(d, Len(d), tracked')
        /\ KeptOK(d, Len(d), tracked', rejected', horizon) /\ OnceOK(tracked', rejected')
    BY <1>12, <1>15, <1>16
  <2> QED
    BY <1>3, <1>8, <2>1 DEF DjedInv

\* The last block once more: nothing is added or spent twice.
LEMMA RedeliverKeeps ==
    ASSUME DjedInv, Redeliver
    PROVE  DjedInv'
<1> DEFINE c == djedChain
<1>1. ChainOK(c) /\ c \in Seq(DjedBlock) /\ c # <<>>
  <2>1. ChainOK(c) /\ c # <<>>
    BY DEF DjedInv, Redeliver
  <2> QED
    BY <2>1 DEF ChainOK
<1>2. PICK n, b, made :
         n \in Nat \ {0} /\ n = Len(c) /\ b = c[n] /\ made = Apply(tracked, OutputsOf(b), time)
  BY <1>1
<1>3. /\ djedChain' = c /\ UNCHANGED <<time, horizon>>
      /\ tracked' = ConsumeAt(made, b.spends, b.slot)
      /\ rejected' = (rejected \ RefsOf(b)) \cup (RefsOf(b) \ Refs(made))
  BY <1>2 DEF Redeliver, Deliver, Last
<1>4. /\ tracked \in SUBSET Tracked /\ OnceOK(tracked, rejected)
      /\ HeldOK(c, n, tracked) /\ KeptOK(c, n, tracked, rejected, horizon)
  BY <1>2 DEF DjedInv
<1>5. 1..(n - 1) \subseteq 1..n
  BY <1>2
<1>6. HeldOK(c, n - 1, tracked)
  BY <1>4, <1>5 DEF HeldOK
<1>7. KeptOK(c, n - 1, tracked, rejected, horizon)
  BY <1>4, <1>5 DEF KeptOK
<1>8. PICK next, Q : next = tracked' /\ Q = rejected'
  OBVIOUS
<1>9. /\ next \in SUBSET Tracked /\ HeldOK(c, n, next)
      /\ KeptOK(c, n, next, Q, horizon) /\ OnceOK(next, Q)
  <2>1. Delivered(b, tracked, time, rejected, made, next, Q)
    BY <1>2, <1>3, <1>8 DEF Delivered
  <2>2. n \in Nat \ {0} /\ n = Len(c) /\ b = c[n]
    BY <1>2
  <2> QED
    BY <1>1, <1>4, <1>6, <1>7, <2>1, <2>2, DeliverKeeps
<1> QED
  <2>1. /\ tracked' \in SUBSET Tracked /\ HeldOK(c, Len(c), tracked')
        /\ KeptOK(c, Len(c), tracked', rejected', horizon) /\ OnceOK(tracked', rejected')
    BY <1>2, <1>8, <1>9
  <2> QED
    BY <1>1, <1>3, <2>1 DEF DjedInv

\* What Rollback makes of what is tracked.
LEMMA RolledBackAre ==
    ASSUME NEW obs \in SUBSET Tracked, NEW s \in Nat, NEW next, next = Rollback(obs, s),
           OnceOK(obs, {})
    PROVE  /\ next \in SUBSET Tracked /\ OnceOK(next, {}) /\ Refs(next) \subseteq Refs(obs)
           /\ \A y \in obs : y.slot <= s => y.ref \in Refs(next)
           /\ \A x \in next :
                 \E y \in obs :
                    /\ OutputOf(y) = OutputOf(x) /\ y.ref = x.ref /\ y.slot <= s
                    /\ x.spentAt = IF y.spentAt > s THEN NotSpent ELSE y.spentAt
<1> DEFINE back(x) == IF x.spentAt > s THEN [x EXCEPT !.spentAt = NotSpent] ELSE x
           stay == {y \in obs : y.slot <= s}
<1>1. next = {back(x) : x \in stay}
  BY DEF Rollback
<1>2. \A x \in Tracked : /\ back(x) \in Tracked /\ OutputOf(back(x)) = OutputOf(x)
                         /\ back(x).ref = x.ref
                         /\ back(x).spentAt = IF x.spentAt > s THEN NotSpent ELSE x.spentAt
  BY DEF Tracked, OutputOf, NotSpent
<1> HIDE DEF back
<1>3. next \in SUBSET Tracked
  BY <1>1, <1>2
<1>4. \A y \in obs : y.slot <= s => y.ref \in Refs(next)
  <2> SUFFICES ASSUME NEW y \in obs, y.slot <= s PROVE y.ref \in Refs(next)
    OBVIOUS
  <2>1. back(y) \in next /\ back(y).ref = y.ref
    BY <1>1, <1>2
  <2> QED
    BY <2>1 DEF Refs
<1>5. \A x \in next :
         \E y \in obs :
            /\ OutputOf(y) = OutputOf(x) /\ y.ref = x.ref /\ y.slot <= s
            /\ x.spentAt = IF y.spentAt > s THEN NotSpent ELSE y.spentAt
  BY <1>1, <1>2
<1>6. Refs(next) \subseteq Refs(obs)
  BY <1>5 DEF Refs
<1>7. OnceOK(next, {})
  <2>1. \A x, y \in next : x.ref = y.ref => x = y
    BY <1>1, <1>2 DEF OnceOK
  <2> QED
    BY <2>1 DEF OnceOK
<1> QED
  BY <1>3, <1>4, <1>5, <1>6, <1>7

\* A rollback of the chain and of what was observed.
LEMMA RollBackwardKeeps ==
    ASSUME DjedInv, NEW n \in 0..(Len(djedChain) - 1), NEW s \in Nat, RollBackward(n, s)
    PROVE  DjedInv'
<1>1. PICK c, d, next, Q : c = djedChain /\ d = SubSeq(c, 1, n) /\ next = Rollback(tracked, s)
                           /\ Q = rejected \cap UNION {RefsOf(c[i]) : i \in 1..n}
  OBVIOUS
<1>2. /\ djedChain' = d /\ tracked' = next /\ rejected' = Q /\ horizon' = horizon
      /\ s < c[n + 1].slot /\ (n > 0 => s >= c[n].slot) /\ s >= horizon - 1
  BY <1>1 DEF RollBackward
<1>3. /\ ChainOK(c) /\ horizon \in Nat /\ tracked \in SUBSET Tracked
      /\ HeldOK(c, Len(c), tracked) /\ KeptOK(c, Len(c), tracked, rejected, horizon)
      /\ OnceOK(tracked, rejected)
  BY <1>1 DEF DjedInv
<1>4. c \in Seq(DjedBlock)
  BY <1>3 DEF ChainOK
<1>5. Len(c) \in Nat /\ n \in 0..Len(c) /\ n + 1 \in 1..Len(c) /\ n \in Nat
  BY <1>1, <1>4
<1>6. ChainOK(d) /\ Len(d) = n /\ \A i \in 1..n : d[i] = c[i] /\ i \in 1..Len(c)
  BY <1>1, <1>3, <1>5, ChainPrefix
<1>7. ASSUME NEW i \in 1..Len(c)
      PROVE  c[i].slot \in Nat /\ (c[i].slot <= s <=> i \in 1..n)
  <2>1. \A k \in 1..Len(c) : c[k].slot \in Nat
    BY <1>4, BlockOf
  <2>2. CASE i \in 1..n
    <3>1. n \in 1..Len(c) /\ n > 0 /\ (i = n \/ i < n)
      BY <1>5, <2>2
    <3>2. i < n => c[i].slot < c[n].slot
      BY <1>3, <3>1 DEF ChainOK
    <3>3. c[i].slot \in Nat /\ c[n].slot \in Nat /\ c[n].slot <= s
      BY <1>2, <2>1, <3>1
    <3> QED
      BY <2>2, <3>1, <3>2, <3>3
  <2>3. CASE i \notin 1..n
    <3>1. i = n + 1 \/ n + 1 < i
      BY <1>5, <2>3
    <3>2. n + 1 < i => c[n + 1].slot < c[i].slot
      BY <1>3, <1>5 DEF ChainOK
    <3>3. c[i].slot \in Nat /\ c[n + 1].slot \in Nat /\ s < c[n + 1].slot
      BY <1>2, <1>5, <2>1
    <3> QED
      BY <2>3, <3>1, <3>2, <3>3
  <2> QED
    BY <2>2, <2>3
<1>8. OnceOK(tracked, {})
  BY <1>3 DEF OnceOK
<1>9. /\ next \in SUBSET Tracked /\ OnceOK(next, {}) /\ Refs(next) \subseteq Refs(tracked)
      /\ \A y \in tracked : y.slot <= s => y.ref \in Refs(next)
  BY <1>1, <1>3, <1>8, RolledBackAre
<1>10. \A x \in next :
         \E y \in tracked :
            /\ OutputOf(y) = OutputOf(x) /\ y.ref = x.ref /\ y.slot <= s
            /\ x.spentAt = IF y.spentAt > s THEN NotSpent ELSE y.spentAt
  BY <1>1, <1>3, <1>8, RolledBackAre
<1>11. ASSUME NEW x \in next
       PROVE  /\ \E i \in 1..n : OutputOf(x) \in OutputsOf(d[i])
              /\ IF x.spentAt = NotSpent THEN \A j \in 1..n : x.ref \notin d[j].spends
                 ELSE \E j \in 1..n : x.ref \in d[j].spends /\ x.spentAt = d[j].slot
  <2>1. PICK y \in tracked :
            /\ OutputOf(y) = OutputOf(x) /\ y.ref = x.ref /\ y.slot <= s
            /\ x.spentAt = IF y.spentAt > s THEN NotSpent ELSE y.spentAt
    BY <1>10, <1>11
  <2>2. /\ \E i \in 1..Len(c) : OutputOf(y) \in OutputsOf(c[i])
        /\ IF y.spentAt = NotSpent THEN \A j \in 1..Len(c) : y.ref \notin c[j].spends
           ELSE \E j \in 1..Len(c) : y.ref \in c[j].spends /\ y.spentAt = c[j].slot
    BY <1>3 DEF HeldOK
  <2>3. \E i \in 1..n : OutputOf(x) \in OutputsOf(d[i])
    <3>1. PICK i \in 1..Len(c) : OutputOf(y) \in OutputsOf(c[i])
      BY <2>2
    <3>2. y.slot = c[i].slot
      BY <1>3, <3>1, HeldWhere
    <3>3. i \in 1..n
      BY <1>7, <2>1, <3>2
    <3> QED
      BY <1>6, <2>1, <3>1, <3>3
  <2>4. CASE y.spentAt = NotSpent
    <3>1. x.spentAt = NotSpent
      BY <2>1, <2>4
    <3>2. \A j \in 1..n : x.ref \notin d[j].spends
      BY <1>6, <2>1, <2>2, <2>4
    <3> QED
      BY <2>3, <3>1, <3>2
  <2>5. CASE y.spentAt # NotSpent
    <3>1. PICK k \in 1..Len(c) : y.ref \in c[k].spends /\ y.spentAt = c[k].slot
      BY <2>2, <2>5
    <3>2. CASE k \in 1..n
      <4>1. c[k].slot \in Nat /\ c[k].slot <= s
        BY <1>7, <3>2
      <4>2. x.spentAt = c[k].slot /\ x.spentAt # NotSpent
        BY <2>1, <3>1, <4>1 DEF NotSpent
      <4> QED
        BY <1>6, <2>1, <2>3, <3>1, <3>2, <4>2
    <3>3. CASE k \notin 1..n
      <4>1. c[k].slot \in Nat /\ ~(c[k].slot <= s)
        BY <1>7, <3>3
      <4>2. x.spentAt = NotSpent
        BY <2>1, <3>1, <4>1
      <4>3. ASSUME NEW j \in 1..n PROVE x.ref \notin d[j].spends
        <5>1. j \in 1..Len(c) /\ d[j] = c[j] /\ j # k
          BY <1>6, <3>3
        <5>2. c[j].spends \cap c[k].spends = {}
          BY <1>3, <5>1 DEF ChainOK
        <5> QED
          BY <2>1, <3>1, <5>1, <5>2
      <4> QED
        BY <2>3, <4>2, <4>3
    <3> QED
      BY <3>2, <3>3
  <2> QED
    BY <2>4, <2>5
<1>12. ASSUME NEW i \in 1..n, NEW r \in RefsOf(d[i])
       PROVE  \/ r \in Q \cup Refs(next)
              \/ \E j \in 1..n : r \in d[j].spends /\ d[j].slot < horizon
  <2>1. i \in 1..Len(c) /\ r \in RefsOf(c[i])
    BY <1>6, <1>12
  <2>2. \/ r \in rejected \cup Refs(tracked)
        \/ \E j \in 1..Len(c) : r \in c[j].spends /\ c[j].slot < horizon
    BY <1>3, <2>1 DEF KeptOK
  <2>3. CASE r \in rejected
    BY <1>1, <2>1, <2>3
  <2>4. CASE r \in Refs(tracked)
    <3>1. PICK y \in tracked : y.ref = r
      BY <2>4 DEF Refs
    <3>2. PICK k \in 1..Len(c) : OutputOf(y) \in OutputsOf(c[k])
      BY <1>3 DEF HeldOK
    <3>3. y.slot = c[k].slot /\ y.ref \in RefsOf(c[k])
      BY <1>3, <3>2, HeldWhere
    <3>4. k = i
      BY <1>3, <2>1, <3>1, <3>3 DEF ChainOK
    <3>5. y.slot <= s
      BY <1>7, <2>1, <3>3, <3>4
    <3> QED
      BY <1>9, <3>1, <3>5
  <2>5. CASE \E j \in 1..Len(c) : r \in c[j].spends /\ c[j].slot < horizon
    <3>1. PICK j \in 1..Len(c) : r \in c[j].spends /\ c[j].slot < horizon
      BY <2>5
    <3>2. c[j].slot <= s
      BY <1>2, <1>3, <1>7, <3>1
    <3>3. j \in 1..n
      BY <1>7, <3>2
    <3> QED
      BY <1>6, <3>1, <3>3
  <2> QED
    BY <2>2, <2>3, <2>4, <2>5
<1>13. OnceOK(next, Q)
  <2>1. Refs(tracked) \cap rejected = {}
    BY <1>3 DEF OnceOK
  <2>2. Q \subseteq rejected
    BY <1>1
  <2> QED
    BY <1>9, <2>1, <2>2 DEF OnceOK
<1>14. HeldOK(d, Len(d), next) /\ KeptOK(d, Len(d), next, Q, horizon)
  BY <1>6, <1>11, <1>12 DEF HeldOK, KeptOK
<1> QED
  BY <1>2, <1>3, <1>6, <1>9, <1>13, <1>14 DEF DjedInv

\* Pruning behind a slot.
LEMMA PruneKeeps ==
    ASSUME DjedInv, NEW s \in Nat, PruneTracker(s)
    PROVE  DjedInv'
<1>1. PICK next, c : next = Prune(tracked, s) /\ c = djedChain
  OBVIOUS
<1>2. /\ djedChain' = c /\ tracked' = next /\ rejected' = rejected /\ horizon' = s
      /\ c # <<>> /\ s \in (horizon + 1)..Last(c).slot
  BY <1>1 DEF PruneTracker
<1>3. /\ ChainOK(c) /\ horizon \in Nat /\ tracked \in SUBSET Tracked
      /\ HeldOK(c, Len(c), tracked) /\ KeptOK(c, Len(c), tracked, rejected, horizon)
      /\ OnceOK(tracked, rejected)
  BY <1>1 DEF DjedInv
<1>4. \A j \in 1..Len(c) : c[j].slot \in Nat
  <2>1. c \in Seq(DjedBlock)
    BY <1>3 DEF ChainOK
  <2> QED
    BY <2>1, BlockOf
<1>5. horizon < s
  BY <1>2, <1>3
<1>6. next = {x \in tracked : ~(x.spentAt # NotSpent /\ x.spentAt < s)}
  BY <1>1 DEF Prune
<1>7. HeldOK(c, Len(c), next)
  BY <1>3, <1>6 DEF HeldOK
<1>8. OnceOK(next, rejected)
  BY <1>3, <1>6 DEF OnceOK, Refs
<1>9. ASSUME NEW i \in 1..Len(c), NEW r \in RefsOf(c[i])
      PROVE  \/ r \in rejected \cup Refs(next)
             \/ \E j \in 1..Len(c) : r \in c[j].spends /\ c[j].slot < s
  <2>1. \/ r \in rejected \cup Refs(tracked)
        \/ \E j \in 1..Len(c) : r \in c[j].spends /\ c[j].slot < horizon
    BY <1>3, <1>9 DEF KeptOK
  <2>2. CASE \E j \in 1..Len(c) : r \in c[j].spends /\ c[j].slot < horizon
    BY <1>3, <1>4, <1>5, <2>2
  <2>3. CASE r \in Refs(tracked)
    <3>1. PICK x \in tracked : x.ref = r
      BY <2>3 DEF Refs
    <3>2. CASE x \in next
      BY <3>1, <3>2 DEF Refs
    <3>3. CASE x \notin next
      <4>1. x.spentAt # NotSpent /\ x.spentAt < s
        BY <1>6, <3>3
      <4>2. \E j \in 1..Len(c) : x.ref \in c[j].spends /\ x.spentAt = c[j].slot
        BY <1>3, <4>1 DEF HeldOK
      <4> QED
        BY <3>1, <4>1, <4>2
    <3> QED
      BY <3>2, <3>3
  <2> QED
    BY <2>1, <2>2, <2>3
<1>10. KeptOK(c, Len(c), next, rejected, s)
  BY <1>9 DEF KeptOK
<1> QED
  BY <1>2, <1>3, <1>6, <1>7, <1>8, <1>10 DEF DjedInv

-----------------------------------------------------------------------------
(* The newest observation                                                  *)

\* A bounded one has a greatest element.
LEMMA GreatestOf ==
    ASSUME NEW n \in Nat, NEW T \in SUBSET (0..n), T # {}
    PROVE  \E x \in T : \A y \in T : y <= x
<1> DEFINE S == {n - x : x \in T}
<1>1. S \in SUBSET Nat /\ S # {}
  <2>1. \A x \in T : n - x \in Nat
    OBVIOUS
  <2>2. PICK x : x \in T
    OBVIOUS
  <2>3. n - x \in S
    BY <2>2
  <2> QED
    BY <2>1, <2>3
<1>2. PICK m \in S : \A y \in S : ~(y < m)
  BY <1>1, LeastOf
<1>3. PICK x \in T : m = n - x
  OBVIOUS
<1>4. ASSUME NEW y \in T PROVE y <= x
  <2>1. n - y \in S
    OBVIOUS
  <2>2. ~(n - y < n - x)
    BY <1>2, <1>3, <2>1
  <2> QED
    BY <2>2
<1> QED
  BY <1>4

\* Observations are ordered: none is newer than one that is newer than it.
LEMMA ObservationOrder ==
    ASSUME NEW x \in Tracked, NEW y \in Tracked
    PROVE  ~(ObservationAfter(x, y) /\ ObservationAfter(y, x))
BY DEF ObservationAfter, Tracked

\* The order of the observations is that of the chain.
LEMMA ChainOrder ==
    ASSUME DjedInv, NEW x \in tracked, NEW y \in tracked
    PROVE  ObservationAfter(x, y) <=> After(x.ref, y.ref)
<1>1. PICK c : c = djedChain
  OBVIOUS
<1>2. ChainOK(c) /\ tracked \in SUBSET Tracked /\ HeldOK(c, Len(c), tracked)
  BY <1>1 DEF DjedInv
<1>3. c \in Seq(DjedBlock)
  BY <1>2 DEF ChainOK
<1>4. DOMAIN c = 1..Len(c)
  BY <1>3
<1>5. x \in Tracked /\ y \in Tracked
  BY <1>2
<1>6. PICK i \in 1..Len(c) : OutputOf(x) \in OutputsOf(c[i])
  BY <1>2 DEF HeldOK
<1>7. PICK j \in 1..Len(c) : OutputOf(y) \in OutputsOf(c[j])
  BY <1>2 DEF HeldOK
<1>8. PICK o \in OutputsOf(c[i]), p \in OutputsOf(c[j]) : o = OutputOf(x) /\ p = OutputOf(y)
  BY <1>6, <1>7
<1>9. /\ o.ref = x.ref /\ o.transactionIndex = x.transactionIndex /\ o.txIndex = x.txIndex
      /\ p.ref = y.ref /\ p.transactionIndex = y.transactionIndex /\ p.txIndex = y.txIndex
  BY <1>8 DEF OutputOf
<1>10. x.slot = c[i].slot /\ y.slot = c[j].slot /\ c[i].slot \in Nat /\ c[j].slot \in Nat
  BY <1>2, <1>5, <1>6, <1>7, HeldWhere
<1>11. (i < j => c[i].slot < c[j].slot) /\ (j < i => c[j].slot < c[i].slot)
  BY <1>2 DEF ChainOK
<1>12. (x.slot > y.slot <=> i > j) /\ (x.slot = y.slot <=> i = j)
  <2>1. i < j \/ i = j \/ j < i
    OBVIOUS
  <2> QED
    BY <1>10, <1>11, <2>1
<1>13. ObservationAfter(x, y)
         <=> \/ i > j
             \/ i = j /\ o.transactionIndex > p.transactionIndex
             \/ /\ i = j /\ o.transactionIndex = p.transactionIndex
                /\ o.txIndex > p.txIndex
  BY <1>9, <1>12 DEF ObservationAfter
<1>14. ASSUME NEW k \in DOMAIN c, NEW l \in DOMAIN c,
              NEW q \in OutputsOf(c[k]), NEW r \in OutputsOf(c[l]),
              q.ref = x.ref, r.ref = y.ref
       PROVE  k = i /\ l = j /\ q = o /\ r = p
  <2>1. k = i /\ q = o
    BY <1>2, <1>4, <1>9, <1>14, OneBlock
  <2>2. l = j /\ r = p
    BY <1>2, <1>4, <1>9, <1>14, OneBlock
  <2> QED
    BY <2>1, <2>2
<1>15. ASSUME ObservationAfter(x, y) PROVE After(x.ref, y.ref)
  <2>1. i \in DOMAIN djedChain /\ j \in DOMAIN djedChain
    BY <1>1, <1>4
  <2>2. o \in OutputsOf(djedChain[i]) /\ p \in OutputsOf(djedChain[j])
    BY <1>1, <1>8
  <2> QED
    BY <1>9, <1>13, <1>15, <2>1, <2>2 DEF After
<1>16. ASSUME After(x.ref, y.ref) PROVE ObservationAfter(x, y)
  <2>1. PICK k \in DOMAIN c, l \in DOMAIN c :
           \E q \in OutputsOf(c[k]), r \in OutputsOf(c[l]) :
              /\ q.ref = x.ref /\ r.ref = y.ref
              /\ \/ k > l
                 \/ k = l /\ q.transactionIndex > r.transactionIndex
                 \/ /\ k = l /\ q.transactionIndex = r.transactionIndex
                    /\ q.txIndex > r.txIndex
    BY <1>1, <1>16 DEF After
  <2>2. PICK q \in OutputsOf(c[k]), r \in OutputsOf(c[l]) :
              /\ q.ref = x.ref /\ r.ref = y.ref
              /\ \/ k > l
                 \/ k = l /\ q.transactionIndex > r.transactionIndex
                 \/ /\ k = l /\ q.transactionIndex = r.transactionIndex
                    /\ q.txIndex > r.txIndex
    BY <2>1
  <2>3. k = i /\ l = j /\ q = o /\ r = p
    BY <1>14, <2>2
  <2> QED
    BY <1>13, <2>2, <2>3
<1> QED
  BY <1>15, <1>16

\* Some of what is tracked has a newest observation: the one in the last block,
\* of its last transaction, the last one.
LEMMA NewestExists ==
    ASSUME DjedInv, NEW U \in SUBSET tracked, U # {}
    PROVE  \E x \in U : \A y \in U \ {x} : ObservationAfter(x, y)
<1>1. PICK c : c = djedChain
  OBVIOUS
<1>2. /\ ChainOK(c) /\ U \in SUBSET Tracked /\ c \in Seq(DjedBlock)
      /\ \A x \in U : \E i \in 1..Len(c) : OutputOf(x) \in OutputsOf(c[i])
      /\ \A x, y \in U : x.ref = y.ref => x = y
  <2>1. /\ ChainOK(c) /\ tracked \in SUBSET Tracked /\ HeldOK(c, Len(c), tracked)
        /\ OnceOK(tracked, rejected)
    BY <1>1 DEF DjedInv
  <2> QED
    BY <2>1 DEF HeldOK, OnceOK, ChainOK
<1> DEFINE T == {i \in 1..Len(c) : \E x \in U : OutputOf(x) \in OutputsOf(c[i])}
<1>3. PICK i \in T : \A k \in T : k <= i
  <2>1. T \in SUBSET (0..Len(c)) /\ T # {} /\ Len(c) \in Nat
    BY <1>2
  <2> HIDE DEF T
  <2> QED
    BY <2>1, GreatestOf
<1> DEFINE U1 == {x \in U : OutputOf(x) \in OutputsOf(c[i])}
           T1 == {x.transactionIndex : x \in U1}
<1>4. c[i] \in DjedBlock /\ c[i].txs \in Seq(Seq(DjedOutputs)) /\ i \in 1..Len(c)
  <2>1. c[i] \in DjedBlock /\ i \in 1..Len(c)
    BY <1>2
  <2> QED
    BY <2>1, BlockOf
<1>5. \A x \in U1 : /\ x.transactionIndex \in 1..Len(c[i].txs)
                    /\ x.txIndex \in 1..Len(c[i].txs[x.transactionIndex])
  <2> SUFFICES ASSUME NEW x \in U1
               PROVE  /\ x.transactionIndex \in 1..Len(c[i].txs)
                      /\ x.txIndex \in 1..Len(c[i].txs[x.transactionIndex])
    OBVIOUS
  <2>1. OutputOf(x) \in OutputsOf(c[i])
    OBVIOUS
  <2>2. OutputOf(x).transactionIndex = x.transactionIndex /\ OutputOf(x).txIndex = x.txIndex
    BY DEF OutputOf
  <2> QED
    BY <1>4, <2>1, <2>2, BlockOf
<1>6. PICK k \in T1 : \A l \in T1 : l <= k
  <2>1. T1 \in SUBSET (0..Len(c[i].txs)) /\ T1 # {} /\ Len(c[i].txs) \in Nat
    BY <1>4, <1>5
  <2> HIDE DEF T1
  <2> QED
    BY <2>1, GreatestOf
<1> DEFINE U2 == {x \in U1 : x.transactionIndex = k}
           T2 == {x.txIndex : x \in U2}
<1>7. PICK m \in T2 : \A l \in T2 : l <= m
  <2>1. k \in 1..Len(c[i].txs)
    BY <1>5
  <2>2. Len(c[i].txs[k]) \in Nat
    BY <1>4, <2>1
  <2>3. T2 \in SUBSET (0..Len(c[i].txs[k])) /\ T2 # {}
    BY <1>5, <2>2
  <2> HIDE DEF T2
  <2> QED
    BY <2>2, <2>3, GreatestOf
<1>8. PICK x \in U2 : x.txIndex = m
  OBVIOUS
<1>9. /\ x \in U /\ x \in U1 /\ OutputOf(x) \in OutputsOf(c[i]) /\ x \in Tracked
      /\ x.transactionIndex = k /\ x.txIndex = m
  BY <1>2, <1>8
<1>10. ASSUME NEW y \in U, y # x PROVE ObservationAfter(x, y)
  <2>1. PICK j \in 1..Len(c) : OutputOf(y) \in OutputsOf(c[j])
    BY <1>2
  <2>2. j <= i
    BY <1>3, <2>1
  <2>3. y \in Tracked
    BY <1>2
  <2>4. x.slot = c[i].slot /\ y.slot = c[j].slot /\ c[i].slot \in Nat /\ c[j].slot \in Nat
    BY <1>2, <1>4, <1>9, <2>1, <2>3, HeldWhere
  <2>5. CASE j < i
    <3>1. c[j].slot < c[i].slot
      BY <1>2, <1>4, <2>5 DEF ChainOK
    <3> QED
      BY <2>4, <3>1 DEF ObservationAfter
  <2>6. CASE j = i
    <3>1. y \in U1
      BY <2>1, <2>6
    <3>2. y.transactionIndex <= k /\ y.transactionIndex \in Nat /\ k \in Nat
      BY <1>5, <1>6, <1>9, <3>1
    <3>3. CASE y.transactionIndex < k
      BY <1>9, <2>4, <2>6, <3>2, <3>3 DEF ObservationAfter
    <3>4. CASE y.transactionIndex = k
      <4>1. y \in U2
        BY <3>1, <3>4
      <4>2. y.txIndex <= m /\ y.txIndex \in Nat /\ m \in Nat
        BY <1>5, <1>7, <1>9, <3>1, <4>1
      <4>3. y.txIndex # m
        <5> SUFFICES ASSUME y.txIndex = m PROVE FALSE
          OBVIOUS
        <5>1. OutputOf(x) \in OutputsOf(c[i]) /\ OutputOf(y) \in OutputsOf(c[i])
          BY <1>9, <3>1
        <5>2. /\ OutputOf(x).transactionIndex = k /\ OutputOf(x).txIndex = m
              /\ OutputOf(y).transactionIndex = k /\ OutputOf(y).txIndex = m
              /\ OutputOf(x).ref = x.ref /\ OutputOf(y).ref = y.ref
          BY <1>9, <3>4 DEF OutputOf
        <5>3. OutputOf(x) = OutputOf(y)
          BY <1>4, <5>1, <5>2, BlockOf
        <5>4. x.ref = y.ref
          BY <5>2, <5>3
        <5> QED
          BY <1>2, <1>9, <1>10, <5>4
      <4> QED
        BY <1>9, <2>4, <2>6, <3>4, <4>2, <4>3 DEF ObservationAfter
    <3> QED
      BY <3>2, <3>3, <3>4
  <2> QED
    BY <2>2, <2>5, <2>6
<1> QED
  BY <1>9, <1>10

\* The newest observation of some is the last of their outputs on the chain.
LEMMA NewestIsLast ==
    ASSUME DjedInv, NEW U \in SUBSET tracked, U # {}
    PROVE  Newest(U) \in U /\ Newest(U).ref = LastOf(Refs(U))
<1>0. /\ U \in SUBSET Tracked
      /\ \A x, y \in U : x.ref = y.ref => x = y
  <2>1. tracked \in SUBSET Tracked /\ OnceOK(tracked, rejected)
    BY DEF DjedInv
  <2> QED
    BY <2>1 DEF OnceOK
<1>1. PICK x \in U : \A y \in U \ {x} : ObservationAfter(x, y)
  BY NewestExists
<1>2. Newest(U) \in U /\ \A y \in U \ {Newest(U)} : ObservationAfter(Newest(U), y)
  <2> DEFINE P(z) == \A y \in U \ {z} : ObservationAfter(z, y)
  <2>1. \E z \in U : P(z)
    BY <1>1
  <2> HIDE DEF P
  <2>2. (CHOOSE z \in U : P(z)) \in U /\ P(CHOOSE z \in U : P(z))
    BY <2>1
  <2> QED
    BY <2>2 DEF Newest, P
<1>3. \A y, z \in U : ObservationAfter(y, z) <=> After(y.ref, z.ref)
  BY ChainOrder
<1>4. \A y, z \in U : ~(ObservationAfter(y, z) /\ ObservationAfter(z, y))
  BY <1>0, ObservationOrder
<1>5. PICK r : r = LastOf(Refs(U))
  OBVIOUS
<1>6. r \in Refs(U) /\ \A s \in Refs(U) \ {r} : After(r, s)
  <2> DEFINE P(q) == \A s \in Refs(U) \ {q} : After(q, s)
  <2>1. x.ref \in Refs(U) /\ P(x.ref)
    BY <1>1, <1>3 DEF Refs
  <2> HIDE DEF P
  <2>2. (CHOOSE q \in Refs(U) : P(q)) \in Refs(U) /\ P(CHOOSE q \in Refs(U) : P(q))
    BY <2>1
  <2> QED
    BY <1>5, <2>2 DEF LastOf, P
<1>7. PICK z \in U : z.ref = r
  BY <1>6 DEF Refs
<1>8. PICK w \in U : w = Newest(U)
  BY <1>2
<1>9. z = w
  <2> SUFFICES ASSUME z # w PROVE FALSE
    OBVIOUS
  <2>1. ObservationAfter(w, z)
    BY <1>2, <1>8
  <2>2. w.ref # r /\ w.ref \in Refs(U)
    BY <1>0, <1>7 DEF Refs
  <2>3. After(z.ref, w.ref)
    BY <1>6, <1>7, <2>2
  <2> QED
    BY <1>3, <1>4, <2>1, <2>3
<1> QED
  BY <1>2, <1>5, <1>7, <1>8, <1>9

\* What is tracked as unspent is what the chain has left.
LEMMA UnspentIsLedger ==
    ASSUME DjedInv
    PROVE  Refs(Unspent(tracked)) = LedgerOutputs
<1>1. PICK c : c = djedChain
  OBVIOUS
<1>2. /\ ChainOK(c) /\ tracked \in SUBSET Tracked /\ HeldOK(c, Len(c), tracked)
      /\ KeptOK(c, Len(c), tracked, rejected, horizon) /\ OnceOK(tracked, rejected)
  BY <1>1 DEF DjedInv
<1>3. DOMAIN c = 1..Len(c)
  BY <1>2 DEF ChainOK
<1>4. \A r : r \in LedgerOutputs <=> /\ \E i \in 1..Len(c) : r \in RefsOf(c[i])
                                     /\ \A j \in 1..Len(c) : r \notin c[j].spends
                                     /\ r \notin rejected
  BY <1>1, <1>3 DEF LedgerOutputs, Ledger
<1>5. ASSUME NEW x \in tracked, x.spentAt = NotSpent PROVE x.ref \in LedgerOutputs
  <2>1. PICK i \in 1..Len(c) : OutputOf(x) \in OutputsOf(c[i])
    BY <1>2 DEF HeldOK
  <2>2. x.ref \in RefsOf(c[i])
    BY <1>2, <2>1, HeldWhere
  <2>3. \A j \in 1..Len(c) : x.ref \notin c[j].spends
    BY <1>2, <1>5 DEF HeldOK
  <2>4. x.ref \notin rejected
    BY <1>2 DEF OnceOK, Refs
  <2> QED
    BY <1>4, <2>2, <2>3, <2>4
<1>6. ASSUME NEW r \in LedgerOutputs PROVE \E x \in tracked : x.ref = r /\ x.spentAt = NotSpent
  <2>1. PICK i \in 1..Len(c) : r \in RefsOf(c[i])
    BY <1>4, <1>6
  <2>2. r \in Refs(tracked)
    BY <1>2, <1>4, <1>6, <2>1 DEF KeptOK
  <2>3. PICK x \in tracked : x.ref = r
    BY <2>2 DEF Refs
  <2>4. x.spentAt = NotSpent
    BY <1>2, <1>4, <1>6, <2>3 DEF HeldOK
  <2> QED
    BY <2>3, <2>4
<1> QED
  BY <1>5, <1>6 DEF Refs, Unspent

\* What the invariant says of the unspent observations and the newest one.
LEMMA InvariantIsLedger ==
    ASSUME DjedInv
    PROVE  DjedIsLedger
<1> SUFFICES ASSUME NEW t \in 1..LastTime
             PROVE  LET valid == {r \in LedgerOutputs :
                                     ValidateInterval(Datum[r], t) = "valid"}
                    IN  Current(tracked, t) =
                          IF valid # {} THEN LastOf(valid)
                          ELSE IF LedgerOutputs = {} THEN "no_current_observation"
                          ELSE ValidateInterval(Datum[LastOf(LedgerOutputs)], t)
  BY DEF DjedIsLedger
<1> DEFINE U == Unspent(tracked)
           V == {x \in U : ValidateInterval(Datum[x.ref], t) = "valid"}
           W == {r \in LedgerOutputs : ValidateInterval(Datum[r], t) = "valid"}
<1>1. Refs(U) = LedgerOutputs
  BY UnspentIsLedger
<1>2. Refs(V) = W
  BY <1>1 DEF Refs
<1>3. U \in SUBSET tracked /\ V \in SUBSET tracked
  BY DEF Unspent
<1>4. (U = {} <=> LedgerOutputs = {}) /\ (V = {} <=> W = {})
  BY <1>1, <1>2 DEF Refs
<1>5. Current(tracked, t) = IF V # {} THEN Newest(V).ref
                            ELSE IF U = {} THEN "no_current_observation"
                            ELSE ValidateInterval(Datum[Newest(U).ref], t)
  BY DEF Current, Unspent
<1> HIDE DEF U, V, W
<1>6. V # {} => Newest(V).ref = LastOf(W)
  BY <1>2, <1>3, NewestIsLast
<1>7. U # {} => Newest(U).ref = LastOf(LedgerOutputs)
  BY <1>1, <1>3, NewestIsLast
<1>8. Current(tracked, t) = IF W # {} THEN LastOf(W)
                            ELSE IF LedgerOutputs = {} THEN "no_current_observation"
                            ELSE ValidateInterval(Datum[LastOf(LedgerOutputs)], t)
  BY <1>4, <1>5, <1>6, <1>7
<1> QED
  BY <1>8 DEF W

-----------------------------------------------------------------------------
(* The theorem                                                             *)

\* The invariant holds of an empty tracker.
LEMMA DjedInitInv ==
    ASSUME DjedInit
    PROVE  DjedInv
<1>1. tracked = {} /\ djedChain = <<>> /\ horizon = 0 /\ rejected = {}
  BY DEF DjedInit
<1>2. Len(djedChain) = 0 /\ 1..0 = {} /\ djedChain \in Seq(DjedBlock)
  BY <1>1
<1>3. ChainOK(djedChain)
  BY <1>2 DEF ChainOK
<1>4. /\ HeldOK(djedChain, Len(djedChain), tracked)
      /\ KeptOK(djedChain, Len(djedChain), tracked, rejected, horizon)
      /\ OnceOK(tracked, rejected)
  BY <1>1, <1>2 DEF HeldOK, KeptOK, OnceOK
<1> QED
  BY <1>1, <1>3, <1>4 DEF DjedInv

\* Every step keeps it.
LEMMA DjedKeeps ==
    ASSUME DjedInv, DjedNext \/ UNCHANGED djedVars
    PROVE  DjedInv'
<1>1. CASE UNCHANGED djedVars
  BY <1>1 DEF djedVars, DjedInv
<1>2. ASSUME NEW b \in DjedBlocks, NEW s \in DjedSlots,
             RollForward([slot |-> s, txs |-> b.txs, spends |-> b.spends])
      PROVE  DjedInv'
  <2>1. [slot |-> s, txs |-> b.txs, spends |-> b.spends] \in DjedBlock
    BY DEF DjedBlock
  <2> QED
    BY <1>2, <2>1, RollForwardKeeps
<1>3. CASE Redeliver
  BY <1>3, RedeliverKeeps
<1>4. CASE Tick
  BY <1>4 DEF Tick, DjedInv
<1>5. ASSUME NEW n \in 0..(Len(djedChain) - 1), NEW s \in DjedSlots \cup {0},
             RollBackward(n, s)
      PROVE  DjedInv'
  <2>1. s \in Nat
    BY DjedAssumption
  <2> QED
    BY <1>5, <2>1, RollBackwardKeeps
<1>6. ASSUME NEW s \in DjedSlots, PruneTracker(s) PROVE DjedInv'
  <2>1. s \in Nat
    BY DjedAssumption
  <2> QED
    BY <1>6, <2>1, PruneKeeps
<1> QED
  BY <1>1, <1>2, <1>3, <1>4, <1>5, <1>6 DEF DjedNext

\* The price of the Djed tracker (Current, src/price/djed/tracker.go) is that
\* of the ledger, whatever was delivered, delivered again, rolled back and
\* pruned: for any outputs, blocks, slots and times.
THEOREM DjedIsLedgerHolds == Spec => []DjedIsLedger
<1>1. Init => DjedInv
  BY DjedInitInv DEF Init
<1>2. DjedInv /\ [Next]_vars => DjedInv'
  <2> SUFFICES ASSUME DjedInv, [Next]_vars PROVE DjedInv'
    OBVIOUS
  <2>1. DjedNext \/ UNCHANGED djedVars
    BY DEF Next, vars
  <2> QED
    BY <2>1, DjedKeeps
<1>3. DjedInv => DjedIsLedger
  BY InvariantIsLedger
<1> QED
  BY <1>1, <1>2, <1>3, PTL DEF Spec

-----------------------------------------------------------------------------
(* The TWAP engine follows the chain: what is observed and pruned          *)

\* An observation.
TwapObs == [slot : Int, at : Int, price : Int]

\* A loop from the front ends at the first index that is not among them.
LEMMA LeadingOf ==
    ASSUME NEW n \in Nat, NEW S \in SUBSET (1..n), NEW k, k = Leading(S)
    PROVE  k \in 0..n /\ 1..k \subseteq S /\ k + 1 \notin S
<1> DEFINE T == {j \in Nat : j + 1 \notin S}
<1>1. T \in SUBSET Nat /\ T # {}
  <2>1. n \in T
    OBVIOUS
  <2> QED
    BY <2>1
<1>2. PICK m \in T : \A j \in T : ~(j < m)
  <2> HIDE DEF T
  <2> QED
    BY <1>1, LeastOf
<1>3. m \in Nat /\ m + 1 \notin S
  BY <1>2
<1>4. 1..m \subseteq S
  <2> SUFFICES ASSUME NEW i \in 1..m, i \notin S PROVE FALSE
    OBVIOUS
  <2>1. i - 1 \in Nat /\ i - 1 + 1 = i /\ i - 1 < m
    BY <1>3
  <2>2. i - 1 \in T
    BY <2>1
  <2> QED
    BY <1>2, <2>1, <2>2
<1>5. m \in S \cup {0}
  BY <1>3, <1>4
<1>6. k \in S \cup {0} /\ 1..k \subseteq S /\ k + 1 \notin S
  <2>1. \E x \in S \cup {0} : 1..x \subseteq S /\ x + 1 \notin S
    BY <1>3, <1>4, <1>5
  <2> QED
    BY <2>1 DEF Leading
<1> QED
  BY <1>6

\* A loop from the back ends at the last of them.
LEMMA LastOneOf ==
    ASSUME NEW n \in Nat, NEW S \in SUBSET (1..n), NEW k, k = LastOne(S)
    PROVE  k \in 0..n /\ k \in S \cup {0} /\ \A i \in S : i <= k
<1> DEFINE T == S \cup {0}
<1>1. T \in SUBSET (0..n) /\ T # {}
  OBVIOUS
<1>2. \E x \in T : \A y \in T : y <= x
  <2> HIDE DEF T
  <2> QED
    BY <1>1, GreatestOf
<1>3. \E x \in S \cup {0} : \A i \in S : i <= x
  BY <1>2
<1>4. k \in S \cup {0} /\ \A i \in S : i <= k
  BY <1>3 DEF LastOne
<1> QED
  BY <1>4

\* Observations of rising slots and times.
Rising(s) ==
    /\ s \in Seq(TwapObs)
    /\ \A i, j \in 1..Len(s) : i < j => s[i].slot < s[j].slot /\ s[i].at < s[j].at

\* They are typed, and rise weakly between any two.
LEMMA RisingIs ==
    ASSUME NEW s, Rising(s)
    PROVE  /\ s \in Seq(TwapObs) /\ Len(s) \in Nat /\ DOMAIN s = 1..Len(s)
           /\ \A i \in 1..Len(s) : /\ s[i] \in TwapObs
                                   /\ s[i].slot \in Int /\ s[i].at \in Int /\ s[i].price \in Int
           /\ \A i, j \in 1..Len(s) : i <= j => s[i].slot <= s[j].slot /\ s[i].at <= s[j].at
           /\ (s = <<>> <=> Len(s) = 0)
<1>1. s \in Seq(TwapObs)
  BY DEF Rising
<1>2. Len(s) \in Nat /\ DOMAIN s = 1..Len(s)
  BY <1>1, LenProperties
<1>3. \A i \in 1..Len(s) : s[i] \in TwapObs
  BY <1>1, ElementOfSeq
<1>4. \A o \in TwapObs : o.slot \in Int /\ o.at \in Int /\ o.price \in Int
  BY DEF TwapObs
<1>5. \A i \in 1..Len(s) : s[i].slot \in Int /\ s[i].at \in Int /\ s[i].price \in Int
  BY <1>3, <1>4
<1>6. ASSUME NEW i \in 1..Len(s), NEW j \in 1..Len(s), i <= j
      PROVE  s[i].slot <= s[j].slot /\ s[i].at <= s[j].at
  <2>1. CASE i = j
    BY <1>5, <2>1
  <2>2. CASE i # j
    <3>1. i < j
      BY <1>2, <1>6, <2>2
    <3>2. s[i].slot < s[j].slot /\ s[i].at < s[j].at
      BY <3>1 DEF Rising
    <3> QED
      BY <1>5, <3>2
  <2> QED
    BY <2>1, <2>2
<1>7. s = <<>> <=> Len(s) = 0
  BY <1>1, EmptySeq
<1> QED
  BY <1>1, <1>2, <1>3, <1>5, <1>6, <1>7

\* Where a time falls in rising observations.
LEMMA LatestAtIs ==
    ASSUME NEW s, Rising(s), NEW t \in Int, NEW k, k = LatestAt(t, s)
    PROVE  /\ k \in 0..Len(s)
           /\ \A i \in 1..Len(s) : s[i].at <= t <=> i <= k
<1> DEFINE S == {i \in DOMAIN s : s[i].at <= t}
<1>1. /\ Len(s) \in Nat /\ DOMAIN s = 1..Len(s)
      /\ \A i \in 1..Len(s) : s[i].at \in Int
      /\ \A i, j \in 1..Len(s) : i <= j => s[i].at <= s[j].at
  BY RisingIs
<1>2. S \in SUBSET (1..Len(s)) /\ k = LastOne(S)
  BY <1>1 DEF LatestAt
<1>3. \A i \in 1..Len(s) : i \in S <=> s[i].at <= t
  BY <1>1
<1> HIDE DEF S
<1>4. k \in 0..Len(s) /\ k \in S \cup {0} /\ \A i \in S : i <= k
  BY <1>1, <1>2, LastOneOf
<1>5. ASSUME NEW i \in 1..Len(s) PROVE s[i].at <= t <=> i <= k
  <2>1. s[i].at <= t => i <= k
    BY <1>3, <1>4
  <2>2. ASSUME i <= k PROVE s[i].at <= t
    <3>1. k \in S /\ k \in 1..Len(s)
      BY <1>1, <1>4, <2>2
    <3>2. s[k].at <= t /\ s[i].at <= s[k].at
      BY <1>1, <1>3, <2>2, <3>1
    <3> QED
      BY <1>1, <3>1, <3>2
  <2> QED
    BY <2>1, <2>2
<1> QED
  BY <1>4, <1>5

\* Where a slot does.
LEMMA UntilSlotIs ==
    ASSUME NEW s, Rising(s), NEW x \in Int, NEW u, u = UntilSlot(x, s)
    PROVE  /\ u \in Seq(TwapObs) /\ Len(u) \in 0..Len(s)
           /\ \A i \in 1..Len(u) : u[i] = s[i]
           /\ \A i \in 1..Len(s) : s[i].slot <= x <=> i <= Len(u)
<1> DEFINE S == {i \in DOMAIN s : s[i].slot <= x}
           k == LastOne(S)
<1>1. /\ s \in Seq(TwapObs) /\ Len(s) \in Nat /\ DOMAIN s = 1..Len(s)
      /\ \A i \in 1..Len(s) : s[i].slot \in Int /\ s[i] \in TwapObs
      /\ \A i, j \in 1..Len(s) : i <= j => s[i].slot <= s[j].slot
  BY RisingIs
<1>2. S \in SUBSET (1..Len(s)) /\ u = SubSeq(s, 1, k)
  BY <1>1 DEF UntilSlot
<1>3. \A i \in 1..Len(s) : i \in S <=> s[i].slot <= x
  BY <1>1
<1> HIDE DEF S
<1>4. k \in 0..Len(s) /\ k \in S \cup {0} /\ \A i \in S : i <= k
  BY <1>1, <1>2, LastOneOf
<1> HIDE DEF k
<1>5. ASSUME NEW i \in 1..Len(s) PROVE s[i].slot <= x <=> i <= k
  <2>1. s[i].slot <= x => i <= k
    BY <1>3, <1>4
  <2>2. ASSUME i <= k PROVE s[i].slot <= x
    <3>1. k \in S /\ k \in 1..Len(s)
      BY <1>1, <1>4, <2>2
    <3>2. s[k].slot <= x /\ s[i].slot <= s[k].slot
      BY <1>1, <1>3, <2>2, <3>1
    <3> QED
      BY <1>1, <3>1, <3>2
  <2> QED
    BY <2>1, <2>2
<1>6. u \in Seq(TwapObs) /\ Len(u) = k /\ \A i \in 1..k : u[i] = s[i]
  <2>1. 1 \in Int /\ k \in Int /\ \A i \in 1..k : s[i] \in TwapObs
    BY <1>1, <1>4
  <2>2. /\ u \in Seq(TwapObs) /\ Len(u) = (IF 1 <= k THEN k - 1 + 1 ELSE 0)
        /\ \A i \in 1..(k - 1 + 1) : u[i] = s[1 + i - 1]
    BY <1>2, <2>1, SubSeqProperties
  <2>3. k - 1 + 1 = k /\ (1 <= k \/ k = 0) /\ \A i \in 1..k : 1 + i - 1 = i
    BY <1>1, <1>4
  <2> QED
    BY <2>2, <2>3
<1> QED
  BY <1>4, <1>5, <1>6

\* As many as are retained, and no more than one from before the window.
Bounded(s) ==
    /\ Len(s) <= MaxObservations
    /\ 2 <= Len(s) => s[2].at > s[Len(s)].at - Window

\* What prune drops: no more than it must, never the window's anchor unless
\* there are too many.
LEMMA PruneCountIs ==
    ASSUME NEW s, Rising(s), s # <<>>, NEW c, c = PruneCount(s), NEW n, n = Len(s)
    PROVE  /\ c \in 0..(n - 1) /\ n - c <= MaxObservations
           /\ 2 <= n - c => s[c + 2].at > s[n].at - Window
           /\ c > 0 => n - c = MaxObservations \/ s[c + 1].at <= s[n].at - Window
           /\ Bounded(s) => c = 0
<1> DEFINE S == {i \in DOMAIN s : s[i].at <= Last(s).at - Window}
           old == Leading(S)
           keepFrom == IF old > 0 THEN old - 1 ELSE 0
<1>0. Window \in Nat \ {0} /\ MaxObservations \in Nat \ {0}
  BY TwapAssumption
<1>1. /\ n \in Nat \ {0} /\ DOMAIN s = 1..n /\ Last(s) = s[n]
      /\ \A i \in 1..n : s[i].at \in Int
      /\ \A i, j \in 1..n : i <= j => s[i].at <= s[j].at
  BY SMTT(30), RisingIs DEF Last
<1>2. \A i \in 1..n : i \in S <=> s[i].at <= s[n].at - Window
  BY <1>1
<1>3. S \in SUBSET (1..n)
  BY <1>1
<1>4. c = IF n - keepFrom > MaxObservations THEN n - MaxObservations ELSE keepFrom
  BY DEF PruneCount
<1> HIDE DEF S
<1>5. old \in 0..n /\ 1..old \subseteq S /\ old + 1 \notin S
  BY <1>1, <1>3, LeadingOf
<1> HIDE DEF old
<1>6. old < n
  <2>1. n \in 1..n /\ ~(s[n].at <= s[n].at - Window)
    BY <1>0, <1>1
  <2>2. n \notin S
    BY <1>2, <2>1
  <2> QED
    BY <1>1, <1>5, <2>2
<1>7. keepFrom \in 0..(n - 1) /\ keepFrom + 1 >= old
  BY <1>1, <1>5, <1>6
<1>8. c \in 0..(n - 1) /\ n - c <= MaxObservations /\ c >= keepFrom
  BY <1>0, <1>1, <1>4, <1>7
<1>9. ASSUME 2 <= n - c PROVE s[c + 2].at > s[n].at - Window
  <2>1. c + 2 \in 1..n /\ old + 1 \in 1..n /\ old + 1 <= c + 2
    BY <1>1, <1>5, <1>6, <1>7, <1>8, <1>9
  <2>2. s[old + 1].at <= s[c + 2].at /\ ~(s[old + 1].at <= s[n].at - Window)
    BY <1>1, <1>2, <1>5, <2>1
  <2>3. s[old + 1].at \in Int /\ s[c + 2].at \in Int /\ s[n].at \in Int
    BY <1>1, <2>1
  <2> QED
    BY <1>0, <2>2, <2>3
<1>10. ASSUME c > 0 PROVE n - c = MaxObservations \/ s[c + 1].at <= s[n].at - Window
  <2>1. CASE c = n - MaxObservations
    BY <1>0, <1>1, <2>1
  <2>2. CASE c # n - MaxObservations
    <3>1. c = keepFrom
      BY <1>4, <2>2
    <3>2. c + 1 = old /\ old \in 1..old
      BY <1>5, <1>10, <3>1
    <3>3. c + 1 \in S /\ c + 1 \in 1..n
      BY <1>5, <3>2
    <3> QED
      BY <1>2, <3>3
  <2> QED
    BY <2>1, <2>2
<1>11. ASSUME Bounded(s) PROVE c = 0
  <2>1. n <= MaxObservations /\ (2 <= n => s[2].at > s[n].at - Window)
    BY <1>11 DEF Bounded
  <2>2. old <= 1
    <3> SUFFICES ASSUME old > 1 PROVE FALSE
      BY <1>5
    <3>1. 2 \in 1..old /\ 2 \in 1..n /\ 2 <= n
      BY <1>1, <1>5, <1>6
    <3>2. s[2].at <= s[n].at - Window
      BY <1>2, <1>5, <3>1
    <3>3. s[2].at \in Int /\ s[n].at \in Int
      BY <1>1, <3>1
    <3> QED
      BY <1>0, <2>1, <3>1, <3>2, <3>3
  <2>3. keepFrom = 0
    BY <1>5, <2>2
  <2> QED
    BY <1>0, <1>1, <1>4, <2>1, <2>3
<1> QED
  BY <1>8, <1>9, <1>10, <1>11

\* All but the first c.
RestOf(p, s, c) ==
    p \in Seq(TwapObs) /\ Len(p) = Len(s) - c /\ \A i \in 1..Len(p) : p[i] = s[c + i]

\* From leaves them.
LEMMA FromIs ==
    ASSUME NEW s \in Seq(TwapObs), NEW c \in 0..Len(s), NEW p, p = From(c + 1, s)
    PROVE  RestOf(p, s, c)
<1>1. Len(s) \in Nat /\ \A i \in 1..Len(s) : s[i] \in TwapObs
  BY LenProperties, ElementOfSeq
<1>2. c + 1 \in Int /\ Len(s) \in Int /\ \A i \in (c + 1)..Len(s) : s[i] \in TwapObs
  BY <1>1
<1>3. /\ p \in Seq(TwapObs)
      /\ Len(p) = (IF c + 1 <= Len(s) THEN Len(s) - (c + 1) + 1 ELSE 0)
      /\ \A i \in 1..(Len(s) - (c + 1) + 1) : p[i] = s[c + 1 + i - 1]
  BY <1>2, SubSeqProperties DEF From
<1>4. Len(s) - (c + 1) + 1 = Len(s) - c /\ (c + 1 <= Len(s) \/ Len(s) - c = 0)
  BY <1>1
<1>5. Len(p) = Len(s) - c
  BY <1>3, <1>4
<1>6. \A i \in 1..Len(p) : c + 1 + i - 1 = c + i
  BY <1>1
<1> QED
  BY <1>3, <1>4, <1>5, <1>6 DEF RestOf

\* Observations are the last of the log, the newest one among them.
Suffix(s, all) ==
    /\ s \in Seq(TwapObs) /\ Len(s) <= Len(all)
    /\ \A i \in 1..Len(s) : s[i] = all[Len(all) - Len(s) + i]
    /\ all # <<>> => s # <<>>

\* Before anything was rolled back: what is missing was pruned, and either it
\* is not in the window or there was too much.
Covered(s, pruned, all) ==
    /\ pruned => Len(s) < Len(all)
    /\ s # <<>> => \/ Len(s) = Len(all) \/ Len(s) = MaxObservations
                   \/ s[1].at <= s[Len(s)].at - Window

\* What an engine or a snapshot has of a log.
Follows(s, pruned, all, rewind) ==
    /\ Rising(all) /\ Suffix(s, all) /\ Bounded(s) /\ pruned \in BOOLEAN
    /\ ~pruned => Len(s) = Len(all)
    /\ ~rewind => Covered(s, pruned, all)

\* The inductive invariant.
TwapInv ==
    /\ rewound \in BOOLEAN
    /\ snapshot \in [observations : Seq(TwapObs), pruned : BOOLEAN]
    /\ Follows(observations, historyPruned, log, rewound)
    /\ Follows(snapshot.observations, snapshot.pruned, savedLog, rewound)

\* The last of rising observations rise.
LEMMA SuffixRises ==
    ASSUME NEW s, NEW all, Rising(all), Suffix(s, all)
    PROVE  Rising(s)
<1>1. Len(all) \in Nat
  BY RisingIs
<1>2. s \in Seq(TwapObs) /\ Len(s) \in Nat /\ Len(s) <= Len(all)
  BY LenProperties DEF Suffix
<1>3. ASSUME NEW i \in 1..Len(s), NEW j \in 1..Len(s), i < j
      PROVE  s[i].slot < s[j].slot /\ s[i].at < s[j].at
  <2>1. PICK d \in Nat : d = Len(all) - Len(s)
    BY <1>1, <1>2
  <2>2. d + i \in 1..Len(all) /\ d + j \in 1..Len(all) /\ d + i < d + j
    BY <1>1, <1>2, <1>3, <2>1
  <2>3. s[i] = all[d + i] /\ s[j] = all[d + j]
    BY <2>1 DEF Suffix
  <2> QED
    BY <2>2, <2>3 DEF Rising
<1> QED
  BY <1>2, <1>3 DEF Rising

\* One more observation, in order.
Extended(a, s, o) ==
    /\ Rising(a) /\ Len(a) = Len(s) + 1 /\ a # <<>> /\ a[Len(s) + 1] = o
    /\ \A i \in 1..Len(s) : a[i] = s[i]

\* Append makes it.
LEMMA AppendRises ==
    ASSUME NEW s, Rising(s), NEW o \in TwapObs, InOrder(s, o), NEW a, a = Append(s, o)
    PROVE  Extended(a, s, o)
<1>1. /\ s \in Seq(TwapObs) /\ Len(s) \in Nat
      /\ \A i \in 1..Len(s) : s[i].slot \in Int /\ s[i].at \in Int
      /\ \A i, j \in 1..Len(s) : i <= j => s[i].slot <= s[j].slot /\ s[i].at <= s[j].at
  BY RisingIs
<1>2. /\ a \in Seq(TwapObs) /\ a # <<>> /\ Len(a) = Len(s) + 1
      /\ \A i \in 1..Len(s) : a[i] = s[i]
      /\ a[Len(s) + 1] = o
  BY <1>1, AppendProperties
<1>3. ASSUME NEW i \in 1..Len(s) PROVE s[i].slot < o.slot /\ s[i].at < o.at
  <2>1. s # <<>> /\ Len(s) \in 1..Len(s) /\ i <= Len(s)
    BY <1>1
  <2>2. o.slot > s[Len(s)].slot /\ o.at > s[Len(s)].at
    BY <2>1 DEF InOrder, Last
  <2>3. s[i].slot <= s[Len(s)].slot /\ s[i].at <= s[Len(s)].at
    BY <1>1, <2>1
  <2>4. o.slot \in Int /\ o.at \in Int
    BY DEF TwapObs
  <2>5. s[i].slot \in Int /\ s[i].at \in Int /\ s[Len(s)].slot \in Int /\ s[Len(s)].at \in Int
    BY <1>1, <2>1
  <2> QED
    BY <2>2, <2>3, <2>4, <2>5
<1>4. ASSUME NEW i \in 1..Len(a), NEW j \in 1..Len(a), i < j
      PROVE  a[i].slot < a[j].slot /\ a[i].at < a[j].at
  <2>1. i \in 1..Len(s)
    BY <1>1, <1>2, <1>4
  <2>2. CASE j = Len(s) + 1
    BY <1>2, <1>3, <2>1, <2>2
  <2>3. CASE j # Len(s) + 1
    <3>1. j \in 1..Len(s)
      BY <1>1, <1>2, <2>3
    <3>2. a[i] = s[i] /\ a[j] = s[j]
      BY <1>2, <2>1, <3>1
    <3> QED
      BY <1>4, <2>1, <3>1, <3>2 DEF Rising
  <2> QED
    BY <2>2, <2>3
<1> QED
  BY <1>2, <1>4 DEF Rising, Extended

\* Observe, with its pruning.
LEMMA ObserveFollows ==
    ASSUME NEW s, NEW pruned, NEW all, NEW rewind, Follows(s, pruned, all, rewind),
           NEW o \in TwapObs, InOrder(s, o),
           NEW q \in BOOLEAN, q <=> (pruned \/ PruneCount(Append(s, o)) > 0)
    PROVE  Follows(Pruned(Append(s, o)), q, Append(all, o), rewind)
<1> SUFFICES ASSUME NEW a, a = Append(s, o), q <=> (pruned \/ PruneCount(a) > 0),
                    NEW p, p = Pruned(a), NEW longer, longer = Append(all, o)
             PROVE  Follows(p, q, longer, rewind)
  OBVIOUS
<1>0. Window \in Nat \ {0} /\ MaxObservations \in Nat \ {0}
  BY TwapAssumption
<1>1. /\ Rising(all) /\ Suffix(s, all) /\ Bounded(s) /\ pruned \in BOOLEAN
      /\ ~pruned => Len(s) = Len(all)
      /\ ~rewind => Covered(s, pruned, all)
  BY DEF Follows
<1>2. Rising(s)
  BY <1>1, SuffixRises
<1>3. /\ Len(s) \in Nat /\ Len(all) \in Nat /\ Len(s) <= Len(all)
      /\ (s = <<>> <=> Len(s) = 0) /\ (all = <<>> <=> Len(all) = 0)
  BY <1>1, <1>2, RisingIs DEF Suffix
<1>4. InOrder(all, o)
  <2> SUFFICES ASSUME all # <<>> PROVE o.slot > Last(all).slot /\ o.at > Last(all).at
    BY DEF InOrder
  <2>1. s # <<>> /\ Len(s) \in 1..Len(s) /\ Len(all) - Len(s) + Len(s) = Len(all)
    BY <1>1, <1>3 DEF Suffix
  <2>2. Last(s) = Last(all)
    BY <1>1, <2>1 DEF Suffix, Last
  <2> QED
    BY <2>1, <2>2 DEF InOrder
<1>5. /\ Rising(a) /\ Len(a) = Len(s) + 1 /\ a # <<>> /\ a[Len(s) + 1] = o
      /\ \A i \in 1..Len(s) : a[i] = s[i]
  <2>1. Extended(a, s, o)
    BY <1>2, AppendRises
  <2> QED
    BY <2>1 DEF Extended
<1>6. /\ Rising(longer) /\ Len(longer) = Len(all) + 1 /\ longer[Len(all) + 1] = o
      /\ \A i \in 1..Len(all) : longer[i] = all[i]
  <2>1. Extended(longer, all, o)
    BY <1>1, <1>4, AppendRises
  <2> QED
    BY <2>1 DEF Extended
<1>7. PICK c, n : c = PruneCount(a) /\ n = Len(a)
  OBVIOUS
<1>8. /\ c \in 0..(n - 1) /\ n - c <= MaxObservations /\ n = Len(s) + 1
      /\ 2 <= n - c => a[c + 2].at > a[n].at - Window
      /\ c > 0 => n - c = MaxObservations \/ a[c + 1].at <= a[n].at - Window
  BY <1>5, <1>7, PruneCountIs
<1>9. a \in Seq(TwapObs)
  BY <1>5 DEF Rising
<1>10. p \in Seq(TwapObs) /\ Len(p) = n - c /\ \A i \in 1..Len(p) : p[i] = a[c + i]
  <2>1. c \in 0..Len(a) /\ p = From(c + 1, a)
    BY <1>3, <1>7, <1>8 DEF Pruned
  <2>2. RestOf(p, a, c)
    BY <1>9, <2>1, FromIs
  <2> QED
    BY <1>7, <2>2 DEF RestOf
<1>11. PICK d \in Nat : d = Len(all) - Len(s)
  BY <1>3
<1>12. \A i \in 1..n : a[i] = longer[d + i]
  <2> SUFFICES ASSUME NEW i \in 1..n PROVE a[i] = longer[d + i]
    OBVIOUS
  <2>1. CASE i = Len(s) + 1
    <3>1. d + i = Len(all) + 1
      BY <1>3, <1>11, <2>1
    <3> QED
      BY <1>5, <1>6, <2>1, <3>1
  <2>2. CASE i # Len(s) + 1
    <3>1. i \in 1..Len(s) /\ d + i \in 1..Len(all)
      BY <1>3, <1>8, <1>11, <2>2
    <3>2. s[i] = all[d + i]
      BY <1>1, <1>11, <3>1 DEF Suffix
    <3> QED
      BY <1>5, <1>6, <3>1, <3>2
  <2> QED
    BY <2>1, <2>2
<1>13. Suffix(p, longer)
  <2>1. Len(p) \in Nat \ {0} /\ Len(p) <= Len(longer) /\ Len(longer) - Len(p) = d + c
    BY <1>3, <1>6, <1>8, <1>10, <1>11
  <2>2. p # <<>>
    BY <1>10, <2>1, EmptySeq
  <2>3. ASSUME NEW i \in 1..Len(p) PROVE p[i] = longer[Len(longer) - Len(p) + i]
    <3>1. PICK m, l : m = Len(p) /\ l = Len(longer)
      OBVIOUS
    <3>2. m \in Nat /\ l - m = d + c /\ m = n - c /\ i \in 1..m /\ c \in Nat /\ n \in Nat
      BY <1>3, <1>8, <1>10, <2>1, <3>1
    <3>3. c + i \in 1..n /\ d + (c + i) = l - m + i
      BY <3>2
    <3> QED
      BY <1>10, <1>12, <3>1, <3>3
  <2> QED
    BY <1>10, <2>1, <2>2, <2>3 DEF Suffix
<1>14. PICK m \in Nat \ {0} : m = Len(p) /\ m = n - c
  <2>1. n - c \in Nat \ {0}
    BY <1>3, <1>8
  <2> QED
    BY <1>10, <2>1
<1>15. p[m] = a[n] /\ p[1] = a[c + 1] /\ (2 <= m => p[2] = a[c + 2])
  <2>1. m \in 1..m /\ c + m = n /\ 1 \in 1..m /\ (2 <= m => 2 \in 1..m)
    BY <1>3, <1>8, <1>14
  <2> QED
    BY <1>10, <1>14, <2>1
<1>16. Bounded(p)
  BY <1>8, <1>14, <1>15 DEF Bounded
<1>17. ~q => Len(p) = Len(longer)
  BY <1>1, <1>3, <1>6, <1>7, <1>8, <1>10
<1>18. ASSUME ~rewind PROVE Covered(p, q, longer)
  <2>1. /\ pruned => Len(s) < Len(all)
        /\ s # <<>> => \/ Len(s) = Len(all) \/ Len(s) = MaxObservations
                       \/ s[1].at <= s[Len(s)].at - Window
    BY <1>1, <1>18 DEF Covered
  <2>2. q => Len(p) < Len(longer)
    BY <1>3, <1>6, <1>7, <1>8, <1>10, <2>1
  <2>3. Len(p) = Len(longer) \/ Len(p) = MaxObservations \/ p[1].at <= p[Len(p)].at - Window
    <3>1. CASE c > 0
      BY <1>8, <1>14, <1>15, <3>1
    <3>2. CASE c = 0
      <4>1. m = Len(s) + 1 /\ p[1] = a[1] /\ p[m] = o
        BY <1>5, <1>8, <1>14, <1>15, <3>2
      <4>2. CASE s = <<>>
        <5>1. Len(all) = 0
          BY <1>1, <1>3, <4>2 DEF Suffix
        <5> QED
          BY <1>3, <1>6, <1>14, <4>1, <4>2, <5>1
      <4>3. CASE Len(s) = Len(all)
        BY <1>6, <1>14, <4>1, <4>3
      <4>4. CASE Len(s) = MaxObservations
        BY <1>0, <1>3, <1>8, <3>2, <4>4
      <4>5. CASE s # <<>> /\ s[1].at <= s[Len(s)].at - Window
        <5>1. Len(s) \in 1..Len(s) /\ 1 \in 1..Len(s)
          BY <1>3, <4>5
        <5>2. a[1] = s[1] /\ s[1].at \in Int /\ s[Len(s)].at \in Int /\ o.at \in Int
          BY <1>2, <1>5, <5>1, RisingIs DEF TwapObs
        <5>3. s[Len(s)].at < o.at
          BY <4>5 DEF InOrder, Last
        <5>4. p[1].at <= p[m].at - Window
          BY <1>0, <4>1, <4>5, <5>2, <5>3
        <5> QED
          BY <1>14, <5>4
      <4> QED
        BY <2>1, <4>2, <4>3, <4>4, <4>5
    <3> QED
      BY <1>8, <3>1, <3>2
  <2> QED
    BY <2>2, <2>3 DEF Covered
<1> QED
  BY <1>6, <1>13, <1>16, <1>17, <1>18 DEF Follows

\* The first of rising observations rise.
LEMMA PrefixRises ==
    ASSUME NEW s, Rising(s), NEW u \in Seq(TwapObs), Len(u) \in 0..Len(s),
           \A i \in 1..Len(u) : u[i] = s[i]
    PROVE  Rising(u)
<1>1. Len(s) \in Nat
  BY RisingIs
<1>2. \A i \in 1..Len(u) : i \in 1..Len(s)
  BY <1>1
<1> QED
  BY <1>2 DEF Rising

\* A rollback that finds the slot in what is left of the log.
LEMMA RollbackFollows ==
    ASSUME NEW s, NEW pruned, NEW all, NEW rewind \in BOOLEAN, Follows(s, pruned, all, rewind),
           NEW x \in Int, ~RollbackUnavailable(s, pruned, x),
           NEW p, p = IF RollbackIsNoop(s, x) THEN s ELSE UntilSlot(x, s),
           NEW u, u = UntilSlot(x, all), NEW q \in BOOLEAN, q <=> (rewind \/ u # all)
    PROVE  Follows(p, pruned, u, q)
<1>1. /\ Rising(all) /\ Suffix(s, all) /\ Bounded(s) /\ pruned \in BOOLEAN
      /\ ~pruned => Len(s) = Len(all)
      /\ ~rewind => Covered(s, pruned, all)
  BY DEF Follows
<1>2. Rising(s)
  BY <1>1, SuffixRises
<1>3. /\ Len(s) \in Nat /\ Len(all) \in Nat /\ Len(s) <= Len(all)
      /\ (s = <<>> <=> Len(s) = 0) /\ (all = <<>> <=> Len(all) = 0)
      /\ s \in Seq(TwapObs) /\ all \in Seq(TwapObs)
  BY <1>1, <1>2, RisingIs DEF Suffix
<1>4. PICK d \in Nat : d = Len(all) - Len(s) /\ \A i \in 1..Len(s) : s[i] = all[d + i]
  BY <1>1, <1>3 DEF Suffix
<1>5. /\ u \in Seq(TwapObs) /\ Len(u) \in 0..Len(all)
      /\ \A i \in 1..Len(u) : u[i] = all[i]
      /\ \A i \in 1..Len(all) : all[i].slot <= x <=> i <= Len(u)
  BY <1>1, UntilSlotIs
<1>6. Rising(u)
  BY <1>1, <1>5, PrefixRises
<1>7. CASE RollbackIsNoop(s, x)
  <2>1. s # <<>> /\ x >= s[Len(s)].slot /\ p = s
    BY <1>7 DEF RollbackIsNoop, Last
  <2>2. Len(s) \in 1..Len(s) /\ Len(all) \in 1..Len(all) /\ d + Len(s) = Len(all)
    BY <1>3, <1>4, <2>1
  <2>3. s[Len(s)] = all[Len(all)] /\ all[Len(all)].slot \in Int
    BY <1>1, <1>4, <2>2, RisingIs
  <2>4. all[Len(all)].slot <= x
    BY <2>1, <2>3
  <2>5. Len(u) = Len(all)
    BY <1>3, <1>5, <2>2, <2>4
  <2>6. u = all
    BY <1>3, <1>5, <2>5, SeqEqual
  <2> QED
    BY <1>1, <2>1, <2>6 DEF Follows
<1>8. CASE ~RollbackIsNoop(s, x)
  <2>1. p = UntilSlot(x, s)
    BY <1>8
  <2>2. /\ p \in Seq(TwapObs) /\ Len(p) \in 0..Len(s)
        /\ \A i \in 1..Len(p) : p[i] = s[i]
        /\ \A i \in 1..Len(s) : s[i].slot <= x <=> i <= Len(p)
    BY <1>2, <2>1, UntilSlotIs
  <2>3. d = 0 \/ Len(p) >= 1
    <3>1. CASE ~pruned
      BY <1>1, <1>3, <1>4, <3>1
    <3>2. CASE pruned
      <4>1. s # <<>> /\ ~(x < Head(s).slot)
        BY <1>8, <3>2 DEF RollbackUnavailable
      <4>2. Head(s) = s[1] /\ 1 \in 1..Len(s)
        BY <1>3, <4>1
      <4>3. s[1].slot \in Int
        BY <1>2, <4>2, RisingIs
      <4>4. s[1].slot <= x
        BY <4>1, <4>2, <4>3
      <4> QED
        BY <2>2, <4>2, <4>4
    <3> QED
      BY <1>1, <3>1, <3>2
  <2>4. PICK m, n, l : m = Len(p) /\ n = Len(s) /\ l = Len(u)
    OBVIOUS
  <2>5. m \in 0..n /\ n \in Nat /\ l \in 0..(d + n) /\ Len(all) = d + n
    BY <1>3, <1>4, <1>5, <2>2, <2>4
  <2>6. l = d + m
    <3>1. m >= 1 => d + m <= l
      <4> SUFFICES ASSUME m >= 1 PROVE d + m <= l
        OBVIOUS
      <4>1. m \in 1..n /\ d + m \in 1..(d + n)
        BY <2>5
      <4>2. s[m].slot <= x /\ s[m] = all[d + m]
        BY <1>4, <2>2, <2>4, <2>5, <4>1
      <4> QED
        BY <1>5, <2>4, <2>5, <4>1, <4>2
    <3>2. d + m <= l
      BY <2>3, <2>4, <2>5, <3>1
    <3>3. m < n => l < d + m + 1
      <4> SUFFICES ASSUME m < n PROVE l < d + m + 1
        OBVIOUS
      <4>1. m + 1 \in 1..n /\ d + m + 1 \in 1..(d + n) /\ ~(m + 1 <= m) /\ d + (m + 1) = d + m + 1
        BY <2>5
      <4>2. ~(s[m + 1].slot <= x) /\ s[m + 1] = all[d + m + 1]
        BY <1>4, <2>2, <2>4, <2>5, <4>1
      <4>3. ~(d + m + 1 <= l)
        BY <1>5, <2>4, <2>5, <4>1, <4>2
      <4> QED
        BY <2>5, <4>3
    <3> QED
      BY <2>5, <3>2, <3>3
  <2>7. Suffix(p, u)
    <3>1. ASSUME NEW i \in 1..m PROVE p[i] = u[l - m + i]
      <4>1. i \in 1..n /\ d + i \in 1..l /\ l - m + i = d + i
        BY <2>5, <2>6
      <4>2. p[i] = s[i] /\ s[i] = all[d + i] /\ u[d + i] = all[d + i]
        BY <1>4, <1>5, <2>2, <2>4, <4>1
      <4> QED
        BY <4>1, <4>2
    <3>2. m <= l /\ (l # 0 => m # 0)
      BY <2>3, <2>4, <2>5, <2>6
    <3>3. u # <<>> => p # <<>>
      BY <1>5, <2>2, <2>4, <3>2, EmptySeq
    <3> QED
      BY <2>2, <2>4, <3>1, <3>2, <3>3 DEF Suffix
  <2>8. Bounded(p)
    <3>1. Window \in Nat /\ MaxObservations \in Nat
      BY TwapAssumption
    <3>2. n <= MaxObservations /\ (2 <= n => s[2].at > s[n].at - Window)
      BY <1>1, <2>4 DEF Bounded
    <3>3. ASSUME 2 <= m PROVE p[2].at > p[m].at - Window
      <4>1. m \in 1..n /\ n \in 1..n /\ 2 \in 1..m /\ m \in 1..m /\ 2 \in 1..n /\ m <= n /\ 2 <= n
        BY <2>5, <3>3
      <4>2. p[2] = s[2] /\ p[m] = s[m]
        BY <2>2, <2>4, <4>1
      <4>3. s[m].at <= s[n].at /\ s[m].at \in Int /\ s[n].at \in Int /\ s[2].at \in Int
        BY <1>2, <2>4, <4>1, RisingIs
      <4> QED
        BY <3>1, <3>2, <4>1, <4>2, <4>3
    <3>4. m <= MaxObservations
      BY <2>5, <3>1, <3>2
    <3> QED
      BY <2>4, <3>3, <3>4 DEF Bounded
  <2>9. ~pruned => Len(p) = Len(u)
    <3> SUFFICES ASSUME ~pruned PROVE Len(p) = Len(u)
      OBVIOUS
    <3>1. Len(s) = Len(all)
      BY <1>1
    <3>2. n = d + n
      BY <2>4, <2>5, <3>1
    <3>3. m = l
      BY <2>5, <2>6, <3>2
    <3> QED
      BY <2>4, <3>3
  <2>10. ASSUME ~q PROVE Covered(p, pruned, u)
    <3>1. ~rewind /\ u = all
      BY <2>10
    <3>2. m = n
      <4>1. l = d + n
        BY <2>4, <2>5, <3>1
      <4> QED
        BY <2>5, <2>6, <4>1
    <3>3. p = s
      BY <1>3, <2>2, <2>4, <3>2, SeqEqual
    <3> QED
      BY <1>1, <3>1, <3>3
  <2> QED
    BY <1>1, <1>6, <2>7, <2>8, <2>9, <2>10 DEF Follows
<1> QED
  BY <1>7, <1>8

\* Observing again what was retained drops nothing.
LEMMA ReobservedIs ==
    ASSUME NEW s, Rising(s), Bounded(s)
    PROVE  Reobserved(s) = s
<1> DEFINE F(f, m) == [i \in 0..m |-> IF i = 0 THEN <<>> ELSE Pruned(Append(f[i - 1], s[i]))]
           g == [i \in 0..Len(s) |-> SubSeq(s, 1, i)]
           n == Len(s)
<1>1. /\ s \in Seq(TwapObs) /\ n \in Nat
      /\ \A i \in 1..n : s[i] \in TwapObs /\ s[i].at \in Int
      /\ \A i, j \in 1..n : i <= j => s[i].at <= s[j].at
  BY RisingIs
<1>2. ASSUME NEW i \in 0..n
      PROVE  /\ g[i] \in Seq(TwapObs) /\ Len(g[i]) = i /\ \A j \in 1..i : g[i][j] = s[j]
             /\ Rising(g[i])
  <2>1. g[i] = SubSeq(s, 1, i) /\ 1 \in Int /\ i \in Int /\ \A j \in 1..i : s[j] \in TwapObs
    BY <1>1
  <2> HIDE DEF g
  <2>2. /\ g[i] \in Seq(TwapObs) /\ Len(g[i]) = (IF 1 <= i THEN i - 1 + 1 ELSE 0)
        /\ \A j \in 1..(i - 1 + 1) : g[i][j] = s[1 + j - 1]
    BY <2>1, SubSeqProperties
  <2>3. i - 1 + 1 = i /\ (1 <= i \/ i = 0) /\ \A j \in 1..i : 1 + j - 1 = j
    BY <1>1
  <2>4. g[i] \in Seq(TwapObs) /\ Len(g[i]) = i /\ \A j \in 1..i : g[i][j] = s[j]
    BY <2>2, <2>3
  <2> QED
    BY <2>4, PrefixRises
<1>3. DOMAIN g = 0..n /\ g = [i \in 0..n |-> g[i]]
  OBVIOUS
<1> HIDE DEF g
<1>4. ASSUME NEW i \in 1..n PROVE Pruned(Append(g[i - 1], s[i])) = g[i]
  <2>1. i - 1 \in 0..n /\ i \in 0..n /\ i \in Nat /\ i \in 1..i
    BY <1>1
  <2>2. PICK a : a = Append(g[i - 1], s[i])
    OBVIOUS
  <2>3. a = g[i]
    <3>1. /\ a \in Seq(TwapObs) /\ Len(a) = i - 1 + 1
          /\ \A j \in 1..(i - 1) : a[j] = g[i - 1][j]
          /\ a[i - 1 + 1] = s[i]
      <4>1. g[i - 1] \in Seq(TwapObs) /\ s[i] \in TwapObs /\ Len(g[i - 1]) = i - 1
        BY <1>1, <1>2, <2>1
      <4> QED
        BY <2>2, <4>1, AppendProperties
    <3>2. i - 1 + 1 = i /\ \A j \in 1..i : j = i \/ j \in 1..(i - 1)
      BY <2>1
    <3>3. ASSUME NEW j \in 1..i PROVE a[j] = g[i][j]
      <4>1. g[i][j] = s[j]
        BY <1>2, <2>1
      <4>2. CASE j = i
        BY <3>1, <3>2, <4>1, <4>2
      <4>3. CASE j \in 1..(i - 1)
        BY <1>2, <2>1, <3>1, <4>1, <4>3
      <4> QED
        BY <3>2, <4>2, <4>3
    <3>4. g[i] \in Seq(TwapObs) /\ Len(g[i]) = i
      BY <1>2, <2>1
    <3>5. Len(a) = i
      BY <3>1, <3>2
    <3> QED
      BY <3>1, <3>3, <3>4, <3>5, SeqEqual
  <2>4. Rising(a) /\ Len(a) = i /\ a \in Seq(TwapObs) /\ \A j \in 1..i : a[j] = s[j]
    BY <1>2, <2>1, <2>3
  <2>5. Bounded(a)
    <3>1. Window \in Nat /\ MaxObservations \in Nat
      BY TwapAssumption
    <3>2. n <= MaxObservations /\ (2 <= n => s[2].at > s[n].at - Window)
      BY DEF Bounded
    <3>3. ASSUME 2 <= i PROVE a[2].at > a[i].at - Window
      <4>1. 2 \in 1..i /\ 2 \in 1..n /\ n \in 1..n /\ i <= n /\ 2 <= n
        BY <1>1, <2>1, <3>3
      <4>2. a[2] = s[2] /\ a[i] = s[i]
        BY <2>1, <2>4, <4>1
      <4>3. s[i].at <= s[n].at /\ s[i].at \in Int /\ s[n].at \in Int /\ s[2].at \in Int
        BY <1>1, <4>1
      <4> QED
        BY <3>1, <3>2, <4>1, <4>2, <4>3
    <3>4. i <= MaxObservations
      BY <1>1, <3>1, <3>2
    <3> QED
      BY <2>4, <3>3, <3>4 DEF Bounded
  <2>6. a # <<>>
    BY <2>1, <2>4, EmptySeq
  <2>7. PruneCount(a) = 0
    BY <2>4, <2>5, <2>6, PruneCountIs
  <2>8. Pruned(a) = SubSeq(a, 1, Len(a))
    BY <2>7 DEF Pruned, From
  <2> QED
    BY <2>2, <2>3, <2>4, <2>8, SubSeqFull
<1>5. g[0] = <<>>
  <2>1. 0 \in 0..n
    BY <1>1
  <2>2. g[0] \in Seq(TwapObs) /\ Len(g[0]) = 0
    BY <1>2, <2>1
  <2> QED
    BY <2>2, EmptySeq
<1>6. g = F(g, n)
  <2>1. ASSUME NEW i \in 0..n PROVE g[i] = F(g, n)[i]
    <3>1. F(g, n)[i] = IF i = 0 THEN <<>> ELSE Pruned(Append(g[i - 1], s[i]))
      OBVIOUS
    <3> HIDE DEF F
    <3>2. i # 0 => i \in 1..n
      BY <1>1
    <3> QED
      BY <1>4, <1>5, <3>1, <3>2
  <2>2. F(g, n) = [i \in 0..n |-> F(g, n)[i]]
    OBVIOUS
  <2> HIDE DEF F
  <2> QED
    BY <1>3, <2>1, <2>2
\* The recursion determines its function.
<1>7. ASSUME NEW f, f = F(f, n) PROVE f[n] = g[n]
  <2> DEFINE Bad == {i \in 0..n : f[i] # g[i]}
  <2>1. Bad = {}
    <3> SUFFICES ASSUME Bad # {} PROVE FALSE
      OBVIOUS
    <3>1. PICK i \in Bad : \A j \in Bad : ~(j < i)
      <4>1. Bad \in SUBSET Nat
        BY <1>1
      <4> HIDE DEF Bad
      <4> QED
        BY <4>1, LeastOf
    <3>2. i \in 0..n /\ f[i] # g[i]
      BY <3>1
    <3>3. \A j \in 0..n : f[j] = IF j = 0 THEN <<>> ELSE Pruned(Append(f[j - 1], s[j]))
      BY <1>7
    <3>4. i # 0
      BY <1>5, <3>2, <3>3
    <3>5. i \in 1..n /\ i - 1 \in 0..n /\ i - 1 < i
      BY <1>1, <3>2, <3>4
    <3>6. f[i - 1] = g[i - 1]
      BY <3>1, <3>5
    <3>7. f[i] = Pruned(Append(f[i - 1], s[i]))
      BY <3>2, <3>3, <3>4
    <3> HIDE DEF F, Bad
    <3> QED
      BY <1>4, <3>2, <3>5, <3>6, <3>7
  <2>2. n \in 0..n
    BY <1>1
  <2> HIDE DEF F
  <2> QED
    BY <2>1, <2>2
<1>8. Reobserved(s) = g[n]
  <2> DEFINE f == CHOOSE h : h = F(h, n)
  <2>1. f = F(f, n)
    <3> HIDE DEF F
    <3> QED
      BY <1>6
  <2>2. Reobserved(s) = f[n]
    BY DEF Reobserved
  <2> HIDE DEF f, F
  <2> QED
    BY <1>7, <2>1, <2>2
<1>9. g[n] \in Seq(TwapObs) /\ Len(g[n]) = n /\ \A j \in 1..n : g[n][j] = s[j]
  BY <1>1, <1>2
<1> QED
  BY <1>1, <1>8, <1>9, SeqEqual

\* The invariant holds of an empty engine.
LEMMA TwapInitInv ==
    ASSUME TwapInit
    PROVE  TwapInv
<1>1. <<>> \in Seq(TwapObs) /\ Len(<<>>) = 0 /\ MaxObservations \in Nat \ {0}
  BY EmptySeq, TwapAssumption
<1>2. 1..0 = {}
  OBVIOUS
<1>3. Follows(<<>>, FALSE, <<>>, FALSE)
  BY <1>1, <1>2 DEF Follows, Rising, Suffix, Bounded, Covered
<1>4. /\ observations = <<>> /\ historyPruned = FALSE /\ log = <<>> /\ savedLog = <<>>
      /\ rewound = FALSE /\ snapshot = [observations |-> <<>>, pruned |-> FALSE]
  BY DEF TwapInit
<1>5. snapshot.observations = <<>> /\ snapshot.pruned = FALSE
  BY <1>4
<1> QED
  BY <1>1, <1>3, <1>4, <1>5 DEF TwapInv

\* A rollback elsewhere only takes a promise back.
LEMMA FollowsStill ==
    ASSUME NEW s, NEW pruned, NEW all, NEW rewind \in BOOLEAN, NEW q \in BOOLEAN,
           Follows(s, pruned, all, rewind), rewind => q
    PROVE  Follows(s, pruned, all, q)
  BY DEF Follows

\* Every step keeps it.
LEMMA TwapKeeps ==
    ASSUME TwapInv, TwapNext \/ UNCHANGED twapVars
    PROVE  TwapInv'
<1>1. /\ rewound \in BOOLEAN
      /\ snapshot \in [observations : Seq(TwapObs), pruned : BOOLEAN]
      /\ Follows(observations, historyPruned, log, rewound)
      /\ Follows(snapshot.observations, snapshot.pruned, savedLog, rewound)
  BY DEF TwapInv
<1>2. CASE UNCHANGED twapVars
  BY <1>1, <1>2 DEF TwapInv, twapVars
<1>3. ASSUME NEW slot \in TwapSlots, NEW lag \in 0..MaxLag, NEW price \in TwapPrices,
             Observe(slot, slot + lag, price)
      PROVE  TwapInv'
  <2> DEFINE o == [slot |-> slot, at |-> slot + lag, price |-> price]
             a == Append(observations, o)
  <2>1. o \in TwapObs
    <3>1. slot \in Int /\ slot + lag \in Int /\ price \in Int
      BY TwapAssumption
    <3> QED
      BY <3>1 DEF TwapObs
  <2>2. /\ InOrder(observations, o) /\ observations' = Pruned(a)
        /\ historyPruned' = (historyPruned \/ PruneCount(a) > 0)
        /\ log' = Append(log, o) /\ UNCHANGED <<snapshot, savedLog, rewound>>
    BY <1>3 DEF Observe
  <2> HIDE DEF o
  <2>3. historyPruned' \in BOOLEAN /\ (historyPruned' <=> (historyPruned \/ PruneCount(a) > 0))
    BY <2>2
  <2> HIDE DEF a
  <2>4. PICK q : q = historyPruned'
    OBVIOUS
  <2>5. Follows(Pruned(a), q, Append(log, o), rewound)
    <3>1. InOrder(observations, o) /\ Follows(observations, historyPruned, log, rewound)
      BY <1>1, <2>2
    <3>2. q \in BOOLEAN /\ (q <=> (historyPruned \/ PruneCount(Append(observations, o)) > 0))
      BY <2>3, <2>4 DEF a
    <3> QED
      BY ONLY <2>1, <3>1, <3>2, ObserveFollows DEF a
  <2> QED
    BY <1>1, <2>2, <2>4, <2>5 DEF TwapInv
<1>4. ASSUME NEW slot \in TwapSlots, RollbackTwap(slot) PROVE TwapInv'
  <2>1. /\ ~RollbackUnavailable(observations, historyPruned, slot)
        /\ observations' = (IF RollbackIsNoop(observations, slot) THEN observations
                            ELSE UntilSlot(slot, observations))
        /\ log' = UntilSlot(slot, log) /\ rewound' = (rewound \/ log' # log)
        /\ UNCHANGED <<historyPruned, snapshot, savedLog>>
    BY <1>4 DEF RollbackTwap
  <2>2. rewound' \in BOOLEAN /\ (rewound' <=> (rewound \/ log' # log)) /\ slot \in Int
    <3>1. rewound' \in BOOLEAN /\ (rewound' <=> (rewound \/ log' # log))
      BY <2>1
    <3>2. slot \in Int
      BY TwapAssumption
    <3> QED
      BY <3>1, <3>2
  <2>3. PICK p, q, u : p = observations' /\ q = rewound' /\ u = log'
    OBVIOUS
  <2>4. Follows(p, historyPruned, u, q)
    <3>1. /\ p = (IF RollbackIsNoop(observations, slot) THEN observations
                 ELSE UntilSlot(slot, observations))
          /\ u = UntilSlot(slot, log) /\ ~RollbackUnavailable(observations, historyPruned, slot)
      BY <2>1, <2>3
    <3>2. q \in BOOLEAN /\ (q <=> (rewound \/ u # log)) /\ rewound \in BOOLEAN /\ slot \in Int
      BY <1>1, <2>2, <2>3
    <3> QED
      BY ONLY <1>1, <3>1, <3>2, RollbackFollows
  <2>5. Follows(snapshot.observations, snapshot.pruned, savedLog, q)
    BY <1>1, <2>2, <2>3, FollowsStill
  <2> QED
    BY <1>1, <2>1, <2>2, <2>3, <2>4, <2>5 DEF TwapInv
<1>5. CASE SaveTwap
  <2>1. /\ snapshot' = [observations |-> observations, pruned |-> historyPruned]
        /\ savedLog' = log /\ UNCHANGED <<observations, historyPruned, log, rewound>>
    BY <1>5 DEF SaveTwap, Snapshot
  <2>2. snapshot'.observations = observations /\ snapshot'.pruned = historyPruned
    BY <2>1
  <2>3. observations \in Seq(TwapObs) /\ historyPruned \in BOOLEAN
    BY <1>1 DEF Follows, Suffix
  <2> QED
    BY <1>1, <2>1, <2>2, <2>3 DEF TwapInv
<1>6. CASE RestartTwap
  <2>1. /\ observations' = Reobserved(snapshot.observations)
        /\ historyPruned' = snapshot.pruned /\ log' = savedLog
        /\ UNCHANGED <<snapshot, savedLog, rewound>>
    BY <1>6 DEF RestartTwap
  <2>2. Reobserved(snapshot.observations) = snapshot.observations
    <3>1. Rising(savedLog) /\ Suffix(snapshot.observations, savedLog)
          /\ Bounded(snapshot.observations)
      BY <1>1 DEF Follows
    <3> QED
      BY <3>1, SuffixRises, ReobservedIs
  <2> QED
    BY <1>1, <2>1, <2>2 DEF TwapInv
<1> QED
  BY <1>2, <1>3, <1>4, <1>5, <1>6 DEF TwapNext

-----------------------------------------------------------------------------
(* The TWAP engine follows the chain: the average                          *)

\* A sum is made one term at a time.
LEMMA SumSteps ==
    ASSUME NEW n \in Nat, NEW f
    PROVE  \E g : /\ g[0] = 0 /\ g[n] = SumTo(n, f)
                  /\ \A i \in 1..n : g[i] = g[i - 1] + f[i]
<1> DEFINE F(g, m) == [i \in 0..m |-> IF i = 0 THEN 0 ELSE g[i - 1] + f[i]]
           Bad == {m \in Nat : ~\E g : g = F(g, m)}
<1>1. Bad = {}
  <2> SUFFICES ASSUME Bad # {} PROVE FALSE
    OBVIOUS
  <2>1. PICK m \in Bad : \A k \in Bad : ~(k < m)
    <3>1. Bad \in SUBSET Nat
      OBVIOUS
    <3> HIDE DEF Bad
    <3> QED
      BY <3>1, LeastOf
  <2>2. m # 0
    <3> DEFINE g == [i \in 0..0 |-> 0]
    <3>1. g = F(g, 0)
      OBVIOUS
    <3> QED
      BY <2>1, <3>1
  <2>3. m \in Nat /\ m - 1 \in Nat /\ m - 1 < m
    BY <2>1, <2>2
  <2>4. PICK h : h = F(h, m - 1)
    BY <2>1, <2>3
  <2> DEFINE g == [i \in 0..m |-> IF i = m THEN h[m - 1] + f[m] ELSE h[i]]
  <2>5. ASSUME NEW i \in 0..m PROVE g[i] = F(g, m)[i]
    <3>1. F(g, m)[i] = IF i = 0 THEN 0 ELSE g[i - 1] + f[i]
      OBVIOUS
    <3>2. \A j \in 0..(m - 1) : g[j] = h[j] /\ h[j] = IF j = 0 THEN 0 ELSE h[j - 1] + f[j]
      <4>1. \A j \in 0..(m - 1) : j \in 0..m /\ j # m
        BY <2>3
      <4>2. \A j \in 0..(m - 1) : h[j] = IF j = 0 THEN 0 ELSE h[j - 1] + f[j]
        BY <2>4
      <4> QED
        BY <4>1, <4>2
    <3>3. g[m] = h[m - 1] + f[m] /\ m - 1 \in 0..(m - 1)
      BY <2>3
    <3> HIDE DEF g, F
    <3>4. CASE i = m
      BY <2>2, <3>1, <3>2, <3>3, <3>4
    <3>5. CASE i # m
      <4>1. i \in 0..(m - 1) /\ (i # 0 => i - 1 \in 0..(m - 1))
        BY <2>3, <3>5
      <4> QED
        BY <3>1, <3>2, <4>1
    <3> QED
      BY <3>4, <3>5
  <2>6. g = F(g, m)
    <3>1. g = [i \in 0..m |-> g[i]] /\ F(g, m) = [i \in 0..m |-> F(g, m)[i]]
      OBVIOUS
    <3> HIDE DEF g, F
    <3> QED
      BY <2>5, <3>1
  <2> HIDE DEF g
  <2> QED
    BY <2>1, <2>6
<1>2. \E h : h = F(h, n)
  BY <1>1
<1> DEFINE g == CHOOSE h : h = F(h, n)
<1>3. g = F(g, n)
  <2> HIDE DEF F
  <2> QED
    BY <1>2
<1>4. SumTo(n, f) = g[n]
  BY DEF SumTo
<1> HIDE DEF g
<1>5. g[0] = 0 /\ \A i \in 1..n : g[i] = g[i - 1] + f[i]
  <2>1. \A i \in 0..n : g[i] = IF i = 0 THEN 0 ELSE g[i - 1] + f[i]
    BY <1>3
  <2>2. 0 \in 0..n /\ \A i \in 1..n : i \in 0..n /\ i # 0
    OBVIOUS
  <2> HIDE DEF F
  <2> QED
    BY <2>1, <2>2
<1> QED
  BY <1>4, <1>5

\* The partial sums of n terms, and terms that are equal.
Adds(g, f, n) == \A i \in 1..n : g[i] = g[i - 1] + f[i]
AllAre(f, a, b, x) == \A i \in (a + 1)..b : f[i] = x

\* Equal terms add up to their number times one of them.
LEMMA EqualTerms ==
    ASSUME NEW n \in Nat, NEW g, NEW f, Adds(g, f, n),
           NEW a \in 0..n, NEW b \in a..n, NEW x \in Int, g[a] \in Int,
           AllAre(f, a, b, x)
    PROVE  g[b] = g[a] + x * (b - a)
<1>0. (\A i \in 1..n : g[i] = g[i - 1] + f[i]) /\ \A i \in (a + 1)..b : f[i] = x
  BY DEF Adds, AllAre
<1> DEFINE Bad == {k \in 0..(b - a) : ~(g[a + k] = g[a] + x * k)}
<1>1. Bad = {}
  <2> SUFFICES ASSUME Bad # {} PROVE FALSE
    OBVIOUS
  <2>1. PICK k \in Bad : \A j \in Bad : ~(j < k)
    <3>1. Bad \in SUBSET Nat
      OBVIOUS
    <3> HIDE DEF Bad
    <3> QED
      BY <3>1, LeastOf
  <2>2. k \in 0..(b - a) /\ ~(g[a + k] = g[a] + x * k)
    BY <2>1
  <2>3. k # 0
    <3>1. a + 0 = a /\ x * 0 = 0
      OBVIOUS
    <3> QED
      BY <2>2, <3>1
  <2>4. /\ k - 1 \in 0..(b - a) /\ k - 1 < k /\ a + k \in 1..n /\ a + k \in (a + 1)..b
        /\ a + k - 1 = a + (k - 1)
    BY <2>2, <2>3
  <2>5. g[a + (k - 1)] = g[a] + x * (k - 1)
    BY <2>1, <2>4
  <2>6. g[a + k] = g[a + k - 1] + f[a + k] /\ f[a + k] = x
    BY <1>0, <2>4
  <2>7. x * (k - 1) + x = x * k /\ x * (k - 1) \in Int /\ x * k \in Int
    BY <2>2
  <2>8. g[a + k] = g[a] + x * (k - 1) + x
    BY <2>4, <2>5, <2>6
  <2> HIDE DEF Bad
  <2>9. g[a] + x * (k - 1) + x = g[a] + (x * (k - 1) + x)
    BY <2>7
  <2> QED
    BY <2>2, <2>7, <2>8, <2>9
<1>2. b - a \in 0..(b - a) /\ a + (b - a) = b
  OBVIOUS
<1>3. g[a + (b - a)] = g[a] + x * (b - a)
  BY <1>1, <1>2
<1> QED
  BY <1>2, <1>3

\* Intervals from 0 to n by their ends, the price of each weighted with its
\* length, and that price in each unit of it.
Intervals(pos, m, n) ==
    /\ pos \in [0..m -> 0..n] /\ pos[0] = 0 /\ pos[m] = n
    /\ \A i \in 1..m : pos[i - 1] <= pos[i]
ByInterval(terms, price, pos, m) ==
    \A i \in 1..m : terms[i] = price[i] * (pos[i] - pos[i - 1])
ByUnit(units, price, pos, m) ==
    \A i \in 1..m : AllAre(units, pos[i - 1], pos[i], price[i])

\* A sum by intervals is the sum by units, if the terms are equal within each.
LEMMA IntervalSum ==
    ASSUME NEW m \in Nat, NEW n \in Nat, NEW pos, Intervals(pos, m, n),
           NEW price \in [1..m -> Int], NEW terms, ByInterval(terms, price, pos, m),
           NEW units, ByUnit(units, price, pos, m)
    PROVE  SumTo(m, terms) = SumTo(n, units)
<1>0. /\ pos \in [0..m -> 0..n] /\ pos[0] = 0 /\ pos[m] = n
      /\ \A i \in 1..m : pos[i - 1] <= pos[i]
      /\ \A i \in 1..m : terms[i] = price[i] * (pos[i] - pos[i - 1])
  BY DEF Intervals, ByInterval
<1>1. PICK g : /\ g[0] = 0 /\ g[m] = SumTo(m, terms)
               /\ \A i \in 1..m : g[i] = g[i - 1] + terms[i]
  BY SumSteps
<1>2. PICK h : /\ h[0] = 0 /\ h[n] = SumTo(n, units)
               /\ \A i \in 1..n : h[i] = h[i - 1] + units[i]
  BY SumSteps
<1> DEFINE Bad == {i \in 0..m : ~(g[i] \in Int /\ g[i] = h[pos[i]])}
<1>3. Bad = {}
  <2> SUFFICES ASSUME Bad # {} PROVE FALSE
    OBVIOUS
  <2>1. PICK i \in Bad : \A j \in Bad : ~(j < i)
    <3>1. Bad \in SUBSET Nat
      OBVIOUS
    <3> HIDE DEF Bad
    <3> QED
      BY <3>1, LeastOf
  <2>2. i \in 0..m /\ ~(g[i] \in Int /\ g[i] = h[pos[i]])
    BY <2>1
  <2>3. i # 0
    BY <1>0, <1>1, <1>2, <2>2
  <2>4. i \in 1..m /\ i - 1 \in 0..m /\ i - 1 < i
    BY <2>2, <2>3
  <2>5. g[i - 1] \in Int /\ g[i - 1] = h[pos[i - 1]]
    BY <2>1, <2>4
  <2> HIDE DEF Bad
  <2>6. PICK a, b, x : a = pos[i - 1] /\ b = pos[i] /\ x = price[i]
    OBVIOUS
  <2>7. a \in 0..n /\ b \in a..n /\ x \in Int
    <3>1. a \in 0..n /\ b \in 0..n /\ a <= b
      BY <1>0, <2>4, <2>6
    <3>2. x \in Int
      BY <2>4, <2>6
    <3> QED
      BY <3>1, <3>2
  <2>8. AllAre(units, a, b, x)
    BY <2>4, <2>6 DEF ByUnit
  <2>9. h[b] = h[a] + x * (b - a)
    <3>1. h[a] \in Int
      BY <2>5, <2>6
    <3>2. Adds(h, units, n)
      BY <1>2 DEF Adds
    <3> QED
      BY <2>7, <2>8, <3>1, <3>2, EqualTerms
  <2>10. g[i] = g[i - 1] + x * (b - a)
    BY <1>0, <1>1, <2>4, <2>6
  <2>11. x * (b - a) \in Int
    BY <2>7
  <2> QED
    BY <2>2, <2>5, <2>6, <2>9, <2>10, <2>11
<1>4. m \in 0..m
  OBVIOUS
<1>5. g[m] = h[n]
  BY <1>0, <1>3, <1>4
<1> QED
  BY <1>1, <1>2, <1>5

\* The observations of the window, by their place among those retained.
IsWindow(w, s, f, e, now) ==
    /\ f \in 1..e /\ e \in 1..Len(s)
    /\ w \in Seq(TwapObs) /\ Len(w) = e - f + 1 /\ \A i \in 1..Len(w) : w[i] = s[f - 1 + i]
    /\ \A i \in 1..Len(s) : s[i].at <= now <=> i <= e
    /\ f < e => s[f + 1].at >= now - Window
    /\ f > 1 => s[f].at < now - Window

\* InWindow finds them, if there is one.
LEMMA InWindowIs ==
    ASSUME Rising(observations), NEW now \in Int, UntilTime(now, observations) # <<>>
    PROVE  \E f, e : IsWindow(InWindow(now), observations, f, e, now)
<1> DEFINE s == observations
           e == LatestAt(now, s)
           past == UntilTime(now, s)
           S == {i \in DOMAIN past : past[i].at < now - Window}
           older == Leading(S)
           f == IF older > 0 THEN older ELSE 1
           w == InWindow(now)
<1>0. Window \in Nat \ {0}
  BY TwapAssumption
<1>1. /\ s \in Seq(TwapObs) /\ Len(s) \in Nat
      /\ \A i \in 1..Len(s) : s[i] \in TwapObs /\ s[i].at \in Int
      /\ \A i, j \in 1..Len(s) : i <= j => s[i].at <= s[j].at
  BY RisingIs
<1>2. e \in 0..Len(s) /\ \A i \in 1..Len(s) : s[i].at <= now <=> i <= e
  BY LatestAtIs
<1>3. past = SubSeq(s, 1, e)
  BY DEF UntilTime
<1>4. w = From(f, past)
  BY DEF InWindow
<1> HIDE DEF e, w
<1>5. past \in Seq(TwapObs) /\ Len(past) = e /\ \A i \in 1..e : past[i] = s[i]
  <2>1. 1 \in Int /\ e \in Int /\ \A i \in 1..e : s[i] \in TwapObs
    BY <1>1, <1>2
  <2>2. /\ past \in Seq(TwapObs) /\ Len(past) = (IF 1 <= e THEN e - 1 + 1 ELSE 0)
        /\ \A i \in 1..(e - 1 + 1) : past[i] = s[1 + i - 1]
    BY <1>3, <2>1, SubSeqProperties
  <2>3. e - 1 + 1 = e /\ (1 <= e \/ e = 0) /\ \A i \in 1..e : 1 + i - 1 = i
    BY <1>1, <1>2
  <2> QED
    BY <2>2, <2>3
<1>6. e \in 1..Len(s) /\ DOMAIN past = 1..e
  <2>1. Len(past) \in Nat \ {0} /\ DOMAIN past = 1..Len(past)
    BY <1>5, EmptySeq, LenProperties
  <2> QED
    BY <1>1, <1>2, <1>5, <2>1
<1> HIDE DEF past
<1>7. S \in SUBSET (1..e) /\ \A i \in 1..e : i \in S <=> s[i].at < now - Window
  BY <1>5, <1>6
<1> HIDE DEF S
<1>8. older \in 0..e /\ 1..older \subseteq S /\ older + 1 \notin S
  <2>1. e \in Nat
    BY <1>1, <1>2
  <2> QED
    BY <1>7, <2>1, LeadingOf
<1> HIDE DEF older
<1>9. f \in 1..e
  BY <1>1, <1>6, <1>8
<1>10. f > 1 => s[f].at < now - Window
  <2> SUFFICES ASSUME f > 1 PROVE s[f].at < now - Window
    OBVIOUS
  <2>1. f = older /\ older \in 1..older
    BY <1>8
  <2> QED
    BY <1>7, <1>8, <1>9, <2>1
<1>11. f < e => s[f + 1].at >= now - Window
  <2> SUFFICES ASSUME f < e PROVE s[f + 1].at >= now - Window
    OBVIOUS
  <2>1. older + 1 \in 1..e /\ older + 1 <= f + 1 /\ f + 1 \in 1..Len(s) /\ older + 1 \in 1..Len(s)
    BY <1>1, <1>6, <1>8, <1>9
  <2>2. ~(s[older + 1].at < now - Window)
    BY <1>7, <1>8, <2>1
  <2>3. s[older + 1].at <= s[f + 1].at /\ s[older + 1].at \in Int /\ s[f + 1].at \in Int
    BY <1>1, <2>1
  <2> QED
    BY <1>0, <2>2, <2>3
<1> HIDE DEF f
<1>12. w \in Seq(TwapObs) /\ Len(w) = e - f + 1 /\ \A i \in 1..Len(w) : w[i] = s[f - 1 + i]
  <2>1. PICK c \in 0..Len(past) : c = f - 1 /\ c + 1 = f
    BY <1>5, <1>6, <1>9
  <2>2. RestOf(w, past, c)
    BY <1>4, <1>5, <2>1, FromIs
  <2>3. w \in Seq(TwapObs) /\ Len(w) = e - c /\ \A i \in 1..Len(w) : w[i] = past[c + i]
    BY <1>5, <2>2 DEF RestOf
  <2>4. e - c = e - f + 1 /\ e \in Nat
    BY <1>6, <1>9, <2>1
  <2>5. ASSUME NEW i \in 1..(e - c) PROVE past[c + i] = s[c + i]
    <3>1. c + i \in 1..e
      BY <1>6, <1>9, <2>1, <2>4
    <3> QED
      BY <1>5, <3>1
  <2> QED
    BY <2>1, <2>3, <2>4, <2>5
<1> QED
  BY <1>2, <1>6, <1>9, <1>10, <1>11, <1>12 DEF IsWindow, w

\* The interval in which an observation of the window sets the price.
Begin(w, start, i) == IF w[i].at > start THEN w[i].at ELSE start
End(w, now, i) == IF i = Len(w) THEN now ELSE w[i + 1].at

\* There the whole log has its price too: nothing of the log lies between an
\* observation of the window and the next.
LEMMA PriceInInterval ==
    ASSUME NEW s, Rising(log), Suffix(s, log), NEW now \in Int, NEW w, NEW f, NEW e,
           IsWindow(w, s, f, e, now), NEW i \in 1..Len(w), NEW t \in Int,
           w[i].at <= t, t < End(w, now, i)
    PROVE  PriceAt(t) = w[i].price
<1>1. /\ f \in 1..e /\ e \in 1..Len(s)
      /\ Len(w) = e - f + 1 /\ \A j \in 1..Len(w) : w[j] = s[f - 1 + j]
      /\ \A j \in 1..Len(s) : s[j].at <= now <=> j <= e
  BY DEF IsWindow
<1>2. Rising(s)
  BY SuffixRises
<1>3. Len(s) \in Nat /\ Len(log) \in Nat /\ Len(s) <= Len(log)
  BY <1>2, RisingIs DEF Suffix
<1>4. PICK d \in Nat : d = Len(log) - Len(s) /\ \A j \in 1..Len(s) : s[j] = log[d + j]
  <2>1. PICK d \in Nat : d = Len(log) - Len(s)
    <3>1. Len(log) - Len(s) \in Nat
      BY ONLY <1>3
    <3> QED
      BY ONLY <3>1
  <2> QED
    BY <2>1 DEF Suffix
<1>5. PICK k : k = LatestAt(t, log)
  OBVIOUS
<1>6. k \in 0..Len(log) /\ \A j \in 1..Len(log) : log[j].at <= t <=> j <= k
  BY <1>5, LatestAtIs
<1>7. PICK n, l, m : n = Len(s) /\ l = Len(log) /\ m = Len(w)
  OBVIOUS
<1>8. n \in Nat /\ l = d + n /\ m = e - f + 1 /\ f \in 1..e /\ e \in 1..n /\ i \in 1..m /\ k \in 0..l
  BY <1>1, <1>3, <1>4, <1>6, <1>7
<1>9. PICK x \in 1..n : x = f - 1 + i
  BY <1>8
<1>10. w[i] = s[x] /\ s[x] = log[d + x] /\ d + x \in 1..l
  <2>1. d + x \in 1..l
    BY <1>8
  <2> QED
    BY <1>1, <1>4, <1>7, <1>9, <2>1
<1>11. d + x <= k
  BY <1>6, <1>7, <1>10
<1>12. x < n => ~(s[x + 1].at <= t)
  <2> SUFFICES ASSUME x < n PROVE ~(s[x + 1].at <= t)
    OBVIOUS
  <2>1. x + 1 \in 1..n
    BY <1>8
  <2>2. s[x + 1].at \in Int
    BY <1>2, <1>7, <2>1, RisingIs
  <2>3. CASE i = m
    <3>1. t < now
      BY <1>7, <2>3 DEF End
    <3>2. x = e
      BY <1>8, <1>9, <2>3
    <3>3. ~(s[x + 1].at <= now)
      BY <1>1, <1>7, <1>8, <2>1, <3>2
    <3> QED
      BY <2>2, <3>1, <3>3
  <2>4. CASE i # m
    <3>1. i + 1 \in 1..m /\ f - 1 + (i + 1) = x + 1
      BY <1>8, <1>9, <2>4
    <3>2. w[i + 1] = s[x + 1]
      BY <1>1, <1>7, <3>1
    <3>3. t < s[x + 1].at
      BY <1>7, <2>4, <3>2 DEF End
    <3> QED
      BY <2>2, <3>3
  <2> QED
    BY <2>3, <2>4
<1>13. k <= d + x
  <2>1. CASE x = n
    BY <1>8, <2>1
  <2>2. CASE x # n
    <3>1. x + 1 \in 1..n /\ x < n /\ d + (x + 1) \in 1..l
      BY <1>8, <2>2
    <3>2. s[x + 1] = log[d + (x + 1)]
      BY <1>4, <1>7, <3>1
    <3>3. ~(d + (x + 1) <= k)
      BY <1>6, <1>7, <1>12, <3>1, <3>2
    <3> QED
      BY <1>8, <3>3
  <2> QED
    BY <2>1, <2>2
<1>14. k = d + x
  <2>1. k \in Int /\ d + x \in Int
    BY <1>8
  <2> QED
    BY <1>11, <1>13, <2>1
<1> QED
  BY <1>5, <1>10, <1>14 DEF PriceAt

\* The window by its times: its first observation is not later than the start
\* of the coverage, the others are not before it.
WindowTimes(w, start, now) ==
    /\ w \in Seq(TwapObs) /\ Len(w) \in Nat \ {0} /\ start \in Int /\ start <= now
    /\ \A i \in 1..Len(w) : w[i].at \in Int /\ w[i].price \in Int
    /\ w[1].at <= start
    /\ \A i \in 2..Len(w) : start <= w[i].at /\ w[i].at <= now /\ w[i - 1].at <= w[i].at

\* The window that InWindow finds has such times.
LEMMA WindowTimesIs ==
    ASSUME NEW s, Rising(s), NEW now \in Int, NEW w, NEW f, NEW e, IsWindow(w, s, f, e, now),
           NEW start, start = IF w[1].at > now - Window THEN w[1].at ELSE now - Window
    PROVE  WindowTimes(w, start, now)
<1>0. Window \in Nat \ {0}
  BY TwapAssumption
<1>1. /\ f \in 1..e /\ e \in 1..Len(s) /\ w \in Seq(TwapObs)
      /\ Len(w) = e - f + 1 /\ \A j \in 1..Len(w) : w[j] = s[f - 1 + j]
      /\ \A j \in 1..Len(s) : s[j].at <= now <=> j <= e
      /\ f < e => s[f + 1].at >= now - Window
  BY DEF IsWindow
<1>2. /\ Len(s) \in Nat
      /\ \A i \in 1..Len(s) : s[i].at \in Int /\ s[i].price \in Int
      /\ \A i, j \in 1..Len(s) : i <= j => s[i].at <= s[j].at
  BY RisingIs
<1>3. PICK n, m : n = Len(s) /\ m = Len(w)
  OBVIOUS
<1>4. n \in Nat /\ m = e - f + 1 /\ f \in 1..e /\ e \in 1..n /\ m \in Nat \ {0}
  BY <1>1, <1>2, <1>3
<1>5. \A i \in 1..m : f - 1 + i \in 1..n /\ f - 1 + i <= e
  BY <1>4
<1>6. \A i \in 1..m : w[i] = s[f - 1 + i] /\ w[i].at \in Int /\ w[i].price \in Int /\ w[i].at <= now
  BY <1>1, <1>2, <1>3, <1>5
<1>7. 1 \in 1..m
  BY <1>4
<1>8. start \in Int /\ start <= now /\ w[1].at <= start
  BY <1>0, <1>6, <1>7
<1>9. ASSUME NEW i \in 2..m
      PROVE  start <= w[i].at /\ w[i].at <= now /\ w[i - 1].at <= w[i].at
  <2>1. /\ i \in 1..m /\ i - 1 \in 1..m /\ f < e /\ f + 1 \in 1..n /\ f \in 1..n
        /\ f + 1 <= f - 1 + i /\ f <= f - 1 + i /\ f - 1 + (i - 1) <= f - 1 + i
        /\ f - 1 + i \in 1..n /\ f - 1 + (i - 1) \in 1..n /\ f - 1 + 1 = f
    BY <1>4
  <2>2. w[i] = s[f - 1 + i] /\ w[i - 1] = s[f - 1 + (i - 1)] /\ w[1] = s[f]
    BY <1>6, <1>7, <2>1
  <2>3. s[f + 1].at <= w[i].at /\ w[1].at <= w[i].at /\ w[i - 1].at <= w[i].at
    BY <1>2, <1>3, <2>1, <2>2
  <2>4. s[f + 1].at >= now - Window /\ s[f + 1].at \in Int /\ w[i].at \in Int /\ w[1].at \in Int
    BY <1>1, <1>2, <1>3, <1>6, <1>7, <2>1
  <2>5. start <= w[i].at
    BY <1>0, <2>3, <2>4
  <2> QED
    BY <1>6, <2>1, <2>3, <2>5
<1> QED
  BY <1>1, <1>3, <1>4, <1>6, <1>8, <1>9 DEF WindowTimes

\* Each unit of time has the price of the observation whose interval it is in.
UnitsOf(units, w, start, now) ==
    \A i \in 1..Len(w), j \in 1..(now - start) :
       w[i].at <= start + j - 1 /\ start + j - 1 < End(w, now, i) => units[j] = w[i].price

\* Then the weighted prices of the intervals add up to the prices of the units.
LEMMA IntervalsAddUp ==
    ASSUME NEW now \in Int, NEW w, NEW start, WindowTimes(w, start, now),
           NEW units, UnitsOf(units, w, start, now), NEW terms,
           terms = [i \in 1..Len(w) |-> w[i].price *
                     (IF End(w, now, i) > Begin(w, start, i)
                      THEN End(w, now, i) - Begin(w, start, i) ELSE 0)]
    PROVE  SumTo(Len(w), terms) = SumTo(now - start, units)
<1>1. PICK m, n : m = Len(w) /\ n = now - start
  OBVIOUS
<1>2. /\ m \in Nat \ {0} /\ start \in Int /\ start <= now
      /\ \A i \in 1..m : w[i].at \in Int /\ w[i].price \in Int
      /\ w[1].at <= start
      /\ \A i \in 2..m : start <= w[i].at /\ w[i].at <= now /\ w[i - 1].at <= w[i].at
  BY <1>1 DEF WindowTimes
<1>3. n \in Nat
  BY ONLY now \in Int, <1>1, <1>2
<1> DEFINE pos == [i \in 0..m |-> IF i = 0 THEN 0 ELSE End(w, now, i) - start]
           price == [i \in 1..m |-> w[i].price]
<1>4. \A i \in 1..m : End(w, now, i) \in Int /\ start <= End(w, now, i) /\ End(w, now, i) <= now
  <2> SUFFICES ASSUME NEW i \in 1..m
               PROVE  End(w, now, i) \in Int /\ start <= End(w, now, i) /\ End(w, now, i) <= now
    OBVIOUS
  <2>1. CASE i = m
    BY <1>1, <1>2, <2>1 DEF End
  <2>2. CASE i # m
    <3>1. i + 1 \in 2..m /\ i + 1 \in 1..m
      BY ONLY <1>2, <2>2, i \in 1..m
    <3>2. End(w, now, i) = w[i + 1].at
      BY <1>1, <2>2 DEF End
    <3> QED
      BY ONLY <1>2, <3>1, <3>2
  <2> QED
    BY <2>1, <2>2
<1>5. ASSUME NEW i \in 1..m
      PROVE  Begin(w, start, i) = start + pos[i - 1] /\ pos[i - 1] \in 0..n /\ w[i].at <= Begin(w, start, i)
             /\ Begin(w, start, i) <= End(w, now, i)
  <2>1. CASE i = 1
    <3>1. i - 1 = 0 /\ 0 \in 0..m
      BY ONLY <1>2, <2>1
    <3>2. pos[i - 1] = 0
      BY <3>1
    <3>3. Begin(w, start, i) = start
      <4>1. w[i].at \in Int /\ w[i].at <= start
        BY <1>2, <2>1
      <4> QED
        BY ONLY <4>1, <1>2 DEF Begin
    <3>4. start <= End(w, now, i) /\ start = start + 0 /\ 0 \in 0..n
      BY ONLY <1>2, <1>3, <1>4, i \in 1..m
    <3> QED
      BY <1>2, <2>1, <3>2, <3>3, <3>4
  <2>2. CASE i # 1
    <3>1. i - 1 \in 1..m /\ i - 1 # m /\ i - 1 # 0 /\ i - 1 \in 0..m /\ i - 1 + 1 = i /\ i \in 2..m
      BY ONLY <1>2, <2>2, i \in 1..m
    <3>2. End(w, now, i - 1) = w[i].at
      BY <1>1, <3>1 DEF End
    <3>3. pos[i - 1] = w[i].at - start
      BY <3>1, <3>2
    <3>4. start <= w[i].at /\ w[i].at \in Int /\ w[i].at <= now
      BY <1>2, <3>1
    <3>5. Begin(w, start, i) = w[i].at
      BY ONLY <1>2, <3>4 DEF Begin
    <3>6. w[i].at - start \in 0..n /\ w[i].at = start + (w[i].at - start)
      <4>1. n = now - start
        BY <1>1
      <4> QED
        BY ONLY <1>2, <3>4, <4>1, now \in Int
    <3>7. w[i].at <= End(w, now, i)
      <4>1. CASE i = m
        BY <1>1, <3>4, <4>1 DEF End
      <4>2. CASE i # m
        <5>1. i + 1 \in 2..m /\ i + 1 - 1 = i
          BY ONLY <1>2, <4>2, i \in 1..m
        <5>2. End(w, now, i) = w[i + 1].at
          BY <1>1, <4>2 DEF End
        <5> QED
          BY <1>2, <5>1, <5>2
      <4> QED
        BY <4>1, <4>2
    <3> QED
      BY <3>3, <3>4, <3>5, <3>6, <3>7
  <2> QED
    BY <2>1, <2>2
<1>6. /\ pos[0] = 0
      /\ \A i \in 1..m : pos[i] = End(w, now, i) - start /\ pos[i] \in 0..n
  <2>1. 0 \in 0..m /\ \A i \in 1..m : i \in 0..m /\ i # 0
    BY ONLY <1>2
  <2>2. \A i \in 1..m : End(w, now, i) - start \in 0..n
    <3>1. n = now - start
      BY <1>1
    <3> QED
      BY ONLY <1>2, <1>4, <3>1, now \in Int
  <2> QED
    BY <2>1, <2>2
<1>7. pos[m] = n
  <2>1. m \in 1..m
    BY ONLY <1>2
  <2> QED
    BY <1>1, <1>6, <2>1 DEF End
<1>8. pos \in [0..m -> 0..n] /\ price \in [1..m -> Int]
  <2>1. \A i \in 0..m : i = 0 \/ i \in 1..m
    BY ONLY <1>2
  <2>2. 0 \in 0..n
    BY ONLY <1>3
  <2>3. \A i \in 0..m : pos[i] \in 0..n
    BY <1>6, <2>1, <2>2
  <2>4. price \in [1..m -> Int]
    BY <1>2
  <2> QED
    BY <2>3, <2>4
<1>9. ASSUME NEW i \in 1..m
      PROVE  /\ pos[i - 1] <= pos[i]
             /\ terms[i] = price[i] * (pos[i] - pos[i - 1])
             /\ \A j \in (pos[i - 1] + 1)..pos[i] : units[j] = price[i]
  <2>1. PICK a, b, x, y : a = pos[i - 1] /\ b = pos[i] /\ x = Begin(w, start, i) /\ y = End(w, now, i)
    OBVIOUS
  <2>2. a \in 0..n /\ b \in 0..n /\ x = start + a /\ y \in Int /\ b = y - start /\ x <= y
    BY <1>4, <1>5, <1>6, <2>1
  <2>3. a <= b /\ (IF y > x THEN y - x ELSE 0) = b - a
    BY ONLY <1>2, <1>3, <2>2
  <2>4. price[i] = w[i].price
    OBVIOUS
  <2>5. terms[i] = w[i].price * (IF y > x THEN y - x ELSE 0)
    BY <1>1, <2>1
  <2>6. ASSUME NEW j \in (a + 1)..b PROVE units[j] = w[i].price
    <3>1. j \in 1..n /\ x <= start + j - 1 /\ start + j - 1 < y /\ start + j - 1 \in Int
      BY ONLY <1>2, <1>3, <2>2, j \in (a + 1)..b
    <3>2. w[i].at <= x /\ w[i].at \in Int /\ x \in Int
      <4>1. x \in Int
        BY ONLY <1>2, <1>3, <2>2
      <4>2. w[i].at <= x
        BY <1>5, <2>1
      <4> QED
        BY <1>2, <4>1, <4>2
    <3>3. w[i].at <= start + j - 1
      BY ONLY <3>1, <3>2
    <3> QED
      BY <1>1, <2>1, <3>1, <3>3 DEF UnitsOf
  <2> HIDE DEF pos, price
  <2> QED
    BY <2>1, <2>3, <2>4, <2>5, <2>6
<1> HIDE DEF pos, price
<1>10. m \in Nat
  BY <1>2
<1>11. Intervals(pos, m, n)
  BY <1>6, <1>7, <1>8, <1>9 DEF Intervals
<1>12. ByInterval(terms, price, pos, m)
  BY <1>9 DEF ByInterval
<1>13. ByUnit(units, price, pos, m)
  BY <1>9 DEF ByUnit, AllAre
<1>14. SumTo(m, terms) = SumTo(n, units)
  BY ONLY <1>3, <1>8, <1>10, <1>11, <1>12, <1>13, IntervalSum
<1> QED
  BY <1>1, <1>14

\* So the average is that of the whole log over the coverage.
LEMMA AverageIs ==
    ASSUME TwapInv, NEW now \in Int, ~NoTwapAt(now)
    PROVE  WeightedAt(now) = ExactAt(now)
<1>1. Rising(log) /\ Suffix(observations, log)
  BY DEF TwapInv, Follows
<1>2. Rising(observations)
  BY <1>1, SuffixRises
<1>3. UntilTime(now, observations) # <<>>
  BY DEF NoTwapAt
<1>4. PICK f, e : IsWindow(InWindow(now), observations, f, e, now)
  BY <1>2, <1>3, InWindowIs
<1>5. PICK w : w = InWindow(now)
  OBVIOUS
<1>6. PICK start : start = CoverageStart(now)
  OBVIOUS
<1>7. w \in Seq(TwapObs) /\ Len(w) \in Nat \ {0}
  <2>1. w \in Seq(TwapObs) /\ Len(w) = e - f + 1 /\ f \in 1..e /\ e \in 1..Len(observations)
    BY <1>4, <1>5 DEF IsWindow
  <2>2. Len(observations) \in Nat
    BY <1>2, RisingIs
  <2> QED
    BY ONLY <2>1, <2>2
<1>8. Head(w) = w[1]
  BY <1>7
<1>9. start = IF w[1].at > now - Window THEN w[1].at ELSE now - Window
  BY <1>5, <1>6, <1>8 DEF CoverageStart
<1>10. WindowTimes(w, start, now)
  BY <1>2, <1>4, <1>5, <1>9, WindowTimesIs
<1> DEFINE units == [i \in 1..(now - start) |-> PriceAt(start + i - 1)]
<1>11. UnitsOf(units, w, start, now)
  <2> SUFFICES ASSUME NEW i \in 1..Len(w), NEW j \in 1..(now - start),
                      w[i].at <= start + j - 1, start + j - 1 < End(w, now, i)
               PROVE  units[j] = w[i].price
    BY DEF UnitsOf
  <2>1. start + j - 1 \in Int
    BY <1>10 DEF WindowTimes
  <2>2. PriceAt(start + j - 1) = w[i].price
    BY <1>1, <1>4, <1>5, <2>1, PriceInInterval
  <2> QED
    BY <2>2
<1>12. ExactAt(now) = SumTo(now - start, units)
  BY <1>6 DEF ExactAt
<1>13. PICK terms :
         /\ terms = [i \in 1..Len(w) |-> w[i].price *
                      (IF End(w, now, i) > Begin(w, start, i)
                       THEN End(w, now, i) - Begin(w, start, i) ELSE 0)]
         /\ WeightedAt(now) = SumTo(Len(w), terms)
  BY <1>5, <1>6 DEF WeightedAt, Begin, End
<1> HIDE DEF units
<1>14. SumTo(Len(w), terms) = SumTo(now - start, units)
  BY <1>10, <1>11, <1>13, IntervalsAddUp
<1> QED
  BY <1>12, <1>13, <1>14

\* The newest observation of the log is the newest that is retained.
LEMMA NewestIsRetained ==
    ASSUME TwapInv, log # <<>>
    PROVE  observations # <<>> /\ Last(observations) = Last(log)
<1>1. Rising(log) /\ Suffix(observations, log)
  BY DEF TwapInv, Follows
<1>2. Rising(observations) /\ observations # <<>>
  BY <1>1, SuffixRises DEF Suffix
<1>3. Len(observations) \in Nat \ {0} /\ Len(log) \in Nat
  BY <1>1, <1>2, RisingIs
<1>4. Len(observations) \in 1..Len(observations)
      /\ Len(log) - Len(observations) + Len(observations) = Len(log)
  BY ONLY <1>3
<1>5. observations[Len(observations)] = log[Len(log)]
  BY <1>1, <1>4 DEF Suffix
<1> QED
  BY <1>2, <1>5 DEF Last

\* A rollback that is accepted empties the engine just if it empties the log;
\* one that is refused is so for what was dropped.
LEMMA RollbackIsRight ==
    ASSUME TwapInv, NEW x \in Int
    PROVE  IF RollbackUnavailable(observations, historyPruned, x)
           THEN rewound \/ Len(log) > Len(observations)
           ELSE UntilSlot(x, log) = <<>> <=> UntilSlot(x, observations) = <<>>
<1>1. rewound \in BOOLEAN /\ Follows(observations, historyPruned, log, rewound)
  BY DEF TwapInv
<1>2. Rising(log) /\ Suffix(observations, log) /\ Rising(observations)
  BY <1>1, SuffixRises DEF Follows
<1>3. CASE RollbackUnavailable(observations, historyPruned, x)
  <2>1. historyPruned
    BY <1>3 DEF RollbackUnavailable
  <2>2. ~rewound => Len(observations) < Len(log)
    BY <1>1, <2>1 DEF Follows, Covered
  <2> QED
    BY <1>1, <1>3, <2>2
<1>4. CASE ~RollbackUnavailable(observations, historyPruned, x)
  <2>1. PICK u, v : u = UntilSlot(x, log) /\ v = UntilSlot(x, observations)
    OBVIOUS
  <2>2. PICK p : p = IF RollbackIsNoop(observations, x) THEN observations ELSE v
    OBVIOUS
  <2>3. PICK q \in BOOLEAN : q <=> (rewound \/ u # log)
    OBVIOUS
  <2>4. Follows(p, historyPruned, u, q)
    BY <1>1, <1>4, <2>1, <2>2, <2>3, RollbackFollows
  <2>5. Rising(u) /\ Suffix(p, u)
    BY <2>4 DEF Follows
  <2>6. Rising(p)
    BY <2>5, SuffixRises
  <2>7. u = <<>> <=> p = <<>>
    <3>1. Len(p) <= Len(u) /\ (u # <<>> => p # <<>>)
      BY <2>5 DEF Suffix
    <3>2. (u = <<>> <=> Len(u) = 0) /\ (p = <<>> <=> Len(p) = 0) /\ Len(p) \in Nat
      BY <2>5, <2>6, RisingIs
    <3> QED
      BY ONLY <3>1, <3>2
  <2>8. p = <<>> <=> v = <<>>
    <3>1. CASE ~RollbackIsNoop(observations, x)
      BY <2>2, <3>1
    <3>2. CASE RollbackIsNoop(observations, x)
      <4>1. p = observations /\ observations # <<>> /\ x >= observations[Len(observations)].slot
        BY <2>2, <3>2 DEF RollbackIsNoop, Last
      <4>2. PICK n : n = Len(observations)
        OBVIOUS
      <4>3. n \in 1..n /\ n \in Nat
        BY <1>2, <4>1, <4>2, RisingIs
      <4>4. observations[n].slot \in Int
        BY <1>2, <4>2, <4>3, RisingIs
      <4>5. observations[n].slot <= x
        BY <4>1, <4>2, <4>4
      <4>6. v \in Seq(TwapObs) /\ n <= Len(v)
        BY <1>2, <2>1, <4>2, <4>3, <4>5, UntilSlotIs
      <4>7. v # <<>>
        BY <4>3, <4>6, EmptySeq
      <4> QED
        BY <4>1, <4>7
    <3> QED
      BY <3>1, <3>2
  <2> QED
    BY <1>4, <2>1, <2>7, <2>8
<1> QED
  BY <1>3, <1>4

\* The coverage is the whole window before anything was rolled back.
LEMMA WholeWindow ==
    ASSUME TwapInv, ~rewound, NEW now \in Int, log # <<>>,
           now \in Last(log).at..(Last(log).at + MaxStaleness),
           now - Head(log).at >= Window, Len(observations) < MaxObservations
    PROVE  ~NoTwapAt(now) /\ now - CoverageStart(now) = Window
<1>0. Window \in Nat \ {0} /\ MinCoverage \in 1..Window /\ MaxStaleness \in Nat
      /\ MaxObservations \in Nat
  BY TwapAssumption
<1>1. PICK s : s = observations
  OBVIOUS
<1>2. Rising(log) /\ Suffix(s, log) /\ Covered(s, historyPruned, log)
  BY <1>1 DEF TwapInv, Follows
<1>3. Rising(s) /\ s # <<>> /\ Last(s) = Last(log)
  BY <1>1, <1>2, SuffixRises, NewestIsRetained
<1>4. PICK n, l : n = Len(s) /\ l = Len(log)
  OBVIOUS
<1>5. /\ n \in Nat \ {0} /\ l \in Nat \ {0} /\ s \in Seq(TwapObs)
      /\ \A i \in 1..n : s[i].at \in Int
      /\ \A i \in 1..l : log[i].at \in Int
  BY <1>2, <1>3, <1>4, RisingIs
<1>6. n \in 1..n /\ 1 \in 1..n /\ 1 \in 1..l
  BY ONLY <1>5
<1>7. Last(s) = s[n] /\ s[n].at \in Int /\ s[n].at <= now /\ now - s[n].at <= MaxStaleness
  <2>1. Last(s) = s[n] /\ s[n].at \in Int
    BY <1>4, <1>5, <1>6 DEF Last
  <2>2. now \in s[n].at..(s[n].at + MaxStaleness)
    BY <1>3, <2>1
  <2> QED
    BY ONLY <1>0, <2>1, <2>2
<1>8. UntilTime(now, s) = s
  <2>1. PICK k : k = LatestAt(now, s)
    OBVIOUS
  <2>2. k \in 0..n /\ \A i \in 1..n : s[i].at <= now <=> i <= k
    BY <1>3, <1>4, <2>1, LatestAtIs
  <2>3. n <= k
    BY <1>6, <1>7, <2>2
  <2>4. k = n
    BY ONLY <1>5, <2>2, <2>3
  <2>5. UntilTime(now, s) = SubSeq(s, 1, n)
    BY <2>1, <2>4 DEF UntilTime
  <2> QED
    BY <1>4, <1>5, <2>5, SubSeqFull
<1>9. PICK w : w = InWindow(now)
  OBVIOUS
<1>10. PICK f, e : IsWindow(w, s, f, e, now)
  BY <1>1, <1>3, <1>8, <1>9, InWindowIs
<1>11. /\ f \in 1..e /\ e \in 1..n /\ w \in Seq(TwapObs) /\ Len(w) = e - f + 1
       /\ \A i \in 1..Len(w) : w[i] = s[f - 1 + i]
       /\ f > 1 => s[f].at < now - Window
  BY <1>4, <1>10 DEF IsWindow
<1>12. Head(w) = s[f] /\ f \in 1..n
  <2>1. Len(w) \in Nat \ {0} /\ 1 \in 1..Len(w) /\ f - 1 + 1 = f /\ f \in 1..n
    BY ONLY <1>5, <1>11
  <2>2. w[1] = s[f - 1 + 1]
    BY <1>11, <2>1
  <2> QED
    BY <1>11, <2>1, <2>2
<1>13. s[f].at <= now - Window
  <2>1. CASE f > 1
    <3>1. s[f].at \in Int
      BY <1>5, <1>12
    <3> QED
      BY <1>0, <1>11, <2>1, <3>1
  <2>2. CASE f = 1
    <3>1. n = l \/ n = MaxObservations \/ s[1].at <= s[n].at - Window
      BY <1>2, <1>3, <1>4 DEF Covered
    <3>2. n < MaxObservations
      BY <1>1, <1>4
    <3>3. s[1].at \in Int
      BY <1>5, <1>6
    <3>4. CASE n = l
      <4>1. s[1] = log[1] /\ Head(log) = log[1]
        <5>1. l - n + 1 = 1
          BY ONLY <1>5, <3>4
        <5>2. s[1] = log[l - n + 1]
          BY <1>2, <1>4, <1>6 DEF Suffix
        <5>3. Head(log) = log[1]
          BY <1>2 DEF Rising
        <5> QED
          BY <5>1, <5>2, <5>3
      <4>2. now - s[1].at >= Window
        BY <4>1
      <4>3. s[1].at <= now - Window
        BY ONLY now \in Int, <1>0, <3>3, <4>2
      <4> QED
        BY <2>2, <4>3
    <3>5. CASE s[1].at <= s[n].at - Window
      <4>1. s[1].at <= now - Window
        BY ONLY now \in Int, <1>0, <1>7, <3>3, <3>5
      <4> QED
        BY <2>2, <4>1
    <3>6. n # MaxObservations
      BY ONLY <1>0, <1>5, <3>2
    <3> QED
      BY <3>1, <3>4, <3>5, <3>6
  <2>3. f = 1 \/ f > 1
    BY ONLY <1>5, <1>12
  <2> QED
    BY <2>1, <2>2, <2>3
<1>14. CoverageStart(now) = now - Window
  <2>1. ~(s[f].at > now - Window)
    <3>1. s[f].at \in Int
      BY <1>5, <1>12
    <3> QED
      BY ONLY now \in Int, <1>0, <1>13, <3>1
  <2>2. Head(InWindow(now)).at = s[f].at
    BY <1>9, <1>12
  <2> QED
    BY <2>1, <2>2 DEF CoverageStart
<1>15. now - (now - Window) = Window /\ ~(Window < MinCoverage)
  BY ONLY now \in Int, <1>0
<1>16. ~(now - s[n].at > MaxStaleness)
  BY ONLY now \in Int, <1>0, <1>7
<1>17. ~NoTwapAt(now)
  BY <1>1, <1>3, <1>7, <1>8, <1>14, <1>15, <1>16 DEF NoTwapAt
<1> QED
  BY <1>14, <1>15, <1>17

\* A snapshot can be restored.
LEMMA SnapshotIsValid ==
    ASSUME TwapInv
    PROVE  ~StateIsInvalid(snapshot)
<1>1. PICK s : s = snapshot.observations
  OBVIOUS
<1>2. Rising(savedLog) /\ Suffix(s, savedLog) /\ Bounded(s)
  BY <1>1 DEF TwapInv, Follows
<1>3. Rising(s)
  BY <1>2, SuffixRises
<1>4. Reobserved(s) = s
  BY <1>2, <1>3, ReobservedIs
<1>5. Len(s) \in Nat /\ \A i \in 1..Len(s) : s[i] \in TwapObs
  BY <1>3, RisingIs
<1>6. ASSUME NEW i \in 2..Len(s) PROVE InOrder(SubSeq(s, 1, i - 1), s[i])
  <2>1. /\ i - 1 \in Int /\ 1 \in Int /\ i - 1 \in 1..Len(s) /\ i \in 1..Len(s)
        /\ i - 1 < i /\ 1 <= i - 1 /\ i - 1 - 1 + 1 = i - 1 /\ 1 + (i - 1) - 1 = i - 1
        /\ i - 1 \in 1..(i - 1) /\ \A j \in 1..(i - 1) : j \in 1..Len(s)
    BY ONLY <1>5, i \in 2..Len(s)
  <2>2. PICK u : u = SubSeq(s, 1, i - 1)
    OBVIOUS
  <2>3. \A j \in 1..(i - 1) : s[j] \in TwapObs
    BY <1>5, <2>1
  <2>4. /\ u \in Seq(TwapObs) /\ Len(u) = (IF 1 <= i - 1 THEN i - 1 - 1 + 1 ELSE 0)
        /\ \A j \in 1..(i - 1 - 1 + 1) : u[j] = s[1 + j - 1]
    BY <2>1, <2>2, <2>3, SubSeqProperties
  <2>5. Len(u) = i - 1 /\ u[i - 1] = s[i - 1]
    BY <2>1, <2>4
  <2>6. s[i - 1].slot < s[i].slot /\ s[i - 1].at < s[i].at
    BY <1>3, <2>1 DEF Rising
  <2>7. /\ s[i - 1].slot \in Int /\ s[i].slot \in Int
        /\ s[i - 1].at \in Int /\ s[i].at \in Int
    BY <1>3, <2>1, RisingIs
  <2>8. s[i].slot > s[i - 1].slot /\ s[i].at > s[i - 1].at
    BY ONLY <2>6, <2>7
  <2> QED
    BY <2>2, <2>5, <2>8 DEF InOrder, Last
<1> QED
  BY <1>1, <1>4, <1>6 DEF StateIsInvalid

-----------------------------------------------------------------------------
(* The theorem                                                             *)

\* Whatever is observed, pruned, rolled back, saved and restored, in whatever
\* order, for every window, bound and price: the average that TWAPAt returns is
\* that of all the prices on the chain over its coverage, Rollback leaves the
\* chain's newest observation the newest and refuses only what was dropped,
\* and the saved state passes NewTWAPEngineFromState.
THEOREM TwapFollowsChainHolds == Spec => []TwapFollowsChain
<1>1. Init => TwapInv
  BY TwapInitInv DEF Init
<1>2. TwapInv /\ [Next]_vars => TwapInv'
  <2> SUFFICES ASSUME TwapInv, [Next]_vars PROVE TwapInv'
    OBVIOUS
  <2>1. TwapNext \/ UNCHANGED twapVars
    BY DEF Next, vars
  <2> QED
    BY <2>1, TwapKeeps
<1>3. TwapInv => TwapFollowsChain
  <2> SUFFICES ASSUME TwapInv PROVE TwapFollowsChain
    OBVIOUS
  <2>1. Clock \subseteq Int /\ TwapSlots \subseteq Int
    BY TwapAssumption
  <2>2. \A now \in Clock : ~NoTwapAt(now) => WeightedAt(now) = ExactAt(now)
    BY <2>1, AverageIs
  <2>3. log # <<>> => observations # <<>> /\ Last(observations) = Last(log)
    BY NewestIsRetained
  <2>4. \A slot \in TwapSlots :
           IF RollbackUnavailable(observations, historyPruned, slot)
           THEN rewound \/ Len(log) > Len(observations)
           ELSE UntilSlot(slot, log) = <<>> <=> UntilSlot(slot, observations) = <<>>
    BY <2>1, RollbackIsRight
  <2>5. ~rewound =>
           \A now \in Clock :
              /\ log # <<>> /\ now \in Last(log).at..(Last(log).at + MaxStaleness)
              /\ now - Head(log).at >= Window
              /\ Len(observations) < MaxObservations
              => ~NoTwapAt(now) /\ now - CoverageStart(now) = Window
    BY <2>1, WholeWindow
  <2>6. ~StateIsInvalid(snapshot)
    BY SnapshotIsValid
  <2> QED
    BY <2>2, <2>3, <2>4, <2>5, <2>6 DEF TwapFollowsChain
<1> QED
  BY <1>1, <1>2, <1>3, PTL DEF Spec

-----------------------------------------------------------------------------
(* The ADA/USD price: fractions                                            *)

\* A price: not negative, in any terms.
Ratio == Nat \X (Nat \ {0})

\* Inequalities of natural numbers can be multiplied.
LEMMA TimesBoth ==
    ASSUME NEW a \in Nat, NEW b \in Nat, NEW c \in Nat, NEW d \in Nat, a <= b, c <= d
    PROVE  a * c <= b * d
<1>1. a * c <= b * c
  BY TimesMonotone
<1>2. c * b <= d * b
  BY TimesMonotone
<1>3. c * b = b * c /\ d * b = b * d
  OBVIOUS
<1>4. a * c \in Int /\ b * c \in Int /\ b * d \in Int
  OBVIOUS
<1> QED
  BY <1>1, <1>2, <1>3, <1>4

\* Equal products with the same positive factor have equal other factors.
LEMMA EqualCancel ==
    ASSUME NEW a \in Nat, NEW b \in Nat, NEW c \in Nat \ {0}, a * c = b * c
    PROVE  a = b
<1>1. a <= b /\ b <= a
  <2>1. a * c <= b * c /\ b * c <= a * c
    <3>1. a * c \in Int
      OBVIOUS
    <3> QED
      BY <3>1
  <2> QED
    BY <2>1, TimesCancel
<1> QED
  BY <1>1

\* The order of fractions by their products.
LEMMA AtMostIs ==
    ASSUME NEW p \in Ratio, NEW q \in Ratio
    PROVE  /\ p[1] \in Nat /\ p[2] \in Nat \ {0} /\ q[1] \in Nat /\ q[2] \in Nat \ {0}
           /\ AtMost(p, q) <=> p[1] * q[2] <= q[1] * p[2]
           /\ Below(p, q) <=> ~AtMost(q, p)
           /\ AtMost(p, q) \/ AtMost(q, p)
           /\ SamePrice(p, q) <=> AtMost(p, q) /\ AtMost(q, p)
<1>1. p[1] \in Nat /\ p[2] \in Nat \ {0} /\ q[1] \in Nat /\ q[2] \in Nat \ {0}
  BY DEF Ratio
<1>2. p[1] * q[2] \in Int /\ q[1] * p[2] \in Int
  BY <1>1
<1> QED
  BY <1>1, <1>2 DEF AtMost, Below, SamePrice

\* The order of fractions is transitive.
LEMMA AtMostTrans ==
    ASSUME NEW p \in Ratio, NEW q \in Ratio, NEW r \in Ratio, AtMost(p, q), AtMost(q, r)
    PROVE  AtMost(p, r)
<1>1. PICK a, b, c, d, e, f : a = p[1] /\ b = p[2] /\ c = q[1] /\ d = q[2] /\ e = r[1] /\ f = r[2]
  OBVIOUS
<1>2. /\ a \in Nat /\ b \in Nat \ {0} /\ c \in Nat /\ d \in Nat \ {0} /\ e \in Nat /\ f \in Nat \ {0}
      /\ a * d <= c * b /\ c * f <= e * d
  BY <1>1, AtMostIs
<1>3. (a * d) * f <= (c * b) * f /\ (c * f) * b <= (e * d) * b
  <2>1. a * d \in Nat /\ c * b \in Nat /\ c * f \in Nat /\ e * d \in Nat
    BY ONLY <1>2
  <2> QED
    BY ONLY <1>2, <2>1, TimesMonotone
<1>4. (a * d) * f = (a * f) * d /\ (c * b) * f = (c * f) * b /\ (e * d) * b = (e * b) * d
  BY ONLY <1>2
<1>5. a * f \in Nat /\ e * b \in Nat /\ (a * f) * d \in Int /\ (c * f) * b \in Int /\ (e * b) * d \in Int
  BY ONLY <1>2
<1>6. (a * f) * d <= (e * b) * d
  BY ONLY <1>3, <1>4, <1>5
<1>7. a * f <= e * b
  BY ONLY <1>2, <1>5, <1>6, TimesCancel
<1> QED
  BY <1>1, <1>7, AtMostIs

\* Euclid's algorithm ends with a common divisor.
LEMMA GcdSteps ==
    ASSUME NEW n \in Nat
    PROVE  \E g : /\ \A x \in Nat : g[0][x] = x
                  /\ \A i \in 1..n, x \in Nat : g[i][x] = g[x % i][i]
                  /\ \A x \in Nat : Gcd(x, n) = g[n][x]
<1> DEFINE F(g, m) == [i \in 0..m |-> [x \in Nat |-> IF i = 0 THEN x ELSE g[x % i][i]]]
           Bad == {m \in Nat : ~\E g : g = F(g, m)}
<1>1. Bad = {}
  <2> SUFFICES ASSUME Bad # {} PROVE FALSE
    OBVIOUS
  <2>1. PICK m \in Bad : \A k \in Bad : ~(k < m)
    <3>1. Bad \in SUBSET Nat
      OBVIOUS
    <3> HIDE DEF Bad
    <3> QED
      BY <3>1, LeastOf
  <2>2. m # 0
    <3> DEFINE g == [i \in 0..0 |-> [x \in Nat |-> x]]
    <3>1. g = F(g, 0)
      OBVIOUS
    <3> QED
      BY <2>1, <3>1
  <2>3. m \in Nat /\ m - 1 \in Nat /\ m - 1 < m
    BY <2>1, <2>2
  <2>4. PICK h : h = F(h, m - 1)
    BY <2>1, <2>3
  <2> DEFINE g == [i \in 0..m |-> IF i = m THEN [x \in Nat |-> h[x % m][m]] ELSE h[i]]
  <2>5. \A j \in 0..(m - 1) : g[j] = h[j]
    <3>1. \A j \in 0..(m - 1) : j \in 0..m /\ j # m
      BY <2>3
    <3> QED
      BY <3>1
  <2>6. \A j \in 0..(m - 1) : h[j] = [x \in Nat |-> IF j = 0 THEN x ELSE h[x % j][j]]
    BY <2>4
  <2>7. g[m] = [x \in Nat |-> h[x % m][m]]
    BY <2>3
  <2>8. ASSUME NEW i \in 0..m PROVE g[i] = F(g, m)[i]
    <3>1. F(g, m)[i] = [x \in Nat |-> IF i = 0 THEN x ELSE g[x % i][i]]
      OBVIOUS
    <3> HIDE DEF g, F
    <3>2. i # 0 => \A x \in Nat : x % i \in 0..(m - 1)
      BY <2>3
    <3>3. i # 0 => \A x \in Nat : g[x % i][i] = h[x % i][i]
      BY <2>5, <3>2
    <3>4. CASE i = m
      BY <2>2, <2>7, <3>1, <3>3, <3>4
    <3>5. CASE i # m
      <4>1. i \in 0..(m - 1)
        BY <2>3, <3>5
      <4> QED
        BY <2>5, <2>6, <3>1, <3>3, <4>1
    <3> QED
      BY <3>4, <3>5
  <2>9. g = F(g, m)
    <3>1. g = [i \in 0..m |-> g[i]] /\ F(g, m) = [i \in 0..m |-> F(g, m)[i]]
      OBVIOUS
    <3> HIDE DEF g, F
    <3> QED
      BY <2>8, <3>1
  <2> HIDE DEF g
  <2> QED
    BY <2>1, <2>9
<1>2. \E h : h = F(h, n)
  <2>1. n \notin Bad
    BY <1>1
  <2> HIDE DEF F
  <2> QED
    BY <2>1
<1> DEFINE g == CHOOSE h : h = F(h, n)
<1>3. g = F(g, n)
  <2> HIDE DEF F
  <2> QED
    BY <1>2
<1>4. \A x \in Nat : Gcd(x, n) = g[n][x]
  BY DEF Gcd
<1> HIDE DEF g
<1>5. \A i \in 0..n, x \in Nat : g[i][x] = IF i = 0 THEN x ELSE g[x % i][i]
  BY <1>3
<1>6. 0 \in 0..n /\ \A i \in 1..n : i \in 0..n /\ i # 0
  OBVIOUS
<1>7. (\A x \in Nat : g[0][x] = x) /\ \A i \in 1..n, x \in Nat : g[i][x] = g[x % i][i]
  <2> HIDE DEF F
  <2> QED
    BY <1>5, <1>6
<1> QED
  BY <1>4, <1>7

\* A multiple is divided without a rest.
LEMMA QuotientExact ==
    ASSUME NEW d \in Nat \ {0}, NEW a \in Nat
    PROVE  (d * a) \div d = a
<1>1. PICK n \in Nat : n = d * a
  OBVIOUS
<1>2. PICK k : k = n \div d
  OBVIOUS
<1>3. k \in Nat /\ k * d <= n /\ n < (k + 1) * d
  BY ONLY n \in Nat, d \in Nat \ {0}, <1>2
<1>4. n = a * d
  BY <1>1
<1>5. k <= a
  BY <1>3, <1>4, TimesCancel
<1>6. a <= k
  <2> SUFFICES ASSUME k + 1 <= a PROVE FALSE
    BY <1>3
  <2>1. (k + 1) * d <= a * d
    BY <1>3, TimesMonotone
  <2>2. (k + 1) * d \in Int /\ a * d \in Int
    BY <1>3
  <2> QED
    BY ONLY <1>3, <1>4, <2>1, <2>2
<1> QED
  BY <1>1, <1>2, <1>3, <1>5, <1>6

\* Gcd divides both of its arguments.
LEMMA GcdDivides ==
    ASSUME NEW n \in Nat \ {0}, NEW m \in Nat
    PROVE  \E d \in Nat \ {0}, a \in Nat, b \in Nat \ {0} :
              d = Gcd(m, n) /\ m = d * a /\ n = d * b
<1>1. PICK g : /\ \A x \in Nat : g[0][x] = x
               /\ \A i \in 1..n, x \in Nat : g[i][x] = g[x % i][i]
               /\ \A x \in Nat : Gcd(x, n) = g[n][x]
  BY GcdSteps
<1> DEFINE Divides(d, i, x) == \E a \in Nat, b \in Nat : x = d * a /\ i = d * b
           Good(i) == \A x \in Nat : (i # 0 \/ x # 0) => g[i][x] \in Nat \ {0} /\ Divides(g[i][x], i, x)
           Bad == {i \in 0..n : ~Good(i)}
<1>2. Bad = {}
  <2> SUFFICES ASSUME Bad # {} PROVE FALSE
    OBVIOUS
  <2>1. PICK i \in Bad : \A j \in Bad : ~(j < i)
    <3>1. Bad \in SUBSET Nat
      OBVIOUS
    <3> HIDE DEF Bad
    <3> QED
      BY <3>1, LeastOf
  <2>2. i \in 0..n /\ ~Good(i) /\ \A j \in 0..n : j < i => Good(j)
    <3> HIDE DEF Good
    <3> QED
      BY <2>1
  <2> HIDE DEF Bad
  <2>3. i # 0
    <3> SUFFICES ASSUME i = 0 PROVE Good(0)
      BY <2>2
    <3> SUFFICES ASSUME NEW x \in Nat, x # 0
                 PROVE  g[0][x] \in Nat \ {0} /\ Divides(g[0][x], 0, x)
      OBVIOUS
    <3>1. g[0][x] = x /\ x = x * 1 /\ 0 = x * 0
      BY <1>1
    <3>2. Divides(x, 0, x)
      BY <3>1
    <3> QED
      BY <3>1, <3>2
  <2>4. Good(i)
    <3> SUFFICES ASSUME NEW x \in Nat
                 PROVE  g[i][x] \in Nat \ {0} /\ Divides(g[i][x], i, x)
      OBVIOUS
    <3>1. PICK r, q : r = x % i /\ q = x \div i
      OBVIOUS
    <3>2. r \in Nat /\ r < i /\ q \in Nat /\ x = i * q + r /\ i \in 1..n /\ i \in Nat /\ r \in 0..n
      BY <2>2, <2>3, <3>1
    <3>3. g[i][x] = g[r][i]
      BY <1>1, <3>1, <3>2
    <3>4. Good(r)
      BY <2>2, <3>2
    <3>5. g[r][i] \in Nat \ {0} /\ Divides(g[r][i], r, i)
      BY <2>3, <3>2, <3>4
    <3>6. PICK d \in Nat \ {0} : d = g[i][x] /\ Divides(d, r, i)
      BY <3>3, <3>5
    <3>7. PICK a \in Nat, b \in Nat : i = d * a /\ r = d * b
      BY <3>6
    <3>8. x = (d * a) * q + d * b
      BY <3>2, <3>7
    <3>9. (d * a) * q + d * b = d * (a * q + b) /\ a * q + b \in Nat
      BY <3>2
    <3>10. Divides(d, i, x)
      BY <3>7, <3>8, <3>9
    <3> QED
      BY <3>6, <3>10
  <2> QED
    BY <2>2, <2>4
<1>3. n \in 0..n /\ Good(n)
  <2>1. n \in 0..n
    OBVIOUS
  <2> HIDE DEF Good
  <2> QED
    BY <1>2, <2>1
<1>4. PICK d \in Nat \ {0}, a \in Nat, b \in Nat : d = Gcd(m, n) /\ m = d * a /\ n = d * b
  <2>1. g[n][m] \in Nat \ {0} /\ Divides(g[n][m], n, m)
    BY <1>3
  <2>2. PICK d \in Nat \ {0} : d = Gcd(m, n) /\ d = g[n][m]
    BY <1>1, <2>1
  <2> QED
    BY <2>1, <2>2
<1>5. b # 0
  BY <1>4
<1> QED
  BY <1>4, <1>5

\* Frac reduces a fraction to an equal one.
LEMMA FracIs ==
    ASSUME NEW num \in Nat, NEW den \in Nat \ {0}
    PROVE  /\ <<num, den>> \in Ratio /\ Frac(num, den) \in Ratio
           /\ SamePrice(Frac(num, den), <<num, den>>)
           /\ num > 0 => Frac(num, den)[1] > 0
<1>1. PICK d \in Nat \ {0}, a \in Nat, b \in Nat \ {0} :
         d = Gcd(num, den) /\ num = d * a /\ den = d * b
  BY GcdDivides
<1>2. num \div d = a /\ den \div d = b
  BY <1>1, QuotientExact
<1>3. Frac(num, den) = <<a, b>>
  BY <1>1, <1>2 DEF Frac
<1>4. a * (d * b) = (d * a) * b
  OBVIOUS
<1>5. a * den = num * b
  BY <1>1, <1>4
<1>6. num > 0 => a > 0
  BY <1>1
<1> QED
  BY <1>3, <1>5, <1>6 DEF Ratio, SamePrice

\* Equal fractions compare alike.
LEMMA SameCompares ==
    ASSUME NEW p \in Ratio, NEW q \in Ratio, NEW r \in Ratio, SamePrice(p, q)
    PROVE  (AtMost(p, r) <=> AtMost(q, r)) /\ (AtMost(r, p) <=> AtMost(r, q))
<1>1. AtMost(p, q) /\ AtMost(q, p)
  BY AtMostIs
<1> QED
  BY <1>1, AtMostTrans

\* To be equal is transitive.
LEMMA SameTrans ==
    ASSUME NEW p \in Ratio, NEW q \in Ratio, NEW r \in Ratio, SamePrice(p, q), SamePrice(q, r)
    PROVE  SamePrice(p, r)
<1>1. AtMost(p, q) /\ AtMost(q, p) /\ AtMost(q, r) /\ AtMost(r, q)
  BY AtMostIs
<1>2. AtMost(p, r) /\ AtMost(r, p)
  BY <1>1, AtMostTrans
<1> QED
  BY <1>2, AtMostIs

\* The midpoint in any terms.
LEMMA MidpointTerms ==
    ASSUME NEW p \in Ratio, NEW q \in Ratio
    PROVE  /\ <<p[1] * q[2] + q[1] * p[2], 2 * p[2] * q[2]>> \in Ratio
           /\ Midpoint(p, q) \in Ratio
           /\ SamePrice(Midpoint(p, q), <<p[1] * q[2] + q[1] * p[2], 2 * p[2] * q[2]>>)
<1>1. p[1] \in Nat /\ p[2] \in Nat \ {0} /\ q[1] \in Nat /\ q[2] \in Nat \ {0}
  BY AtMostIs
<1>2. p[1] * q[2] + q[1] * p[2] \in Nat
  BY <1>1
<1>3. 2 * p[2] * q[2] \in Nat \ {0}
  <2>1. \A x, y \in Nat \ {0} : x * y \in Nat \ {0}
    OBVIOUS
  <2>2. 2 * p[2] \in Nat \ {0}
    BY <1>1
  <2> QED
    BY <1>1, <2>1, <2>2
<1> QED
  BY <1>2, <1>3, FracIs DEF Midpoint

\* It lies between the two.
LEMMA MidpointBetween ==
    ASSUME NEW p \in Ratio, NEW q \in Ratio
    PROVE  /\ AtMost(p, Midpoint(p, q)) <=> AtMost(p, q)
           /\ AtMost(Midpoint(p, q), q) <=> AtMost(p, q)
<1>1. PICK a, b, c, d : a = p[1] /\ b = p[2] /\ c = q[1] /\ d = q[2]
  OBVIOUS
<1>2. /\ a \in Nat /\ b \in Nat \ {0} /\ c \in Nat /\ d \in Nat \ {0}
      /\ AtMost(p, q) <=> a * d <= c * b
  BY <1>1, AtMostIs
<1>3. PICK m : m = <<a * d + c * b, 2 * b * d>>
  OBVIOUS
<1>4. m \in Ratio /\ Midpoint(p, q) \in Ratio /\ SamePrice(Midpoint(p, q), m)
  BY <1>1, <1>3, MidpointTerms
<1>5. /\ AtMost(p, Midpoint(p, q)) <=> AtMost(p, m)
      /\ AtMost(Midpoint(p, q), q) <=> AtMost(m, q)
  BY <1>4, SameCompares
<1>6. PICK x \in Nat, y \in Nat : x = a * d /\ y = c * b
  BY <1>2
<1>7. AtMost(p, m) <=> a * (2 * b * d) <= (x + y) * b
  BY <1>1, <1>3, <1>4, <1>6, AtMostIs
<1>8. a * (2 * b * d) = (2 * x) * b
  BY <1>2, <1>6
<1>9. (2 * x) * b <= (x + y) * b <=> x <= y
  <2>1. x <= y => (2 * x) * b <= (x + y) * b
    <3>1. x <= y => 2 * x <= x + y
      OBVIOUS
    <3> QED
      BY <1>2, <3>1, TimesMonotone
  <2>2. (2 * x) * b <= (x + y) * b => 2 * x <= x + y
    BY <1>2, TimesCancel
  <2> QED
    BY <2>1, <2>2
<1>10. AtMost(m, q) <=> (x + y) * d <= c * (2 * b * d)
  BY <1>1, <1>3, <1>4, <1>6, AtMostIs
<1>11. c * (2 * b * d) = (2 * y) * d
  BY <1>2, <1>6
<1>12. (x + y) * d <= (2 * y) * d <=> x <= y
  <2>1. x <= y => (x + y) * d <= (2 * y) * d
    <3>1. x <= y => x + y <= 2 * y
      OBVIOUS
    <3> QED
      BY <1>2, <3>1, TimesMonotone
  <2>2. (x + y) * d <= (2 * y) * d => x + y <= 2 * y
    BY <1>2, TimesCancel
  <2> QED
    BY <2>1, <2>2
<1> QED
  BY <1>2, <1>5, <1>6, <1>7, <1>8, <1>9, <1>10, <1>11, <1>12

\* Of equal fractions the midpoints are equal.
LEMMA MidpointSame ==
    ASSUME NEW p \in Ratio, NEW q \in Ratio, NEW r \in Ratio, NEW s \in Ratio,
           SamePrice(p, r), SamePrice(q, s)
    PROVE  SamePrice(Midpoint(p, q), Midpoint(r, s))
<1>1. PICK a, b, c, d : a = p[1] /\ b = p[2] /\ c = q[1] /\ d = q[2]
  OBVIOUS
<1>2. PICK e, f, g, h : e = r[1] /\ f = r[2] /\ g = s[1] /\ h = s[2]
  OBVIOUS
<1>3. /\ a \in Nat /\ b \in Nat \ {0} /\ c \in Nat /\ d \in Nat \ {0}
      /\ e \in Nat /\ f \in Nat \ {0} /\ g \in Nat /\ h \in Nat \ {0}
  BY <1>1, <1>2, AtMostIs
<1>4. a * f = e * b /\ c * h = g * d
  BY <1>1, <1>2 DEF SamePrice
<1>5. (a * d + c * b) * (2 * f * h) = (e * h + g * f) * (2 * b * d)
  <2>1. (a * d + c * b) * (2 * f * h) = 2 * ((a * f) * (d * h) + (c * h) * (b * f))
    BY ONLY <1>3
  <2>2. (e * h + g * f) * (2 * b * d) = 2 * ((e * b) * (d * h) + (g * d) * (b * f))
    BY ONLY <1>3
  <2> QED
    BY <1>4, <2>1, <2>2
<1>6. PICK m, n : m = <<a * d + c * b, 2 * b * d>> /\ n = <<e * h + g * f, 2 * f * h>>
  OBVIOUS
<1>7. m \in Ratio /\ Midpoint(p, q) \in Ratio /\ SamePrice(Midpoint(p, q), m)
  BY <1>1, <1>6, MidpointTerms
<1>8. n \in Ratio /\ Midpoint(r, s) \in Ratio /\ SamePrice(Midpoint(r, s), n)
  BY <1>2, <1>6, MidpointTerms
<1>9. SamePrice(m, n)
  BY <1>5, <1>6 DEF SamePrice
<1>10. SamePrice(n, Midpoint(r, s))
  BY <1>8, AtMostIs
<1> QED
  BY <1>7, <1>8, <1>9, <1>10, SameTrans

\* The midpoint of a fraction with itself.
LEMMA MidpointOfOne ==
    ASSUME NEW p \in Ratio
    PROVE  SamePrice(p, Midpoint(p, p))
<1>1. AtMost(p, p) /\ Midpoint(p, p) \in Ratio
  BY AtMostIs, MidpointTerms
<1>2. AtMost(p, Midpoint(p, p)) /\ AtMost(Midpoint(p, p), p)
  BY <1>1, MidpointBetween
<1> QED
  BY <1>1, <1>2, AtMostIs

\* A wider pair has the greater spread.
LEMMA SpreadGrows ==
    ASSUME NEW l \in Ratio, NEW h \in Ratio, NEW low \in Ratio, NEW high \in Ratio,
           l[1] > 0, low[1] > 0, AtMost(low, l), AtMost(l, h), AtMost(h, high)
    PROVE  /\ Spread(l, h) \in Ratio /\ Spread(low, high) \in Ratio
           /\ AtMost(Spread(l, h), Spread(low, high))
<1>1. PICK a, b, c, d : a = l[1] /\ b = l[2] /\ c = h[1] /\ d = h[2]
  OBVIOUS
<1>2. PICK e, f, g, k : e = low[1] /\ f = low[2] /\ g = high[1] /\ k = high[2]
  OBVIOUS
<1>3. /\ a \in Nat \ {0} /\ b \in Nat \ {0} /\ c \in Nat /\ d \in Nat \ {0}
      /\ e \in Nat \ {0} /\ f \in Nat \ {0} /\ g \in Nat /\ k \in Nat \ {0}
      /\ e * b <= a * f /\ a * d <= c * b /\ c * k <= g * d
  BY <1>1, <1>2, AtMostIs
<1>4. AtMost(low, high)
  BY AtMostTrans
<1>5. e * k <= g * f
  BY <1>2, <1>4, AtMostIs
<1>6. PICK x \in Nat, y \in Nat \ {0}, u \in Nat, v \in Nat \ {0} :
         x = c * b /\ y = a * d /\ u = g * f /\ v = e * k
  <2>1. \A i, j \in Nat \ {0} : i * j \in Nat \ {0}
    OBVIOUS
  <2>2. c * b \in Nat /\ g * f \in Nat /\ a * d \in Nat \ {0} /\ e * k \in Nat \ {0}
    BY <1>3, <2>1
  <2> QED
    BY <2>2
<1>7. x - y \in Nat /\ u - v \in Nat
  BY <1>3, <1>5, <1>6
<1>8. Spread(l, h) = Frac(x - y, y) /\ Spread(low, high) = Frac(u - v, v)
  <2>1. d * a = y /\ k * e = v
    BY <1>3, <1>6
  <2> QED
    BY <1>1, <1>2, <1>6, <2>1 DEF Spread
<1>9. x * v <= u * y
  <2>1. (c * k) * (e * b) <= (g * d) * (a * f)
    <3>1. c * k \in Nat /\ e * b \in Nat /\ g * d \in Nat /\ a * f \in Nat
      BY <1>3
    <3> QED
      BY <1>3, <3>1, TimesBoth
  <2>2. (c * k) * (e * b) = (c * b) * (e * k) /\ (g * d) * (a * f) = (g * f) * (a * d)
    BY ONLY <1>3
  <2> QED
    BY <1>6, <2>1, <2>2
<1>10. (x - y) * v <= (u - v) * y
  <2>1. (x - y) * v = x * v - y * v /\ (u - v) * y = u * y - y * v
    BY ONLY <1>6
  <2>2. x * v \in Int /\ u * y \in Int /\ y * v \in Int
    BY ONLY <1>6
  <2> QED
    BY ONLY <1>9, <2>1, <2>2
<1>11. PICK m, n : m = <<x - y, y>> /\ n = <<u - v, v>>
  OBVIOUS
<1>12. /\ m \in Ratio /\ Spread(l, h) \in Ratio /\ SamePrice(Spread(l, h), m)
       /\ n \in Ratio /\ Spread(low, high) \in Ratio /\ SamePrice(Spread(low, high), n)
  BY <1>6, <1>7, <1>8, <1>11, FracIs
<1>13. AtMost(m, n)
  BY <1>10, <1>11, <1>12, AtMostIs
<1> QED
  BY <1>12, <1>13, SameCompares

-----------------------------------------------------------------------------
(* The ADA/USD price: observations                                         *)

\* A power of ten is positive.
LEMMA Pow10Positive ==
    ASSUME NEW n \in Nat
    PROVE  Pow10(n) \in Nat \ {0}
<1> DEFINE F(g, m) == [i \in 0..m |-> IF i = 0 THEN 1 ELSE 10 * g[i - 1]]
           Bad == {m \in Nat : ~\E g : g = F(g, m)}
<1>1. Bad = {}
  <2> SUFFICES ASSUME Bad # {} PROVE FALSE
    OBVIOUS
  <2>1. PICK m \in Bad : \A k \in Bad : ~(k < m)
    <3>1. Bad \in SUBSET Nat
      OBVIOUS
    <3> HIDE DEF Bad
    <3> QED
      BY <3>1, LeastOf
  <2>2. m # 0
    <3> DEFINE g == [i \in 0..0 |-> 1]
    <3>1. g = F(g, 0)
      OBVIOUS
    <3> QED
      BY <2>1, <3>1
  <2>3. m \in Nat /\ m - 1 \in Nat /\ m - 1 < m
    BY <2>1, <2>2
  <2>4. PICK h : h = F(h, m - 1)
    BY <2>1, <2>3
  <2> DEFINE g == [i \in 0..m |-> IF i = m THEN 10 * h[m - 1] ELSE h[i]]
  <2>5. ASSUME NEW i \in 0..m PROVE g[i] = F(g, m)[i]
    <3>1. F(g, m)[i] = IF i = 0 THEN 1 ELSE 10 * g[i - 1]
      OBVIOUS
    <3>2. \A j \in 0..(m - 1) : g[j] = h[j] /\ h[j] = IF j = 0 THEN 1 ELSE 10 * h[j - 1]
      <4>1. \A j \in 0..(m - 1) : j \in 0..m /\ j # m
        BY <2>3
      <4>2. \A j \in 0..(m - 1) : h[j] = IF j = 0 THEN 1 ELSE 10 * h[j - 1]
        BY <2>4
      <4> QED
        BY <4>1, <4>2
    <3>3. g[m] = 10 * h[m - 1] /\ m - 1 \in 0..(m - 1)
      BY <2>3
    <3> HIDE DEF g, F
    <3>4. CASE i = m
      BY <2>2, <3>1, <3>2, <3>3, <3>4
    <3>5. CASE i # m
      <4>1. i \in 0..(m - 1) /\ (i # 0 => i - 1 \in 0..(m - 1))
        BY <2>3, <3>5
      <4> QED
        BY <3>1, <3>2, <4>1
    <3> QED
      BY <3>4, <3>5
  <2>6. g = F(g, m)
    <3>1. g = [i \in 0..m |-> g[i]] /\ F(g, m) = [i \in 0..m |-> F(g, m)[i]]
      OBVIOUS
    <3> HIDE DEF g, F
    <3> QED
      BY <2>5, <3>1
  <2> HIDE DEF g
  <2> QED
    BY <2>1, <2>6
<1>2. \E h : h = F(h, n)
  <2>1. n \notin Bad
    BY <1>1
  <2> HIDE DEF F
  <2> QED
    BY <2>1
<1> DEFINE g == CHOOSE h : h = F(h, n)
<1>3. g = F(g, n)
  <2> HIDE DEF F
  <2> QED
    BY <1>2
<1>4. Pow10(n) = g[n]
  BY DEF Pow10
<1> HIDE DEF g
<1>5. \A i \in 0..n : g[i] = IF i = 0 THEN 1 ELSE 10 * g[i - 1]
  BY <1>3
<1> HIDE DEF F
<1> DEFINE Worse == {i \in 0..n : g[i] \notin Nat \ {0}}
<1>6. Worse = {}
  <2> SUFFICES ASSUME Worse # {} PROVE FALSE
    OBVIOUS
  <2>1. PICK i \in Worse : \A k \in Worse : ~(k < i)
    <3>1. Worse \in SUBSET Nat
      OBVIOUS
    <3> HIDE DEF Worse
    <3> QED
      BY <3>1, LeastOf
  <2>2. i \in 0..n /\ g[i] \notin Nat \ {0}
    BY <2>1
  <2>3. i # 0
    BY <1>5, <2>2
  <2>4. i - 1 \in 0..n /\ i - 1 < i
    BY <2>2, <2>3
  <2>5. g[i - 1] \in Nat \ {0}
    BY <2>1, <2>4
  <2>6. g[i] = 10 * g[i - 1]
    BY <1>5, <2>2, <2>3
  <2> QED
    BY <2>2, <2>5, <2>6
<1> QED
  BY <1>4, <1>6

\* What observations have.
Priced(obs) ==
    \A o \in obs : o.price \in Ratio /\ o.price[1] > 0 /\ o.weight \in Nat

\* An amount in micros, unless it overflows.
LEMMA MicrosAre ==
    ASSUME NEW amount \in Nat, NEW decimals \in Nat
    PROVE  NormalizeToMicros(amount, decimals) \in Nat \cup {Overflows}
<1>1. MicrosDecimals \in Nat /\ MaxUsdWord \in Nat
  BY AdaUsdAssumption
<1>2. PICK e : e = IF decimals <= MicrosDecimals THEN MicrosDecimals - decimals
                   ELSE decimals - MicrosDecimals
  OBVIOUS
<1>3. e \in Nat
  BY <1>1, <1>2
<1>4. PICK factor \in Nat \ {0} : factor = Pow10(e)
  BY <1>3, Pow10Positive
<1>5. amount \div factor \in Nat /\ amount * factor \in Nat
  OBVIOUS
<1> QED
  BY <1>2, <1>4, <1>5 DEF NormalizeToMicros

\* The observation of a pool that qualifies has a positive price.
LEMMA ObservationIs ==
    ASSUME NEW p, IsPoolState(p), Qualifies(p)
    PROVE  LET o == ObservationFromPool(p)
           IN  o.price \in Ratio /\ o.price[1] > 0 /\ o.weight \in Nat
<1>1. p.coin \in Stablecoins /\ p.ada > 0 /\ p.stable > 0 /\ p.ada \in Nat /\ p.stable \in Nat
  BY DEF Qualifies, IsPoolState
<1>2. Decimals[p.coin] \in Nat /\ MicrosDecimals \in Nat
  BY <1>1, AdaUsdAssumption
<1>3. NormalizeToMicros(p.stable, Decimals[p.coin]) \in Nat
  BY <1>1, <1>2, MicrosAre DEF Qualifies
<1>4. PICK t \in Nat \ {0}, u \in Nat \ {0} : t = Pow10(MicrosDecimals) /\ u = Pow10(Decimals[p.coin])
  BY <1>2, Pow10Positive
<1>5. p.stable * t \in Nat \ {0} /\ p.ada * u \in Nat \ {0}
  <2>1. \A x, y \in Nat \ {0} : x * y \in Nat \ {0}
    OBVIOUS
  <2>2. p.stable \in Nat \ {0} /\ p.ada \in Nat \ {0}
    BY <1>1
  <2> QED
    BY <2>1, <2>2
<1>6. PICK x, y : x = p.stable * t /\ y = p.ada * u
  OBVIOUS
<1>7. Frac(x, y) \in Ratio /\ Frac(x, y)[1] > 0
  <2>1. x \in Nat \ {0} /\ y \in Nat \ {0}
    BY <1>5, <1>6
  <2>2. x \in Nat /\ x > 0
    BY ONLY <2>1
  <2>3. Frac(x, y) \in Ratio /\ (x > 0 => Frac(x, y)[1] > 0)
    BY ONLY <2>1, <2>2, FracIs
  <2> QED
    BY ONLY <2>2, <2>3
<1>8. ObservationFromPool(p) = [pool |-> p.pool, coin |-> p.coin,
          weight |-> NormalizeToMicros(p.stable, Decimals[p.coin]), price |-> Frac(x, y)]
  BY <1>4, <1>6 DEF ObservationFromPool
<1> QED
  BY <1>3, <1>7, <1>8

-----------------------------------------------------------------------------
(* The ADA/USD price: the order by price                                   *)

\* Of some observations there is a dearest one.
LEMMA HasDearest ==
    ASSUME NEW S, IsFiniteSet(S), S # {}, Priced(S)
    PROVE  \E x \in S : \A y \in S : AtMost(y.price, x.price)
<1> DEFINE HasMax(T) == \E x \in T : \A y \in T : AtMost(y.price, x.price)
           Bad == {n \in Nat : \E T \in SUBSET S : Cardinality(T) = n /\ T # {} /\ ~HasMax(T)}
<1>0. \A T \in SUBSET S : IsFiniteSet(T) /\ Cardinality(T) \in Nat
  BY FS_Subset, FS_CardinalityType
<1>1. Bad = {}
  <2> SUFFICES ASSUME Bad # {} PROVE FALSE
    OBVIOUS
  <2>1. PICK n \in Bad : \A k \in Bad : ~(k < n)
    <3>1. Bad \in SUBSET Nat
      OBVIOUS
    <3> HIDE DEF Bad
    <3> QED
      BY <3>1, LeastOf
  <2> HIDE DEF Max
  <2>2. PICK T \in SUBSET S : Cardinality(T) = n /\ T # {} /\ ~HasMax(T)
    BY <2>1
  <2>3. PICK z : z \in T
    BY <2>2
  <2>4. PICK U : U = T \ {z}
    OBVIOUS
  <2>5. U \in SUBSET S /\ Cardinality(U) = n - 1 /\ n \in Nat
    BY <1>0, <2>2, <2>3, <2>4, FS_RemoveElement
  <2>6. Cardinality(U) \in Nat /\ n - 1 < n
    BY <1>0, <2>5
  <2>7. U = {} \/ HasMax(U)
    BY <2>1, <2>5, <2>6
  <2>8. \A y \in T : y = z \/ y \in U
    BY <2>4
  <2>9. \A x, y \in T : /\ AtMost(x.price, y.price) \/ AtMost(y.price, x.price)
                        /\ x.price \in Ratio /\ y.price \in Ratio
    BY AtMostIs DEF Priced
  <2>10. CASE U = {}
    <3>1. \A y \in T : AtMost(y.price, z.price)
      BY <2>3, <2>8, <2>9, <2>10
    <3> QED
      BY <2>2, <2>3, <3>1 DEF Max
  <2>11. CASE HasMax(U)
    <3>1. PICK x \in U : \A y \in U : AtMost(y.price, x.price)
      BY <2>11 DEF Max
    <3>2. x \in T
      BY <2>4
    <3>3. CASE AtMost(z.price, x.price)
      <4>1. \A y \in T : AtMost(y.price, x.price)
        BY <2>8, <3>1, <3>3
      <4> QED
        BY <2>2, <3>2, <4>1 DEF Max
    <3>4. CASE AtMost(x.price, z.price)
      <4>1. ASSUME NEW y \in T PROVE AtMost(y.price, z.price)
        <5>1. CASE y = z
          BY <2>3, <2>9, <5>1
        <5>2. CASE y \in U
          <6>1. AtMost(y.price, x.price)
            BY <3>1, <5>2
          <6> QED
            BY <2>3, <2>9, <3>2, <3>4, <6>1, AtMostTrans
        <5> QED
          BY <2>8, <5>1, <5>2
      <4> QED
        BY <2>2, <2>3, <4>1 DEF Max
    <3> QED
      BY <2>3, <2>9, <3>2, <3>3, <3>4
  <2> QED
    BY <2>7, <2>10, <2>11
<1>2. S \in SUBSET S /\ Cardinality(S) \in Nat
  BY <1>0
<1>3. HasMax(S)
  <2> HIDE DEF Max
  <2> QED
    BY <1>1, <1>2
<1> QED
  BY <1>3

\* An order of observations by price.
IsByPrice(s, obs) ==
    /\ \A o \in obs : \E i \in DOMAIN s : s[i] = o
    /\ \A i, j \in DOMAIN s : i < j => AtMost(s[i].price, s[j].price)

\* There is one.
LEMMA SortedExists ==
    ASSUME NEW S, IsFiniteSet(S), Priced(S)
    PROVE  \E s \in [1..Cardinality(S) -> S] : IsByPrice(s, S)
<1> DEFINE Sorts(T, n) == \E s \in [1..n -> T] : IsByPrice(s, T)
           Bad == {n \in Nat : \E T \in SUBSET S : Cardinality(T) = n /\ ~Sorts(T, n)}
<1>0. \A T \in SUBSET S : IsFiniteSet(T) /\ Cardinality(T) \in Nat
  BY FS_Subset, FS_CardinalityType
<1>1. Bad = {}
  <2> SUFFICES ASSUME Bad # {} PROVE FALSE
    OBVIOUS
  <2>1. PICK n \in Bad : \A k \in Bad : ~(k < n)
    <3>1. Bad \in SUBSET Nat
      OBVIOUS
    <3> HIDE DEF Bad
    <3> QED
      BY <3>1, LeastOf
  <2> HIDE DEF Sorts
  <2>2. PICK T \in SUBSET S : Cardinality(T) = n /\ ~Sorts(T, n)
    BY <2>1
  <2>3. T # {}
    <3> SUFFICES ASSUME T = {} PROVE Sorts(T, n)
      BY <2>2
    <3>1. n = 0
      BY <2>2, FS_EmptySet
    <3> DEFINE s == [i \in 1..0 |-> 0]
    <3>2. 1..0 = {}
      OBVIOUS
    <3>3. s \in [1..0 -> T] /\ DOMAIN s = 1..0
      BY <3>2
    <3>4. IsByPrice(s, T)
      BY <3>2, <3>3 DEF IsByPrice
    <3> HIDE DEF s
    <3> QED
      BY <3>1, <3>3, <3>4 DEF Sorts
  <2>4. PICK x \in T : \A y \in T : AtMost(y.price, x.price)
    <3>1. Priced(T) /\ IsFiniteSet(T)
      BY <1>0 DEF Priced
    <3> QED
      BY <2>3, <3>1, HasDearest
  <2>5. PICK U : U = T \ {x}
    OBVIOUS
  <2>6. U \in SUBSET S /\ Cardinality(U) = n - 1 /\ n \in Nat
    BY <1>0, <2>2, <2>4, <2>5, FS_RemoveElement
  <2>7. n - 1 \in Nat /\ n - 1 < n
    BY <1>0, <2>6
  <2>8. Sorts(U, n - 1)
    BY <2>1, <2>6, <2>7
  <2>9. PICK h \in [1..(n - 1) -> U] : IsByPrice(h, U)
    BY <2>8 DEF Sorts
  <2> DEFINE s == [i \in 1..n |-> IF i = n THEN x ELSE h[i]]
  <2>10. /\ \A i \in 1..n : i = n \/ i \in 1..(n - 1)
         /\ \A i \in 1..(n - 1) : i \in 1..n /\ i # n
         /\ n \in 1..n
    BY <2>7
  <2>11. s[n] = x /\ \A i \in 1..(n - 1) : s[i] = h[i] /\ h[i] \in U
    BY <2>9, <2>10
  <2>12. s \in [1..n -> T] /\ DOMAIN s = 1..n
    BY <2>4, <2>5, <2>9, <2>10
  <2> HIDE DEF s
  <2>13. \A o \in T : \E i \in DOMAIN s : s[i] = o
    <3> SUFFICES ASSUME NEW o \in T PROVE \E i \in 1..n : s[i] = o
      BY <2>12
    <3>1. CASE o = x
      BY <2>10, <2>11, <3>1
    <3>2. CASE o # x
      <4>1. o \in U
        BY <2>5, <3>2
      <4>2. PICK i \in 1..(n - 1) : h[i] = o
        BY <2>9, <4>1 DEF IsByPrice
      <4> QED
        BY <2>10, <2>11, <4>2
    <3> QED
      BY <3>1, <3>2
  <2>14. ASSUME NEW i \in 1..n, NEW j \in 1..n, i < j
         PROVE  AtMost(s[i].price, s[j].price)
    <3>1. i \in 1..(n - 1)
      BY <2>6, <2>14
    <3>2. CASE j = n
      BY <2>4, <2>5, <2>11, <3>1, <3>2
    <3>3. CASE j \in 1..(n - 1)
      <4>1. AtMost(h[i].price, h[j].price)
        BY <2>9, <2>14, <3>1, <3>3 DEF IsByPrice
      <4> QED
        BY <2>11, <3>1, <3>3, <4>1
    <3> QED
      BY <2>10, <3>2, <3>3
  <2>15. IsByPrice(s, T)
    BY <2>12, <2>13, <2>14 DEF IsByPrice
  <2> QED
    BY <2>2, <2>12, <2>15 DEF Sorts
<1>2. S \in SUBSET S /\ Cardinality(S) \in Nat
  BY <1>0
<1>3. Sorts(S, Cardinality(S))
  <2> HIDE DEF Sorts
  <2> QED
    BY <1>1, <1>2
<1> QED
  BY <1>3

\* ByPrice takes it.
LEMMA ByPriceIs ==
    ASSUME NEW obs, IsFiniteSet(obs), Priced(obs), NEW s, s = ByPrice(obs)
    PROVE  /\ s \in Seq(obs) /\ Len(s) = Cardinality(obs) /\ Len(s) \in Nat
           /\ \A i \in 1..Len(s) : s[i] \in obs
           /\ \A o \in obs : \E i \in 1..Len(s) : s[i] = o
           /\ \A i, j \in 1..Len(s) : i <= j => AtMost(s[i].price, s[j].price)
<1>1. \E t \in [1..Cardinality(obs) -> obs] : IsByPrice(t, obs)
  BY SortedExists
<1>2. s \in [1..Cardinality(obs) -> obs] /\ IsByPrice(s, obs)
  BY <1>1 DEF ByPrice, IsByPrice
<1>3. Cardinality(obs) \in Nat
  BY FS_CardinalityType
<1>4. s \in Seq(obs) /\ Len(s) = Cardinality(obs)
  BY <1>2, <1>3, SeqDef, LenProperties
<1>5. DOMAIN s = 1..Len(s)
  BY <1>2, <1>4
<1>6. ASSUME NEW i \in 1..Len(s), NEW j \in 1..Len(s), i <= j
      PROVE  AtMost(s[i].price, s[j].price)
  <2>1. CASE i = j
    <3>1. s[i].price \in Ratio
      BY <1>2, <1>4 DEF Priced
    <3> QED
      BY <2>1, <3>1, AtMostIs
  <2>2. CASE i # j
    <3>1. i < j
      BY <1>3, <1>4, <1>6, <2>2
    <3> QED
      BY <1>2, <1>5, <3>1 DEF IsByPrice
  <2> QED
    BY <2>1, <2>2
<1> QED
  BY <1>2, <1>3, <1>4, <1>5, <1>6 DEF IsByPrice
-----------------------------------------------------------------------------
(* The ADA/USD price: weights                                              *)

\* Whatever adds the terms one at a time is their sum.
LEMMA SumUnique ==
    ASSUME NEW n \in Nat, NEW f, NEW g, g[0] = 0, Adds(g, f, n)
    PROVE  SumTo(n, f) = g[n]
<1>1. PICK h : /\ h[0] = 0 /\ h[n] = SumTo(n, f)
               /\ \A i \in 1..n : h[i] = h[i - 1] + f[i]
  BY SumSteps
<1> DEFINE Bad == {i \in 0..n : h[i] # g[i]}
<1>2. Bad = {}
  <2> SUFFICES ASSUME Bad # {} PROVE FALSE
    OBVIOUS
  <2>1. PICK i \in Bad : \A k \in Bad : ~(k < i)
    <3>1. Bad \in SUBSET Nat
      OBVIOUS
    <3> HIDE DEF Bad
    <3> QED
      BY <3>1, LeastOf
  <2>2. i \in 0..n /\ h[i] # g[i] /\ i # 0
    BY <1>1, <2>1
  <2>3. i \in 1..n /\ i - 1 \in 0..n /\ i - 1 < i
    BY <2>2
  <2>4. h[i - 1] = g[i - 1]
    BY <2>1, <2>3
  <2> QED
    BY <1>1, <2>2, <2>3, <2>4 DEF Adds
<1>3. n \in 0..n
  OBVIOUS
<1> QED
  BY <1>1, <1>2, <1>3

\* n weights.
AreWeights(w, n) == \A i \in 1..n : w[i] \in Nat
\* C[i] is the sum of the first i weights.
AreTotals(C, w, n) ==
    /\ C[0] = 0 /\ Adds(C, w, n)
    /\ \A i \in 0..n : C[i] \in Nat /\ C[i] = SumTo(i, w)
    /\ \A i, j \in 0..n : i <= j => C[i] <= C[j]

\* The partial sums of weights are their running totals.
LEMMA HasTotals ==
    ASSUME NEW n \in Nat, NEW w, AreWeights(w, n)
    PROVE  \E C : AreTotals(C, w, n)
<1>1. PICK C : C[0] = 0 /\ \A i \in 1..n : C[i] = C[i - 1] + w[i]
  BY SumSteps
<1>2. ASSUME NEW i \in 0..n PROVE C[i] = SumTo(i, w)
  <2>1. Adds(C, w, i)
    <3>1. \A j \in 1..i : j \in 1..n
      BY <1>2
    <3> QED
      BY <1>1, <3>1 DEF Adds
  <2> QED
    BY <1>1, <1>2, <2>1, SumUnique
<1> DEFINE Bad == {i \in 0..n : ~(C[i] \in Nat /\ \A j \in 0..i : C[j] <= C[i])}
<1>3. Bad = {}
  <2> SUFFICES ASSUME Bad # {} PROVE FALSE
    OBVIOUS
  <2>1. PICK i \in Bad : \A k \in Bad : ~(k < i)
    <3>1. Bad \in SUBSET Nat
      OBVIOUS
    <3> HIDE DEF Bad
    <3> QED
      BY <3>1, LeastOf
  <2>2. i \in 0..n /\ ~(C[i] \in Nat /\ \A j \in 0..i : C[j] <= C[i])
    BY <2>1
  <2>3. i # 0
    <3>1. \A j \in 0..0 : j = 0
      OBVIOUS
    <3> QED
      BY <1>1, <2>2, <3>1
  <2>4. i \in 1..n /\ i - 1 \in 0..n /\ i - 1 < i
    BY <2>2, <2>3
  <2>5. C[i - 1] \in Nat /\ \A j \in 0..(i - 1) : C[j] <= C[i - 1]
    BY <2>1, <2>4
  <2>6. C[i] = C[i - 1] + w[i] /\ w[i] \in Nat
    BY <1>1, <2>4 DEF AreWeights
  <2>7. C[i] \in Nat /\ C[i - 1] <= C[i]
    BY <2>5, <2>6
  <2>8. \A j \in 0..(i - 1) : C[j] \in Nat
    <3>1. ASSUME NEW j \in 0..(i - 1) PROVE C[j] \in Nat
      <4>1. j \in 0..n /\ j < i
        BY <2>4
      <4> QED
        BY <2>1, <4>1
    <3> QED
      BY <3>1
  <2>9. ASSUME NEW j \in 0..i PROVE C[j] <= C[i]
    <3>1. CASE j = i
      BY <2>7, <3>1
    <3>2. CASE j # i
      <4>1. j \in 0..(i - 1)
        BY <2>4, <3>2
      <4> QED
        BY <2>5, <2>7, <2>8, <4>1
    <3> QED
      BY <3>1, <3>2
  <2> QED
    BY <2>2, <2>7, <2>9
<1>4. \A i \in 0..n : C[i] \in Nat /\ \A j \in 0..i : C[j] <= C[i]
  BY <1>3
<1> HIDE DEF Bad
<1>5. \A i, j \in 0..n : i <= j => C[i] <= C[j]
  <2>1. \A i, j \in 0..n : i <= j => i \in 0..j
    OBVIOUS
  <2> QED
    BY <1>4, <2>1
<1>6. Adds(C, w, n)
  BY <1>1 DEF Adds
<1> QED
  BY <1>1, <1>2, <1>4, <1>5, <1>6 DEF AreTotals

\* The weight of the first i.
LEMMA HeadSum ==
    ASSUME NEW n \in Nat, NEW w, NEW C, AreTotals(C, w, n), NEW i \in 0..n, NEW f,
           \A j \in 1..n : f[j] = IF j <= i THEN w[j] ELSE 0
    PROVE  SumTo(n, f) = C[i]
<1> DEFINE g == [j \in 0..n |-> IF j <= i THEN C[j] ELSE C[i]]
<1>1. g[0] = 0 /\ g[n] = C[i]
  BY DEF AreTotals
<1>2. ASSUME NEW j \in 1..n PROVE g[j] = g[j - 1] + f[j]
  <2>1. j \in 0..n /\ j - 1 \in 0..n /\ C[i] \in Nat /\ C[j] = C[j - 1] + w[j]
    BY <1>2 DEF AreTotals, Adds
  <2>2. CASE j <= i
    <3>1. g[j] = C[j] /\ g[j - 1] = C[j - 1] /\ f[j] = w[j]
      BY <2>1, <2>2
    <3> QED
      BY <2>1, <3>1
  <2>3. CASE ~(j <= i)
    <3>1. g[j] = C[i] /\ f[j] = 0
      BY <2>1, <2>3
    <3>2. g[j - 1] = C[i]
      <4>1. CASE j - 1 = i
        BY <2>1, <4>1
      <4>2. CASE j - 1 # i
        <5>1. ~(j - 1 <= i)
          BY <2>3, <4>2
        <5> QED
          BY <2>1, <5>1
      <4> QED
        BY <4>1, <4>2
    <3> QED
      BY <2>1, <3>1, <3>2
  <2> QED
    BY <2>2, <2>3
<1> HIDE DEF g
<1>3. Adds(g, f, n)
  BY <1>2 DEF Adds
<1> QED
  BY <1>1, <1>3, SumUnique

\* The weight of those after the first i.
LEMMA TailSum ==
    ASSUME NEW n \in Nat, NEW w, NEW C, AreTotals(C, w, n), NEW i \in 0..n, NEW f,
           \A j \in 1..n : w[j] \in Nat /\ f[j] = IF j > i THEN w[j] ELSE 0
    PROVE  SumTo(n, f) = C[n] - C[i]
<1> DEFINE g == [j \in 0..n |-> IF j > i THEN C[j] - C[i] ELSE 0]
<1>1. g[0] = 0
  OBVIOUS
<1>2. g[n] = C[n] - C[i]
  <2>1. C[n] \in Nat /\ C[i] \in Nat /\ n \in 0..n
    BY DEF AreTotals
  <2>2. CASE n > i
    BY <2>1, <2>2
  <2>3. CASE n = i
    BY <2>1, <2>3
  <2> QED
    BY <2>2, <2>3
<1>3. ASSUME NEW j \in 1..n PROVE g[j] = g[j - 1] + f[j]
  <2>1. /\ j \in 0..n /\ j - 1 \in 0..n /\ C[i] \in Nat /\ C[j] = C[j - 1] + w[j]
        /\ C[j - 1] \in Nat /\ w[j] \in Nat
    BY <1>3 DEF AreTotals, Adds
  <2>2. CASE j > i
    <3>1. g[j] = C[j] - C[i] /\ f[j] = w[j]
      BY <2>1, <2>2
    <3>2. g[j - 1] = C[j - 1] - C[i]
      <4>1. CASE j - 1 = i
        BY <2>1, <4>1
      <4>2. CASE j - 1 # i
        <5>1. j - 1 > i
          BY <2>2, <4>2
        <5> QED
          BY <2>1, <5>1
      <4> QED
        BY <4>1, <4>2
    <3> HIDE DEF g
    <3> QED
      BY <2>1, <3>1, <3>2
  <2>3. CASE ~(j > i)
    <3>1. g[j] = 0 /\ f[j] = 0 /\ g[j - 1] = 0
      BY <2>1, <2>3
    <3> QED
      BY <3>1
  <2> QED
    BY <2>2, <2>3
<1> HIDE DEF g
<1>4. Adds(g, f, n)
  BY <1>3 DEF Adds
<1> QED
  BY <1>1, <1>2, <1>4, SumUnique

\* Smaller weights have the smaller sum.
LEMMA SumBelow ==
    ASSUME NEW n \in Nat, NEW f, NEW h, AreWeights(f, n), AreWeights(h, n),
           \A j \in 1..n : f[j] <= h[j]
    PROVE  SumTo(n, f) \in Nat /\ SumTo(n, h) \in Nat /\ SumTo(n, f) <= SumTo(n, h)
<1>1. PICK C : AreTotals(C, f, n)
  BY HasTotals
<1>2. PICK D : AreTotals(D, h, n)
  BY HasTotals
<1> DEFINE Bad == {i \in 0..n : ~(C[i] <= D[i])}
<1>3. Bad = {}
  <2> SUFFICES ASSUME Bad # {} PROVE FALSE
    OBVIOUS
  <2>1. PICK i \in Bad : \A k \in Bad : ~(k < i)
    <3>1. Bad \in SUBSET Nat
      OBVIOUS
    <3> HIDE DEF Bad
    <3> QED
      BY <3>1, LeastOf
  <2>2. i \in 0..n /\ ~(C[i] <= D[i]) /\ i # 0
    BY <1>1, <1>2, <2>1 DEF AreTotals
  <2>3. i \in 1..n /\ i - 1 \in 0..n /\ i - 1 < i
    BY <2>2
  <2>4. C[i - 1] <= D[i - 1]
    BY <2>1, <2>3
  <2>5. C[i] = C[i - 1] + f[i] /\ D[i] = D[i - 1] + h[i] /\ C[i - 1] \in Nat /\ D[i - 1] \in Nat
    BY <1>1, <1>2, <2>3 DEF AreTotals, Adds
  <2>6. f[i] \in Nat /\ h[i] \in Nat /\ f[i] <= h[i]
    BY <2>3 DEF AreWeights
  <2> HIDE DEF Bad
  <2> QED
    BY <2>2, <2>4, <2>5, <2>6
<1>4. n \in 0..n
  OBVIOUS
<1>5. C[n] <= D[n]
  BY <1>3, <1>4
<1> QED
  BY <1>1, <1>2, <1>4, <1>5 DEF AreTotals

-----------------------------------------------------------------------------
(* The ADA/USD price: the median                                           *)

\* Observations by price, with their weights and running totals.
IsLadder(obs, s, n, w, C) ==
    /\ n \in Nat /\ n = Len(s) /\ s = ByPrice(obs)
    /\ \A i \in 1..n : s[i] \in obs
    /\ \A o \in obs : \E i \in 1..n : s[i] = o
    /\ \A i, j \in 1..n : i <= j => AtMost(s[i].price, s[j].price)
    /\ \A o \in obs : o.price \in Ratio /\ o.weight \in Nat
    /\ w = [i \in 1..n |-> s[i].weight]
    /\ AreTotals(C, w, n)
    /\ Weight(obs) = C[n]

\* Finitely many observations have a ladder.
LEMMA HasLadder ==
    ASSUME NEW obs, IsFiniteSet(obs), Priced(obs)
    PROVE  \E s, n, w, C : IsLadder(obs, s, n, w, C) /\ n = Cardinality(obs)
<1>1. PICK s : s = ByPrice(obs)
  OBVIOUS
<1>2. PICK n : n = Len(s)
  OBVIOUS
<1>3. /\ n \in Nat /\ n = Cardinality(obs)
      /\ \A i \in 1..n : s[i] \in obs
      /\ \A o \in obs : \E i \in 1..n : s[i] = o
      /\ \A i, j \in 1..n : i <= j => AtMost(s[i].price, s[j].price)
  BY <1>1, <1>2, ByPriceIs
<1>4. PICK w : w = [i \in 1..n |-> s[i].weight]
  OBVIOUS
<1>5. AreWeights(w, n)
  BY <1>3, <1>4 DEF AreWeights, Priced
<1>6. PICK C : AreTotals(C, w, n)
  BY <1>3, <1>5, HasTotals
<1>7. Weight(obs) = SumTo(n, w)
  <2>1. [i \in 1..n |-> IF s[i] \in obs THEN s[i].weight ELSE 0] = w
    BY <1>3, <1>4
  <2> QED
    BY <1>1, <1>2, <2>1 DEF Weight, WeightOf
<1>8. Weight(obs) = C[n]
  <2>1. n \in 0..n
    BY <1>3
  <2> QED
    BY <1>6, <1>7, <2>1 DEF AreTotals
<1>9. \A o \in obs : o.price \in Ratio /\ o.weight \in Nat
  BY DEF Priced
<1>10. IsLadder(obs, s, n, w, C)
  BY <1>1, <1>2, <1>3, <1>4, <1>6, <1>8, <1>9 DEF IsLadder
<1> QED
  BY <1>3, <1>10

\* The weight of some observations is at least that of the first, or last,
\* positions if they hold those, and at most if they hold no other.
LEMMA WeightBounds ==
    ASSUME NEW obs, NEW s, NEW n, NEW w, NEW C, IsLadder(obs, s, n, w, C),
           NEW some, NEW i \in 0..n
    PROVE  /\ WeightOf(some, obs) \in Nat /\ C[i] \in Nat /\ C[n] \in Nat
           /\ (\A j \in 1..i : s[j] \in some) => C[i] <= WeightOf(some, obs)
           /\ (\A j \in 1..n : s[j] \in some => j <= i) => WeightOf(some, obs) <= C[i]
           /\ (\A j \in (i + 1)..n : s[j] \in some) => C[n] - C[i] <= WeightOf(some, obs)
           /\ (\A j \in 1..n : s[j] \in some => j > i) => WeightOf(some, obs) <= C[n] - C[i]
<1>1. PICK f : f = [j \in 1..n |-> IF s[j] \in some THEN s[j].weight ELSE 0]
  OBVIOUS
<1>2. WeightOf(some, obs) = SumTo(n, f)
  BY <1>1 DEF IsLadder, WeightOf
<1>3. n \in Nat /\ AreTotals(C, w, n) /\ \A j \in 1..n : w[j] \in Nat
  BY DEF IsLadder
<1>4. \A j \in 1..n : f[j] = IF s[j] \in some THEN w[j] ELSE 0
  BY <1>1 DEF IsLadder
<1>5. AreWeights(f, n)
  BY <1>3, <1>4 DEF AreWeights
<1>6. C[i] \in Nat /\ C[n] \in Nat
  <2>1. n \in 0..n
    BY <1>3
  <2> QED
    BY <1>3, <2>1 DEF AreTotals
<1>7. PICK head : head = [j \in 1..n |-> IF j <= i THEN w[j] ELSE 0]
  OBVIOUS
<1>8. \A j \in 1..n : head[j] = IF j <= i THEN w[j] ELSE 0
  BY <1>7
<1>9. AreWeights(head, n) /\ SumTo(n, head) = C[i]
  <2>1. SumTo(n, head) = C[i]
    BY <1>3, <1>8, HeadSum
  <2> QED
    BY <1>3, <1>8, <2>1 DEF AreWeights
<1>10. PICK tail : tail = [j \in 1..n |-> IF j > i THEN w[j] ELSE 0]
  OBVIOUS
<1>11. \A j \in 1..n : tail[j] = IF j > i THEN w[j] ELSE 0
  BY <1>10
<1>12. AreWeights(tail, n) /\ SumTo(n, tail) = C[n] - C[i]
  <2>1. SumTo(n, tail) = C[n] - C[i]
    BY <1>3, <1>11, TailSum
  <2> QED
    BY <1>3, <1>11, <2>1 DEF AreWeights
<1>13. SumTo(n, f) \in Nat
  <2>1. \A j \in 1..n : f[j] <= f[j]
    BY <1>5 DEF AreWeights
  <2> QED
    BY <1>3, <1>5, <2>1, SumBelow
<1>14. ASSUME \A j \in 1..i : s[j] \in some PROVE C[i] <= SumTo(n, f)
  <2>1. \A j \in 1..n : head[j] <= f[j]
    <3>1. \A j \in 1..n : j <= i => j \in 1..i
      BY <1>3
    <3> QED
      BY <1>3, <1>4, <1>8, <1>14, <3>1
  <2> QED
    BY <1>3, <1>5, <1>9, <2>1, SumBelow
<1>15. ASSUME \A j \in 1..n : s[j] \in some => j <= i PROVE SumTo(n, f) <= C[i]
  <2>1. \A j \in 1..n : f[j] <= head[j]
    BY <1>3, <1>4, <1>8, <1>15
  <2> QED
    BY <1>3, <1>5, <1>9, <2>1, SumBelow
<1>16. ASSUME \A j \in (i + 1)..n : s[j] \in some PROVE C[n] - C[i] <= SumTo(n, f)
  <2>1. \A j \in 1..n : tail[j] <= f[j]
    <3>1. \A j \in 1..n : j > i => j \in (i + 1)..n
      BY <1>3
    <3> QED
      BY <1>3, <1>4, <1>11, <1>16, <3>1
  <2> QED
    BY <1>3, <1>5, <1>12, <2>1, SumBelow
<1>17. ASSUME \A j \in 1..n : s[j] \in some => j > i PROVE SumTo(n, f) <= C[n] - C[i]
  <2>1. \A j \in 1..n : f[j] <= tail[j]
    BY <1>3, <1>4, <1>11, <1>17
  <2> QED
    BY <1>3, <1>5, <1>12, <2>1, SumBelow
<1> QED
  BY <1>2, <1>6, <1>13, <1>14, <1>15, <1>16, <1>17

\* The two sets of MiddlePrice: the prices with half the weight at or below
\* them.
LowerPrices(obs) ==
    {p \in {o.price : o \in {x \in obs : x.weight > 0}} :
       2 * WeightOf({o \in obs : AtMost(o.price, p)}, obs) >= Weight(obs)}
\* The prices with half the weight at or above them.
UpperPrices(obs) ==
    {p \in {o.price : o \in {x \in obs : x.weight > 0}} :
       2 * WeightOf({o \in obs : AtMost(p, o.price)}, obs) >= Weight(obs)}

\* The least price with half the weight at or below it is where the running
\* total reaches half.
LEMMA LeastIs ==
    ASSUME NEW obs, NEW s, NEW n, NEW w, NEW C, IsLadder(obs, s, n, w, C),
           NEW i \in 1..n, w[i] > 0, 2 * C[i] >= C[n], 2 * C[i - 1] < C[n]
    PROVE  LET least == CHOOSE p \in LowerPrices(obs) : \A q \in LowerPrices(obs) : AtMost(p, q)
           IN  least \in Ratio /\ SamePrice(s[i].price, least)
<1> DEFINE x == s[i].price
           Some(p) == {o \in obs : AtMost(o.price, p)}
<1>1. n \in Nat /\ i - 1 \in 0..n /\ i \in 0..n /\ C[n] \in Nat /\ Weight(obs) = C[n]
  <2>1. n \in Nat /\ Weight(obs) = C[n] /\ AreTotals(C, w, n)
    BY DEF IsLadder
  <2>2. n \in 0..n
    BY <2>1
  <2> QED
    BY <2>1, <2>2 DEF AreTotals
<1>2. s[i] \in obs /\ s[i].weight > 0 /\ x \in Ratio
  BY DEF IsLadder
<1>3. LowerPrices(obs) \in SUBSET Ratio
  BY DEF LowerPrices, IsLadder
<1>4. x \in LowerPrices(obs)
  <2>1. ASSUME NEW j \in 1..i PROVE s[j] \in Some(x)
    <3>1. j \in 1..n /\ j <= i
      BY <1>1
    <3> QED
      BY <3>1 DEF IsLadder
  <2>2. C[i] <= WeightOf(Some(x), obs) /\ WeightOf(Some(x), obs) \in Nat /\ C[i] \in Nat
    <3> HIDE DEF Some, x
    <3> QED
      BY <1>1, <2>1, WeightBounds
  <2>3. 2 * WeightOf(Some(x), obs) >= C[n]
    <3> HIDE DEF Some, x
    <3> QED
      BY <1>1, <2>2
  <2> QED
    BY <1>1, <1>2, <2>3 DEF LowerPrices
<1>5. ASSUME NEW q \in LowerPrices(obs) PROVE AtMost(x, q)
  <2>1. q \in Ratio /\ 2 * WeightOf(Some(q), obs) >= C[n]
    BY <1>1, <1>3, <1>5 DEF LowerPrices
  <2> SUFFICES ASSUME ~AtMost(x, q) PROVE FALSE
    OBVIOUS
  <2>2. ASSUME NEW j \in 1..n, s[j] \in Some(q) PROVE j <= i - 1
    <3> SUFFICES ASSUME i <= j PROVE FALSE
      BY <1>1
    <3>1. AtMost(x, s[j].price) /\ AtMost(s[j].price, q) /\ s[j].price \in Ratio
      BY <2>2 DEF IsLadder
    <3> HIDE DEF x
    <3> QED
      BY <1>2, <2>1, <3>1, AtMostTrans
  <2>3. WeightOf(Some(q), obs) <= C[i - 1] /\ WeightOf(Some(q), obs) \in Nat /\ C[i - 1] \in Nat
    <3> HIDE DEF Some, x
    <3> QED
      BY <1>1, <2>2, WeightBounds
  <2> HIDE DEF Some, x
  <2> QED
    BY <1>1, <2>1, <2>3
<1> DEFINE least == CHOOSE p \in LowerPrices(obs) : \A q \in LowerPrices(obs) : AtMost(p, q)
<1> HIDE DEF x, Some
<1>6. least \in LowerPrices(obs) /\ \A q \in LowerPrices(obs) : AtMost(least, q)
  BY <1>4, <1>5
<1>7. least \in Ratio /\ AtMost(least, x) /\ AtMost(x, least)
  <2> HIDE DEF least
  <2> QED
    BY <1>3, <1>4, <1>5, <1>6
<1> HIDE DEF least
<1>8. SamePrice(x, least)
  BY <1>2, <1>7, AtMostIs
<1> QED
  BY <1>7, <1>8 DEF least, x

\* The greatest price with half the weight at or above it is where the
\* running total from the end does.
LEMMA MostIs ==
    ASSUME NEW obs, NEW s, NEW n, NEW w, NEW C, IsLadder(obs, s, n, w, C),
           NEW i \in 1..n, w[i] > 0, 2 * (C[n] - C[i - 1]) >= C[n], 2 * (C[n] - C[i]) < C[n]
    PROVE  LET most == CHOOSE p \in UpperPrices(obs) : \A q \in UpperPrices(obs) : AtMost(q, p)
           IN  most \in Ratio /\ SamePrice(s[i].price, most)
<1> DEFINE x == s[i].price
           Some(p) == {o \in obs : AtMost(p, o.price)}
<1>1. n \in Nat /\ i - 1 \in 0..n /\ i \in 0..n /\ C[n] \in Nat /\ Weight(obs) = C[n]
  <2>1. n \in Nat /\ Weight(obs) = C[n] /\ AreTotals(C, w, n)
    BY DEF IsLadder
  <2>2. n \in 0..n
    BY <2>1
  <2> QED
    BY <2>1, <2>2 DEF AreTotals
<1>2. s[i] \in obs /\ s[i].weight > 0 /\ x \in Ratio
  BY DEF IsLadder
<1>3. UpperPrices(obs) \in SUBSET Ratio
  BY DEF UpperPrices, IsLadder
<1>4. x \in UpperPrices(obs)
  <2>1. ASSUME NEW j \in ((i - 1) + 1)..n PROVE s[j] \in Some(x)
    <3>1. j \in 1..n /\ i <= j
      BY <1>1
    <3> QED
      BY <3>1 DEF IsLadder
  <2>2. C[n] - C[i - 1] <= WeightOf(Some(x), obs) /\ WeightOf(Some(x), obs) \in Nat /\ C[i - 1] \in Nat
    <3> HIDE DEF Some, x
    <3> QED
      BY <1>1, <2>1, WeightBounds
  <2>3. 2 * WeightOf(Some(x), obs) >= C[n]
    <3> HIDE DEF Some, x
    <3> QED
      BY <1>1, <2>2
  <2> QED
    BY <1>1, <1>2, <2>3 DEF UpperPrices
<1>5. ASSUME NEW q \in UpperPrices(obs) PROVE AtMost(q, x)
  <2>1. q \in Ratio /\ 2 * WeightOf(Some(q), obs) >= C[n]
    BY <1>1, <1>3, <1>5 DEF UpperPrices
  <2> SUFFICES ASSUME ~AtMost(q, x) PROVE FALSE
    OBVIOUS
  <2>2. ASSUME NEW j \in 1..n, s[j] \in Some(q) PROVE j > i
    <3> SUFFICES ASSUME j <= i PROVE FALSE
      BY <1>1
    <3>1. AtMost(s[j].price, x) /\ AtMost(q, s[j].price) /\ s[j].price \in Ratio
      BY <2>2 DEF IsLadder
    <3> HIDE DEF x
    <3> QED
      BY <1>2, <2>1, <3>1, AtMostTrans
  <2>3. WeightOf(Some(q), obs) <= C[n] - C[i] /\ WeightOf(Some(q), obs) \in Nat /\ C[i] \in Nat
    <3> HIDE DEF Some, x
    <3> QED
      BY <1>1, <2>2, WeightBounds
  <2> HIDE DEF Some, x
  <2> QED
    BY <1>1, <2>1, <2>3
<1> DEFINE most == CHOOSE p \in UpperPrices(obs) : \A q \in UpperPrices(obs) : AtMost(q, p)
<1> HIDE DEF x, Some
<1>6. most \in UpperPrices(obs) /\ \A q \in UpperPrices(obs) : AtMost(q, most)
  BY <1>4, <1>5
<1>7. most \in Ratio /\ AtMost(most, x) /\ AtMost(x, most)
  <2> HIDE DEF most
  <2> QED
    BY <1>3, <1>4, <1>5, <1>6
<1> HIDE DEF most
<1>8. SamePrice(x, most)
  BY <1>2, <1>7, AtMostIs
<1> QED
  BY <1>7, <1>8 DEF most, x

\* MedianIndex is where the running total reaches half of the weight.
LEMMA MedianIndexIs ==
    ASSUME NEW obs, NEW s, NEW n, NEW w, NEW C, IsLadder(obs, s, n, w, C), C[n] > 0
    PROVE  LET i == MedianIndex(s)
           IN  i \in 1..n /\ w[i] > 0 /\ 2 * C[i] >= C[n] /\ 2 * C[i - 1] < C[n]
<1>1. /\ n \in Nat /\ n = Len(s) /\ AreTotals(C, w, n)
      /\ w = [i \in 1..n |-> s[i].weight] /\ \A i \in 1..n : w[i] \in Nat
  BY DEF IsLadder
<1>2. n \in 0..n /\ C[0] = 0 /\ \A i \in 0..n : C[i] \in Nat /\ C[i] = SumTo(i, w)
  BY <1>1 DEF AreTotals
<1>3. \A i \in 1..n : i \in 0..n /\ i - 1 \in 0..n /\ C[i] = C[i - 1] + w[i]
  BY <1>1 DEF AreTotals, Adds
<1> DEFINE IsHalf(i) == w[i] > 0 /\ C[i] >= C[n] - C[i]
           First(i) == IsHalf(i) /\ \A j \in 1..(i - 1) : ~IsHalf(j)
           T == {i \in 0..n : 2 * C[i] >= C[n]}
<1>4. MedianIndex(s) = CHOOSE i \in 1..n : First(i)
  <2>1. [j \in 1..Len(s) |-> s[j].weight] = w
    BY <1>1
  <2>2. \A i \in 1..n : s[i].weight = w[i]
    BY <1>1
  <2>3. \A i \in 1..n : /\ SumTo(i, [j \in 1..Len(s) |-> s[j].weight]) = C[i]
                        /\ SumTo(Len(s), [j \in 1..Len(s) |-> s[j].weight]) = C[n]
    BY <1>1, <1>2, <1>3, <2>1
  <2> DEFINE up(i) == SumTo(i, [j \in 1..Len(s) |-> s[j].weight])
             Half(i) == s[i].weight > 0 /\ up(i) >= up(Len(s)) - up(i)
  <2>4. \A i \in 1..n : Half(i) <=> IsHalf(i)
    BY <2>2, <2>3
  <2>5. \A i \in 1..n : \A j \in 1..(i - 1) : j \in 1..n
    BY <1>1
  <2>6. MedianIndex(s) = CHOOSE i \in 1..n : Half(i) /\ \A j \in 1..(i - 1) : ~Half(j)
    BY <1>1 DEF MedianIndex
  <2> HIDE DEF Half, IsHalf
  <2>7. \A i \in 1..n : (Half(i) /\ \A j \in 1..(i - 1) : ~Half(j)) <=> First(i)
    BY <2>4, <2>5
  <2> HIDE DEF First
  <2> QED
    BY <2>6, <2>7
<1>5. PICK k \in T : \A j \in T : ~(j < k)
  <2>1. n \in T
    <3>1. C[n] \in Nat
      BY <1>2
    <3>2. 2 * C[n] >= C[n]
      BY ONLY <3>1
    <3> QED
      BY <1>2, <3>2
  <2>2. T \in SUBSET Nat
    OBVIOUS
  <2> HIDE DEF T
  <2> QED
    BY <2>1, <2>2, LeastOf
<1>6. k \in 0..n /\ 2 * C[k] >= C[n] /\ k # 0
  BY <1>2, <1>5
<1>7. k \in 1..n /\ k - 1 \in 0..n /\ k - 1 < k
  BY <1>1, <1>6
<1>8. 2 * C[k - 1] < C[n]
  BY <1>2, <1>5, <1>7
<1>9. w[k] > 0
  <2>1. C[k] = C[k - 1] + w[k] /\ w[k] \in Nat /\ C[k - 1] \in Nat /\ C[n] \in Nat
    BY <1>1, <1>2, <1>3, <1>7
  <2>2. 2 * C[k] >= C[n]
    BY <1>6
  <2> QED
    BY ONLY <1>8, <2>1, <2>2
<1>10. First(k)
  <2>1. IsHalf(k)
    BY <1>2, <1>6, <1>9
  <2>2. ASSUME NEW j \in 1..(k - 1) PROVE ~IsHalf(j)
    <3>1. j \in 0..n /\ j < k
      BY <1>1, <1>7
    <3>2. ~(2 * C[j] >= C[n])
      BY <1>5, <3>1
    <3> QED
      BY <1>2, <3>1, <3>2
  <2> QED
    BY <2>1, <2>2
<1> DEFINE i == MedianIndex(s)
<1>11. i \in 1..n /\ First(i)
  <2> HIDE DEF First
  <2> QED
    BY <1>4, <1>7, <1>10
<1> HIDE DEF i
<1>12. i = k
  <2>1. i \in T
    BY <1>2, <1>3, <1>11
  <2>2. ~(i < k)
    BY <1>5, <2>1
  <2>3. ~(k < i)
    <3> SUFFICES ASSUME k < i PROVE FALSE
      OBVIOUS
    <3>1. k \in 1..(i - 1)
      BY <1>7, <1>11
    <3> HIDE DEF IsHalf
    <3> QED
      BY <1>10, <1>11, <3>1
  <2> QED
    BY <1>7, <1>11, <2>2, <2>3
<1> QED
  BY <1>6, <1>7, <1>8, <1>9, <1>12 DEF i

\* Where the total is an even half, NextWeighty is where the rest begins.
LEMMA NextWeightyIs ==
    ASSUME NEW obs, NEW s, NEW n, NEW w, NEW C, IsLadder(obs, s, n, w, C),
           NEW i \in 1..n, C[i] < C[n]
    PROVE  LET j == NextWeighty(s, i)
           IN  j \in 1..n /\ w[j] > 0 /\ C[j - 1] = C[i] /\ C[j] > C[i]
<1>1. /\ n \in Nat /\ n = Len(s) /\ AreTotals(C, w, n)
      /\ \A k \in 1..n : w[k] \in Nat /\ w[k] = s[k].weight
  BY DEF IsLadder
<1>2. /\ n \in 0..n /\ \A k \in 0..n : C[k] \in Nat
      /\ \A k, l \in 0..n : k <= l => C[k] <= C[l]
  BY <1>1 DEF AreTotals
<1>3. \A k \in 1..n : k \in 0..n /\ k - 1 \in 0..n /\ C[k] = C[k - 1] + w[k]
  BY <1>1 DEF AreTotals, Adds
<1> DEFINE Next1(j) == w[j] > 0 /\ \A k \in (i + 1)..(j - 1) : w[k] = 0
           T == {k \in 0..n : C[k] > C[i]}
<1>4. NextWeighty(s, i) = CHOOSE j \in (i + 1)..n : Next1(j)
  <2>1. \A j \in (i + 1)..n : j \in 1..n /\ \A k \in (i + 1)..(j - 1) : k \in 1..n
    BY <1>1
  <2> DEFINE Next2(j) == s[j].weight > 0 /\ \A k \in (i + 1)..(j - 1) : s[k].weight = 0
  <2>2. \A j \in (i + 1)..n : Next2(j) <=> Next1(j)
    BY <1>1, <2>1
  <2>3. NextWeighty(s, i) = CHOOSE j \in (i + 1)..n : Next2(j)
    BY <1>1 DEF NextWeighty
  <2> HIDE DEF Next1, Next2
  <2> QED
    BY <2>2, <2>3
<1>5. PICK k \in T : \A j \in T : ~(j < k)
  <2>1. n \in T
    BY <1>1, <1>2
  <2>2. T \in SUBSET Nat
    OBVIOUS
  <2> HIDE DEF T
  <2> QED
    BY <2>1, <2>2, LeastOf
<1>6. k \in 0..n /\ C[k] > C[i] /\ \A j \in 0..n : j < k => C[j] <= C[i]
  BY <1>2, <1>3, <1>5
<1> HIDE DEF T
<1>7. i \in 0..n /\ k > i
  <2>1. i \in 0..n
    BY <1>1
  <2> QED
    BY <1>2, <1>6, <2>1
<1>8. k \in (i + 1)..n /\ k \in 1..n /\ k - 1 \in 0..n /\ i <= k - 1 /\ k - 1 < k
  BY <1>1, <1>6, <1>7
<1>9. \A j \in i..(k - 1) : j \in 0..n /\ C[j] = C[i]
  <2> SUFFICES ASSUME NEW j \in i..(k - 1) PROVE j \in 0..n /\ C[j] = C[i]
    OBVIOUS
  <2>1. j \in 0..n /\ i <= j /\ j < k
    BY <1>1, <1>8
  <2>2. C[j] <= C[i] /\ C[i] <= C[j] /\ C[i] \in Nat /\ C[j] \in Nat
    BY <1>2, <1>6, <1>7, <2>1
  <2> QED
    BY <2>1, <2>2
<1>10. C[k - 1] = C[i] /\ w[k] > 0
  <2>1. k - 1 \in i..(k - 1)
    BY <1>8
  <2>2. C[k - 1] = C[i]
    BY <1>9, <2>1
  <2>3. C[k] = C[k - 1] + w[k] /\ w[k] \in Nat /\ C[k] \in Nat /\ C[i] \in Nat
    BY <1>1, <1>2, <1>3, <1>7, <1>8
  <2> QED
    BY <1>6, <2>2, <2>3
<1>11. Next1(k)
  <2>1. ASSUME NEW l \in (i + 1)..(k - 1) PROVE w[l] = 0
    <3>1. l \in 1..n /\ l \in i..(k - 1) /\ l - 1 \in i..(k - 1)
      BY <1>1, <1>8
    <3>2. C[l] = C[i] /\ C[l - 1] = C[i] /\ C[l] = C[l - 1] + w[l] /\ w[l] \in Nat /\ C[i] \in Nat
      BY <1>1, <1>2, <1>3, <1>7, <1>9, <3>1
    <3> QED
      BY <3>2
  <2> QED
    BY <1>10, <2>1
<1> DEFINE j == NextWeighty(s, i)
<1>12. j \in (i + 1)..n /\ Next1(j)
  <2> HIDE DEF Next1
  <2> QED
    BY <1>4, <1>8, <1>11
<1> HIDE DEF j
<1>13. j = k
  <2>1. ~(k < j)
    <3> SUFFICES ASSUME k < j PROVE FALSE
      OBVIOUS
    <3>1. k \in (i + 1)..(j - 1)
      BY <1>8, <1>12
    <3> QED
      BY <1>10, <1>12, <3>1
  <2>2. ~(j < k)
    <3> SUFFICES ASSUME j < k PROVE FALSE
      OBVIOUS
    <3>1. j \in (i + 1)..(k - 1)
      BY <1>8, <1>12
    <3> QED
      BY <1>11, <1>12, <3>1
  <2> QED
    BY <1>8, <1>12, <2>1, <2>2
<1> QED
  BY <1>6, <1>8, <1>10, <1>13 DEF j

\* The median is the middle price.
LEMMA MedianIsMiddle ==
    ASSUME NEW obs, IsFiniteSet(obs), Priced(obs), Weight(obs) > 0
    PROVE  /\ LiquidityWeightedMedian(obs) \in Ratio
           /\ SamePrice(LiquidityWeightedMedian(obs), MiddlePrice(obs))
<1>1. PICK s, n, w, C : IsLadder(obs, s, n, w, C)
  BY HasLadder
<1>2. /\ n \in Nat /\ n = Len(s) /\ s = ByPrice(obs) /\ AreTotals(C, w, n)
      /\ w = [j \in 1..n |-> s[j].weight] /\ Weight(obs) = C[n]
  BY <1>1 DEF IsLadder
<1>3. \A j \in 1..n : s[j].price \in Ratio
  BY <1>1 DEF IsLadder
<1>4. PICK i : i = MedianIndex(s)
  OBVIOUS
<1>5. i \in 1..n /\ w[i] > 0 /\ 2 * C[i] >= C[n] /\ 2 * C[i - 1] < C[n]
  BY <1>1, <1>2, <1>4, MedianIndexIs
<1>6. i \in 0..n /\ i - 1 \in 0..n /\ n \in 0..n
  BY <1>2, <1>5
<1>7. C[i] \in Nat /\ C[i - 1] \in Nat /\ C[n] \in Nat /\ C[i] = SumTo(i, w)
  BY <1>2, <1>6 DEF AreTotals
<1>8. PICK least : least = CHOOSE p \in LowerPrices(obs) : \A q \in LowerPrices(obs) : AtMost(p, q)
  OBVIOUS
<1>9. PICK most : most = CHOOSE p \in UpperPrices(obs) : \A q \in UpperPrices(obs) : AtMost(q, p)
  OBVIOUS
<1>10. MiddlePrice(obs) = Midpoint(least, most)
  BY <1>8, <1>9 DEF MiddlePrice, LowerPrices, UpperPrices
<1>11. least \in Ratio /\ SamePrice(s[i].price, least)
  BY <1>1, <1>5, <1>8, LeastIs
<1>12. LiquidityWeightedMedian(obs) =
          IF C[i] > C[n] - C[i] THEN s[i].price
          ELSE Midpoint(s[i].price, s[NextWeighty(s, i)].price)
  BY <1>2, <1>4, <1>7 DEF LiquidityWeightedMedian
<1>13. CASE C[i] > C[n] - C[i]
  <2>1. 2 * (C[n] - C[i - 1]) >= C[n] /\ 2 * (C[n] - C[i]) < C[n]
    BY <1>5, <1>7, <1>13
  <2>2. most \in Ratio /\ SamePrice(s[i].price, most)
    BY <1>1, <1>5, <1>9, <2>1, MostIs
  <2>3. s[i].price \in Ratio
    BY <1>3, <1>5
  <2>4. PICK p \in Ratio : p = s[i].price
    BY <2>3
  <2>5. SamePrice(Midpoint(p, p), Midpoint(least, most)) /\ SamePrice(p, Midpoint(p, p))
    BY <1>11, <2>2, <2>4, MidpointSame, MidpointOfOne
  <2>6. Midpoint(p, p) \in Ratio /\ Midpoint(least, most) \in Ratio
    BY <1>11, <2>2, MidpointTerms
  <2>7. SamePrice(p, Midpoint(least, most))
    BY <2>5, <2>6, SameTrans
  <2> QED
    BY <1>10, <1>12, <1>13, <2>4, <2>7
<1>14. CASE ~(C[i] > C[n] - C[i])
  <2>1. 2 * C[i] = C[n] /\ C[i] < C[n]
    BY <1>2, <1>5, <1>7, <1>14
  <2>2. PICK j : j = NextWeighty(s, i)
    OBVIOUS
  <2>3. j \in 1..n /\ w[j] > 0 /\ C[j - 1] = C[i] /\ C[j] > C[i]
    BY <1>1, <1>5, <2>1, <2>2, NextWeightyIs
  <2>4. C[j] \in Nat
    <3>1. j \in 0..n
      BY <1>2, <2>3
    <3> QED
      BY <1>2, <3>1 DEF AreTotals
  <2>5. 2 * (C[n] - C[j - 1]) >= C[n] /\ 2 * (C[n] - C[j]) < C[n]
    BY <1>7, <2>1, <2>3, <2>4
  <2>6. most \in Ratio /\ SamePrice(s[j].price, most)
    BY <1>1, <1>9, <2>3, <2>5, MostIs
  <2>7. s[i].price \in Ratio /\ s[j].price \in Ratio
    BY <1>3, <1>5, <2>3
  <2>8. SamePrice(Midpoint(s[i].price, s[j].price), Midpoint(least, most))
    BY <1>11, <2>6, <2>7, MidpointSame
  <2>9. Midpoint(s[i].price, s[j].price) \in Ratio
    BY <2>7, MidpointTerms
  <2> QED
    BY <1>10, <1>12, <1>14, <2>2, <2>8, <2>9
<1> QED
  BY <1>13, <1>14

\* The outermost prices.
LEMMA OutermostAre ==
    ASSUME NEW obs, IsFiniteSet(obs), obs # {}, Priced(obs)
    PROVE  /\ Cheapest(obs) \in Ratio /\ Cheapest(obs)[1] > 0 /\ Dearest(obs) \in Ratio
           /\ \A o \in obs : AtMost(Cheapest(obs), o.price) /\ AtMost(o.price, Dearest(obs))
<1>1. PICK s, n, w, C : IsLadder(obs, s, n, w, C)
  BY HasLadder
<1>2. /\ n \in Nat /\ \A i \in 1..n : s[i] \in obs
      /\ \A o \in obs : \E i \in 1..n : s[i] = o
      /\ \A i, j \in 1..n : i <= j => AtMost(s[i].price, s[j].price)
  BY <1>1 DEF IsLadder
<1>3. 1 \in 1..n /\ n \in 1..n
  <2>1. PICK o : o \in obs
    OBVIOUS
  <2>2. PICK i \in 1..n : s[i] = o
    BY <1>2, <2>1
  <2> QED
    BY <1>2, <2>2
<1> DEFINE P == {o.price : o \in obs}
<1>4. \A p \in P : p \in Ratio /\ p[1] > 0
  BY DEF Priced
<1>5. s[1].price \in P /\ s[n].price \in P
  BY <1>2, <1>3
<1>6. \A o \in obs : AtMost(s[1].price, o.price) /\ AtMost(o.price, s[n].price)
  <2> SUFFICES ASSUME NEW o \in obs
               PROVE  AtMost(s[1].price, o.price) /\ AtMost(o.price, s[n].price)
    OBVIOUS
  <2>1. PICK i \in 1..n : s[i] = o
    BY <1>2
  <2>2. 1 <= i /\ i <= n
    BY <1>2
  <2> QED
    BY <1>2, <1>3, <2>1, <2>2
<1> HIDE DEF P
<1>7. Cheapest(obs) \in P /\ \A o \in obs : AtMost(Cheapest(obs), o.price)
  <2>1. Cheapest(obs) = CHOOSE p \in P : \A o \in obs : AtMost(p, o.price)
    BY DEF Cheapest, P
  <2> QED
    BY <1>5, <1>6, <2>1
<1>8. Dearest(obs) \in P /\ \A o \in obs : AtMost(o.price, Dearest(obs))
  <2>1. Dearest(obs) = CHOOSE p \in P : \A o \in obs : AtMost(o.price, p)
    BY DEF Dearest, P
  <2> QED
    BY <1>5, <1>6, <2>1
<1> QED
  BY <1>4, <1>7, <1>8

\* Two observations are no further apart than the outermost.
LEMMA WithinOutermost ==
    ASSUME NEW obs, IsFiniteSet(obs), Priced(obs), NEW o \in obs, NEW x \in obs,
           AtMost(o.price, x.price), ~Below(MaxDivergence, Spread(Cheapest(obs), Dearest(obs)))
    PROVE  AtMost(Spread(o.price, x.price), MaxDivergence)
<1>1. /\ Cheapest(obs) \in Ratio /\ Cheapest(obs)[1] > 0 /\ Dearest(obs) \in Ratio
      /\ AtMost(Cheapest(obs), o.price) /\ AtMost(x.price, Dearest(obs))
  BY OutermostAre
<1>2. o.price \in Ratio /\ x.price \in Ratio /\ o.price[1] > 0
  BY DEF Priced
<1>3. PICK a, b : a = Spread(o.price, x.price) /\ b = Spread(Cheapest(obs), Dearest(obs))
  OBVIOUS
<1>4. a \in Ratio /\ b \in Ratio /\ AtMost(a, b)
  BY <1>1, <1>2, <1>3, SpreadGrows
<1>5. AtMost(b, MaxDivergence)
  BY <1>3 DEF AtMost
<1>6. MaxDivergence \in Ratio
  <2>1. PICK u, v : u = MaxDivergence[1] /\ v = MaxDivergence[2]
    OBVIOUS
  <2>2. u \in Int /\ v \in Nat \ {0} /\ MaxDivergence = <<u, v>>
    BY <2>1, AdaUsdAssumption
  <2>3. b[1] \in Nat /\ b[2] \in Nat \ {0}
    BY <1>4, AtMostIs
  <2>4. ~(u * b[2] < b[1] * v)
    BY <1>5, <2>1 DEF AtMost, Below
  <2>5. u >= 0
    <3> SUFFICES ASSUME u < 0 PROVE FALSE
      BY <2>2
    <3>1. PICK k \in Nat \ {0} : u = -k
      <4>1. -u \in Nat \ {0} /\ u = -(-u)
        BY <2>2
      <4> QED
        BY <4>1
    <3>2. PICK c, d : c = b[1] /\ d = b[2]
      OBVIOUS
    <3>3. c \in Nat /\ d \in Nat \ {0} /\ ~(u * d < c * v)
      BY <2>3, <2>4, <3>2
    <3>4. k * d \in Nat \ {0} /\ c * v \in Nat
      <4>1. \A e, f \in Nat \ {0} : e * f \in Nat \ {0}
        OBVIOUS
      <4> QED
        BY <2>2, <3>3, <4>1
    <3>5. u * d = -(k * d)
      BY ONLY <3>1, <3>3
    <3> QED
      BY ONLY <3>3, <3>4, <3>5
  <2> QED
    BY <2>2, <2>5 DEF Ratio
<1> QED
  BY <1>3, <1>4, <1>5, <1>6, AtMostTrans

-----------------------------------------------------------------------------
(* The ADA/USD price: the newest states                                    *)

\* States of pools, and at most one of a pool at a place.
ArePlaced(states) ==
    /\ \A p \in states : IsPoolState(p)
    /\ \A p, q \in states :
          /\ p.pool = q.pool /\ ~p.fromMempool /\ ~q.fromMempool
          /\ p.slot = q.slot /\ p.txIndex = q.txIndex /\ p.txHash = q.txHash
          => p = q

\* To be newer is a strict order, total among the states of a pool.
LEMMA NewerOrder ==
    ASSUME NEW states, ArePlaced(states), NEW p \in states, NEW q \in states, NEW r \in states
    PROVE  /\ ~IsNewer(p, p)
           /\ IsNewer(p, q) /\ IsNewer(q, r) => IsNewer(p, r)
           /\ /\ p.pool = q.pool /\ ~p.fromMempool /\ ~q.fromMempool
              /\ ~IsNewer(p, q) /\ ~IsNewer(q, p)
              => p = q
<1>1. /\ p.slot \in Nat /\ p.txIndex \in Nat /\ p.txHash \in Nat
      /\ q.slot \in Nat /\ q.txIndex \in Nat /\ q.txHash \in Nat
      /\ r.slot \in Nat /\ r.txIndex \in Nat /\ r.txHash \in Nat
  BY DEF ArePlaced, IsPoolState
<1>2. ~IsNewer(p, p)
  BY <1>1 DEF IsNewer
<1>3. IsNewer(p, q) /\ IsNewer(q, r) => IsNewer(p, r)
  BY <1>1 DEF IsNewer
<1>4. ~IsNewer(p, q) /\ ~IsNewer(q, p)
      => p.slot = q.slot /\ p.txIndex = q.txIndex /\ p.txHash = q.txHash
  BY <1>1 DEF IsNewer
<1> QED
  BY <1>2, <1>3, <1>4 DEF ArePlaced

\* Every confirmed state has one in kept of its pool that is not older.
AreSuperseded(states, kept) ==
    \A p \in states : ~p.fromMempool => \E q \in kept : q.pool = p.pool /\ ~IsNewer(p, q)

\* Keep adds a state to the newest ones.
LEMMA KeepIs ==
    ASSUME NEW states, NEW p, ArePlaced(states \cup {p}), NEW kept,
           kept = NewestStates(states), AreSuperseded(states, kept)
    PROVE  /\ Keep(kept, p) = NewestStates(states \cup {p})
           /\ AreSuperseded(states \cup {p}, Keep(kept, p))
<1> DEFINE all == states \cup {p}
<1> HIDE DEF all
<1>1. p \in all /\ states \subseteq all /\ (\A q \in all : q = p \/ q \in states) /\ ArePlaced(all)
  BY DEF all
<1>2. kept \subseteq states /\ \A q \in kept : ~q.fromMempool
  BY DEF NewestStates
<1>3. \A q, r \in kept : q.pool = r.pool => ~IsNewer(q, r)
  BY DEF NewestStates
<1>4. \A q, r, t \in all : /\ ~IsNewer(q, q)
                           /\ IsNewer(q, r) /\ IsNewer(r, t) => IsNewer(q, t)
                           /\ /\ q.pool = r.pool /\ ~q.fromMempool /\ ~r.fromMempool
                              /\ ~IsNewer(q, r) /\ ~IsNewer(r, q)
                              => q = r
  BY <1>1, NewerOrder
<1>5. \A x : x \in NewestStates(all) <=>
               /\ x \in all /\ ~x.fromMempool
               /\ \A q \in all : ~q.fromMempool /\ q.pool = x.pool => ~IsNewer(q, x)
  BY DEF NewestStates
<1>6. \A x : x \in kept <=>
               /\ x \in states /\ ~x.fromMempool
               /\ \A q \in states : ~q.fromMempool /\ q.pool = x.pool => ~IsNewer(q, x)
  BY DEF NewestStates
<1>7. CASE p.fromMempool
  <2>1. Keep(kept, p) = kept
    BY <1>7 DEF Keep
  <2>2. NewestStates(all) = kept
    <3>1. \A x : x \in NewestStates(all) <=> x \in kept
      BY <1>1, <1>5, <1>6, <1>7
    <3> QED
      BY <3>1
  <2>3. AreSuperseded(all, kept)
    BY <1>1, <1>7 DEF AreSuperseded
  <2> QED
    BY <2>1, <2>2, <2>3 DEF all
<1>8. CASE ~p.fromMempool /\ \E q \in kept : q.pool = p.pool /\ ~IsNewer(p, q)
  <2>1. Keep(kept, p) = kept
    BY <1>8 DEF Keep
  <2>2. PICK q \in kept : q.pool = p.pool /\ ~IsNewer(p, q)
    BY <1>8
  <2>3. q \in all /\ q \in states /\ ~q.fromMempool
    BY <1>1, <1>2
  <2>4. \A x \in kept : x.pool = q.pool => x = q
    BY <1>1, <1>2, <1>3, <1>4
  <2>5. ~IsNewer(q, p) => p = q
    BY <1>1, <1>4, <1>8, <2>2, <2>3
  <2>6. NewestStates(all) = kept
    <3>1. ASSUME NEW x \in kept PROVE x \in NewestStates(all)
      <4>1. x \in all /\ ~x.fromMempool
        BY <1>1, <1>2
      <4>2. ASSUME NEW r \in all, ~r.fromMempool, r.pool = x.pool PROVE ~IsNewer(r, x)
        <5>1. CASE r \in states
          BY <1>6, <4>2, <5>1
        <5>2. CASE r = p
          <6>1. x = q
            BY <2>2, <2>4, <4>2, <5>2
          <6> QED
            BY <2>2, <5>2, <6>1
        <5> QED
          BY <1>1, <5>1, <5>2
      <4> QED
        BY <1>5, <4>1, <4>2
    <3>2. ASSUME NEW x \in NewestStates(all) PROVE x \in kept
      <4>1. CASE x = p
        <5>1. ~IsNewer(q, p)
          BY <1>5, <2>2, <2>3, <4>1
        <5> QED
          BY <2>5, <4>1, <5>1
      <4>2. CASE x # p
        BY <1>1, <1>5, <1>6, <4>2
      <4> QED
        BY <4>1, <4>2
    <3> QED
      BY <3>1, <3>2
  <2>7. AreSuperseded(all, kept)
    BY <1>1, <2>2 DEF AreSuperseded
  <2> QED
    BY <2>1, <2>6, <2>7 DEF all
<1>9. CASE ~p.fromMempool /\ ~\E q \in kept : q.pool = p.pool /\ ~IsNewer(p, q)
  <2> DEFINE new == {q \in kept : q.pool # p.pool} \cup {p}
  <2>1. Keep(kept, p) = new
    BY <1>9 DEF Keep
  <2>2. \A q \in kept : q.pool = p.pool => IsNewer(p, q)
    BY <1>9
  <2>3. \A x : x \in new <=> (x = p \/ (x \in kept /\ x.pool # p.pool))
    OBVIOUS
  <2> HIDE DEF new
  <2>4. ASSUME NEW q \in states, ~q.fromMempool, q.pool = p.pool PROVE ~IsNewer(q, p)
    <3>1. PICK x \in kept : x.pool = q.pool /\ ~IsNewer(q, x)
      BY <2>4 DEF AreSuperseded
    <3>2. IsNewer(p, x)
      BY <2>2, <2>4, <3>1
    <3> QED
      BY <1>1, <1>2, <1>4, <3>1, <3>2
  <2>5. NewestStates(all) = new
    <3>1. p \in NewestStates(all)
      <4>1. ASSUME NEW q \in all, ~q.fromMempool, q.pool = p.pool PROVE ~IsNewer(q, p)
        BY <1>1, <1>4, <2>4, <4>1
      <4> QED
        BY <1>1, <1>5, <1>9, <4>1
    <3>2. ASSUME NEW x, x # p PROVE x \in NewestStates(all) <=> x \in new
      <4>1. ASSUME x \in NewestStates(all) PROVE x \in kept /\ x.pool # p.pool
        <5>1. x \in kept
          BY <1>1, <1>5, <1>6, <3>2, <4>1
        <5>2. p.pool = x.pool => ~IsNewer(p, x)
          BY <1>1, <1>5, <1>9, <4>1
        <5> QED
          BY <2>2, <5>1, <5>2
      <4>2. ASSUME x \in kept, x.pool # p.pool PROVE x \in NewestStates(all)
        BY <1>1, <1>5, <1>6, <4>2
      <4> QED
        BY <2>3, <3>2, <4>1, <4>2
    <3> QED
      BY <2>3, <3>1, <3>2
  <2>6. AreSuperseded(all, new)
    <3> SUFFICES ASSUME NEW q \in all, ~q.fromMempool
                 PROVE  \E x \in new : x.pool = q.pool /\ ~IsNewer(q, x)
      BY DEF AreSuperseded
    <3>1. CASE q.pool = p.pool
      <4>1. ~IsNewer(q, p)
        BY <1>1, <1>4, <2>4, <3>1
      <4> QED
        BY <2>3, <3>1, <4>1
    <3>2. CASE q.pool # p.pool
      <4>1. q \in states
        BY <1>1, <3>2
      <4>2. PICK x \in kept : x.pool = q.pool /\ ~IsNewer(q, x)
        BY <4>1 DEF AreSuperseded
      <4> QED
        BY <2>3, <3>2, <4>2
    <3> QED
      BY <3>1, <3>2
  <2> QED
    BY <2>1, <2>5, <2>6 DEF all
<1> QED
  BY <1>7, <1>8, <1>9

\* A run of LatestStates through the list.
GoesThrough(g, pools, used) ==
    /\ g[0] = {} /\ g[Len(pools)] = LatestStates(pools, used)
    /\ \A i \in 1..Len(pools) :
          g[i] = IF pools[i] \in used THEN Keep(g[i - 1], pools[i]) ELSE g[i - 1]

\* The recursion of LatestStates has such a run.
LEMMA LatestSteps ==
    ASSUME NEW pools, Len(pools) \in Nat, NEW used
    PROVE  \E g : GoesThrough(g, pools, used)
<1> DEFINE n == Len(pools)
           Step(k, i) == IF pools[i] \in used THEN Keep(k, pools[i]) ELSE k
           F(g, m) == [i \in 0..m |-> IF i = 0 THEN {} ELSE Step(g[i - 1], i)]
           Bad == {m \in Nat : ~\E g : g = F(g, m)}
<1> HIDE DEF Step
<1>1. Bad = {}
  <2> SUFFICES ASSUME Bad # {} PROVE FALSE
    OBVIOUS
  <2>1. PICK m \in Bad : \A k \in Bad : ~(k < m)
    <3>1. Bad \in SUBSET Nat
      OBVIOUS
    <3> HIDE DEF Bad
    <3> QED
      BY <3>1, LeastOf
  <2>2. m # 0
    <3> DEFINE g == [i \in 0..0 |-> {}]
    <3>1. g = F(g, 0)
      OBVIOUS
    <3> QED
      BY <2>1, <3>1
  <2>3. m \in Nat /\ m - 1 \in Nat /\ m - 1 < m
    BY <2>1, <2>2
  <2>4. PICK h : h = F(h, m - 1)
    BY <2>1, <2>3
  <2> DEFINE g == [i \in 0..m |-> IF i = m THEN Step(h[m - 1], m) ELSE h[i]]
  <2>5. ASSUME NEW i \in 0..m PROVE g[i] = F(g, m)[i]
    <3>1. F(g, m)[i] = IF i = 0 THEN {} ELSE Step(g[i - 1], i)
      OBVIOUS
    <3>2. \A j \in 0..(m - 1) : g[j] = h[j] /\ h[j] = IF j = 0 THEN {} ELSE Step(h[j - 1], j)
      <4>1. \A j \in 0..(m - 1) : j \in 0..m /\ j # m
        BY <2>3
      <4>2. \A j \in 0..(m - 1) : h[j] = IF j = 0 THEN {} ELSE Step(h[j - 1], j)
        BY <2>4
      <4> QED
        BY <4>1, <4>2
    <3>3. g[m] = Step(h[m - 1], m) /\ m - 1 \in 0..(m - 1)
      BY <2>3
    <3> HIDE DEF g, F
    <3>4. CASE i = m
      BY <2>2, <3>1, <3>2, <3>3, <3>4
    <3>5. CASE i # m
      <4>1. i \in 0..(m - 1) /\ (i # 0 => i - 1 \in 0..(m - 1))
        BY <2>3, <3>5
      <4> QED
        BY <3>1, <3>2, <4>1
    <3> QED
      BY <3>4, <3>5
  <2>6. g = F(g, m)
    <3>1. g = [i \in 0..m |-> g[i]] /\ F(g, m) = [i \in 0..m |-> F(g, m)[i]]
      OBVIOUS
    <3> HIDE DEF g, F
    <3> QED
      BY <2>5, <3>1
  <2> HIDE DEF g
  <2> QED
    BY <2>1, <2>6
<1>2. \E h : h = F(h, n)
  <2>1. n \notin Bad
    BY <1>1
  <2> HIDE DEF F
  <2> QED
    BY <2>1
<1> DEFINE g == CHOOSE h : h = F(h, n)
<1>3. g = F(g, n)
  <2> HIDE DEF F
  <2> QED
    BY <1>2
<1>4. LatestStates(pools, used) = g[n]
  BY DEF LatestStates, Step
<1> HIDE DEF g
<1>5. \A i \in 0..n : g[i] = IF i = 0 THEN {} ELSE Step(g[i - 1], i)
  BY <1>3
<1>6. 0 \in 0..n /\ \A i \in 1..n : i \in 0..n /\ i # 0
  OBVIOUS
<1>7. g[0] = {} /\ \A i \in 1..n : g[i] = Step(g[i - 1], i)
  <2> HIDE DEF F, n
  <2> QED
    BY <1>5, <1>6
<1> HIDE DEF F
<1>8. GoesThrough(g, pools, used)
  BY <1>4, <1>7 DEF Step, GoesThrough
<1> QED
  BY <1>8

\* What LatestStates keeps are the newest states, whatever their order.
LEMMA LatestIsNewest ==
    ASSUME NEW pools, pools \in Seq(Range(pools)), ArePlaced(Range(pools)), NEW used
    PROVE  LatestStates(pools, used) = NewestStates(Range(pools) \cap used)
<1>1. Len(pools) \in Nat /\ DOMAIN pools = 1..Len(pools)
  OBVIOUS
<1>2. PICK n \in Nat : n = Len(pools)
  BY <1>1
<1>3. PICK g : GoesThrough(g, pools, used)
  BY <1>1, LatestSteps
<1>0. /\ g[0] = {} /\ g[n] = LatestStates(pools, used)
      /\ \A i \in 1..n :
            g[i] = IF pools[i] \in used THEN Keep(g[i - 1], pools[i]) ELSE g[i - 1]
  BY <1>2, <1>3 DEF GoesThrough
<1> DEFINE Seen(i) == {pools[j] : j \in 1..i} \cap used
           Good(i) == g[i] = NewestStates(Seen(i)) /\ AreSuperseded(Seen(i), g[i])
           Bad == {i \in 0..n : ~Good(i)}
<1>4. Bad = {}
  <2> SUFFICES ASSUME Bad # {} PROVE FALSE
    OBVIOUS
  <2>1. PICK i \in Bad : \A k \in Bad : ~(k < i)
    <3>1. Bad \in SUBSET Nat
      OBVIOUS
    <3> HIDE DEF Bad
    <3> QED
      BY <3>1, LeastOf
  <2>2. i \in 0..n /\ ~Good(i) /\ \A j \in 0..n : j < i => Good(j)
    <3> HIDE DEF Good
    <3> QED
      BY <2>1
  <2> HIDE DEF Bad
  <2>3. i # 0
    <3> SUFFICES ASSUME i = 0 PROVE Good(0)
      BY <2>2
    <3>1. Seen(0) = {}
      OBVIOUS
    <3>2. NewestStates({}) = {} /\ AreSuperseded({}, g[0])
      BY DEF NewestStates, AreSuperseded
    <3> HIDE DEF Seen
    <3> QED
      BY <1>0, <3>1, <3>2
  <2>4. i \in 1..n /\ i - 1 \in 0..n /\ i - 1 < i
    BY <2>2, <2>3
  <2>5. Good(i - 1)
    <3> HIDE DEF Good
    <3> QED
      BY <2>2, <2>4
  <2>6. g[i] = IF pools[i] \in used THEN Keep(g[i - 1], pools[i]) ELSE g[i - 1]
    BY <1>0, <2>4
  <2>7. {pools[j] : j \in 1..i} = {pools[j] : j \in 1..(i - 1)} \cup {pools[i]}
    <3>1. \A j \in 1..i : j \in 1..(i - 1) \/ j = i
      BY <2>4
    <3>2. \A j \in 1..(i - 1) : j \in 1..i
      BY <2>4
    <3>3. i \in 1..i
      BY <2>4
    <3> QED
      BY <3>1, <3>2, <3>3
  <2>8. CASE pools[i] \notin used
    <3>1. Seen(i) = Seen(i - 1)
      BY <2>7, <2>8
    <3>2. g[i] = g[i - 1]
      BY <2>6, <2>8
    <3> HIDE DEF Seen
    <3> QED
      BY <2>2, <2>5, <3>1, <3>2
  <2>9. CASE pools[i] \in used
    <3>1. Seen(i) = Seen(i - 1) \cup {pools[i]}
      BY <2>7, <2>9
    <3>2. g[i] = Keep(g[i - 1], pools[i])
      BY <2>6, <2>9
    <3>3. Seen(i) \subseteq Range(pools)
      <4>1. \A j \in 1..i : j \in DOMAIN pools
        BY <1>1, <1>2, <2>4
      <4> QED
        BY <4>1 DEF Range
    <3> HIDE DEF Seen
    <3>4. ArePlaced(Seen(i))
      BY <3>3 DEF ArePlaced
    <3>5. PICK kept : kept = g[i - 1]
      OBVIOUS
    <3>6. kept = NewestStates(Seen(i - 1)) /\ AreSuperseded(Seen(i - 1), kept)
      BY <2>5, <3>5
    <3>7. Keep(kept, pools[i]) = NewestStates(Seen(i)) /\ AreSuperseded(Seen(i), Keep(kept, pools[i]))
      <4>1. ArePlaced(Seen(i - 1) \cup {pools[i]})
        BY <3>1, <3>4
      <4> HIDE DEF Good
      <4> QED
        BY <3>1, <3>6, <4>1, KeepIs
    <3> QED
      BY <2>2, <3>2, <3>5, <3>7
  <2> QED
    BY <2>8, <2>9
<1>5. Good(n)
  <2>1. n \in 0..n
    OBVIOUS
  <2> HIDE DEF Good
  <2> QED
    BY <1>4, <2>1
<1>6. Seen(n) = Range(pools) \cap used
  BY <1>1, <1>2 DEF Range
<1> HIDE DEF Seen
<1> QED
  BY <1>0, <1>5, <1>6

-----------------------------------------------------------------------------
(* The ADA/USD price: what a request returns                               *)

\* A list of pool states that a request may carry.
IsPoolList(pools) == pools \in Seq(Range(pools)) /\ ArePlaced(Range(pools))

\* AdaUsdAssumption says so of every list in PoolLists.
LEMMA PoolListsAre ==
    ASSUME NEW pools \in PoolLists
    PROVE  IsPoolList(pools)
<1>1. /\ pools \in Seq(Range(pools)) /\ OnePerPlace(pools)
      /\ \A p \in Range(pools) : IsPoolState(p)
  BY AdaUsdAssumption
<1> QED
  BY <1>1 DEF IsPoolList, ArePlaced, OnePerPlace

\* The observations of some states.
ObservationsOf(states) ==
    {ObservationFromPool(p) : p \in {q \in NewestStates(states) : Qualifies(q)}}

\* ObservationsFromPools makes them, finitely many, each with a price.
LEMMA ObservationsAre ==
    ASSUME NEW pools, IsPoolList(pools), NEW used, used \subseteq Range(pools),
           NEW obs, obs = ObservationsOf(used)
    PROVE  /\ ObservationsFromPools(pools, used) = obs
           /\ IsFiniteSet(obs) /\ Priced(obs)
<1>1. Range(pools) \cap used = used
  OBVIOUS
<1>2. LatestStates(pools, used) = NewestStates(used)
  BY <1>1, LatestIsNewest DEF IsPoolList
<1>3. ObservationsFromPools(pools, used) = obs
  BY <1>2 DEF ObservationsFromPools, ObservationsOf
<1>4. PICK Q : Q = {q \in NewestStates(used) : Qualifies(q)}
  OBVIOUS
<1>5. Q \subseteq Range(pools) /\ \A q \in Q : Qualifies(q) /\ IsPoolState(q)
  BY <1>4 DEF NewestStates, IsPoolList, ArePlaced
<1>6. obs = {ObservationFromPool(p) : p \in Q}
  BY <1>4 DEF ObservationsOf
<1>7. IsFiniteSet(Range(pools))
  <2>1. pools \in Surjection(1..Len(pools), Range(pools))
    BY DEF IsPoolList, Surjection, Range
  <2>2. IsFiniteSet(1..Len(pools))
    <3>1. Len(pools) \in Int
      BY DEF IsPoolList
    <3> QED
      BY <3>1, FS_Interval
  <2> QED
    BY <2>1, <2>2, FS_Surjection
<1>8. IsFiniteSet(obs)
  <2>1. IsFiniteSet(Q)
    BY <1>5, <1>7, FS_Subset
  <2> DEFINE f == [q \in Q |-> ObservationFromPool(q)]
  <2>2. f \in Surjection(Q, obs)
    BY <1>6 DEF Surjection
  <2> HIDE DEF f
  <2> QED
    BY <2>1, <2>2, FS_Surjection
<1>9. Priced(obs)
  <2> SUFFICES ASSUME NEW o \in obs
               PROVE  o.price \in Ratio /\ o.price[1] > 0 /\ o.weight \in Nat
    BY DEF Priced
  <2>1. PICK q \in Q : o = ObservationFromPool(q)
    BY <1>6
  <2> QED
    BY <1>5, <2>1, ObservationIs
<1> QED
  BY <1>3, <1>8, <1>9

\* The total weight is a number.
LEMMA WeightType ==
    ASSUME NEW obs, IsFiniteSet(obs), Priced(obs)
    PROVE  Weight(obs) \in Nat
<1>1. PICK s, n, w, C : IsLadder(obs, s, n, w, C)
  BY HasLadder
<1>2. n \in Nat /\ AreTotals(C, w, n) /\ Weight(obs) = C[n]
  BY <1>1 DEF IsLadder
<1>3. n \in 0..n
  BY <1>2
<1> QED
  BY <1>2, <1>3 DEF AreTotals

\* The result for a list is sound for the states that are used.
LEMMA AggregateIsSound ==
    ASSUME NEW pools, IsPoolList(pools), NEW used, used \subseteq Range(pools),
           NEW result, result = Aggregate(pools, used)
    PROVE  IsSound(result, used) /\ (result.validation = "qualified" => result.price \in Ratio)
<1>1. PICK obs : obs = ObservationsOf(used)
  OBVIOUS
<1>2. ObservationsFromPools(pools, used) = obs /\ IsFiniteSet(obs) /\ Priced(obs)
  BY <1>1, ObservationsAre
<1>3. SUFFICES ASSUME result.validation = "qualified"
               PROVE  /\ result.price \in Ratio
                      /\ SamePrice(result.price, MiddlePrice(obs))
                      /\ Cardinality(obs) >= MinObservations
                      /\ Cardinality({o.coin : o \in obs}) >= MinStablecoins
                      /\ Weight(obs) <= MaxUsdWord
                      /\ \A o \in obs : /\ AtMost(<<o.weight, Weight(obs)>>, MaxPoolShare)
                                        /\ \A x \in obs :
                                              AtMost(o.price, x.price)
                                              => AtMost(Spread(o.price, x.price), MaxDivergence)
  BY <1>1 DEF IsSound, ObservationsOf
<1>4. /\ ~(Cardinality(obs) < MinObservations)
      /\ ~(Cardinality({o.coin : o \in obs}) < MinStablecoins)
      /\ ~(Weight(obs) > MaxUsdWord) /\ Weight(obs) # 0
      /\ ~\E o \in obs : Below(MaxPoolShare, <<o.weight, Weight(obs)>>)
      /\ ~Below(MaxDivergence, Spread(Cheapest(obs), Dearest(obs)))
      /\ result.price = LiquidityWeightedMedian(obs)
  BY <1>2, <1>3 DEF Aggregate, Failed
<1>5. Weight(obs) \in Nat /\ Cardinality(obs) \in Nat
  BY <1>2, WeightType, FS_CardinalityType
<1>6. Cardinality({o.coin : o \in obs}) \in Nat
  <2> DEFINE f == [o \in obs |-> o.coin]
             coins == {o.coin : o \in obs}
  <2>1. f \in Surjection(obs, coins)
    BY DEF Surjection
  <2> HIDE DEF f, coins
  <2>2. IsFiniteSet(coins)
    BY <1>2, <2>1, FS_Surjection
  <2>3. Cardinality(coins) \in Nat
    BY <2>2, FS_CardinalityType
  <2> QED
    BY <2>3 DEF coins
<1>7. MinObservations \in Int /\ MinStablecoins \in Int /\ MaxUsdWord \in Nat
  BY AdaUsdAssumption
<1>8. Weight(obs) > 0
  BY <1>4, <1>5
<1>9. result.price \in Ratio /\ SamePrice(result.price, MiddlePrice(obs))
  BY <1>2, <1>4, <1>8, MedianIsMiddle
<1>10. Cardinality(obs) >= MinObservations /\ Weight(obs) <= MaxUsdWord
  BY <1>4, <1>5, <1>7
<1>11. Cardinality({o.coin : o \in obs}) >= MinStablecoins
  <2>1. PICK m : m = Cardinality({o.coin : o \in obs})
    OBVIOUS
  <2>2. m \in Nat /\ ~(m < MinStablecoins)
    BY <1>4, <1>6, <2>1
  <2>3. m >= MinStablecoins
    BY <1>7, <2>2
  <2> QED
    BY <2>1, <2>3
<1>12. \A o \in obs : AtMost(<<o.weight, Weight(obs)>>, MaxPoolShare)
  BY <1>4 DEF AtMost
<1>13. \A o, x \in obs : AtMost(o.price, x.price)
                         => AtMost(Spread(o.price, x.price), MaxDivergence)
  BY <1>2, <1>4, WithinOutermost
<1> QED
  BY <1>9, <1>10, <1>11, <1>12, <1>13

\* again is the list in the order f.
IsReordering(again, pools, n, f) ==
    /\ n = Len(pools) /\ f \in [1..n -> 1..n]
    /\ \A i, j \in 1..n : f[i] = f[j] => i = j
    /\ again = [i \in 1..n |-> pools[f[i]]]

\* Both lists have the same result.
LEMMA AnyOrder ==
    ASSUME NEW pools, IsPoolList(pools), NEW again, NEW n, NEW f,
           IsReordering(again, pools, n, f)
    PROVE  Aggregate(again, Range(again)) = Aggregate(pools, Range(pools))
<1> USE DEF IsReordering
<1>1. n \in Nat /\ DOMAIN pools = 1..n
  BY DEF IsPoolList
<1>2. f \in Surjection(1..n, 1..n)
  <2>1. f \in Injection(1..n, 1..n)
    BY DEF Injection, IsInjective
  <2>2. IsFiniteSet(1..n)
    BY <1>1, FS_Interval
  <2> QED
    BY <2>1, <2>2, FS_Injection
<1>3. \A j \in 1..n : \E i \in 1..n : f[i] = j
  BY <1>2 DEF Surjection
<1>4. Range(again) = Range(pools)
  <2>1. DOMAIN again = 1..n /\ \A i \in 1..n : again[i] = pools[f[i]] /\ f[i] \in 1..n
    OBVIOUS
  <2>2. \A x \in Range(again) : x \in Range(pools)
    BY <1>1, <2>1 DEF Range
  <2>3. \A x \in Range(pools) : x \in Range(again)
    <3> SUFFICES ASSUME NEW x \in Range(pools) PROVE x \in Range(again)
      OBVIOUS
    <3>1. PICK j \in 1..n : x = pools[j]
      BY <1>1 DEF Range
    <3>2. PICK i \in 1..n : f[i] = j
      BY <1>3
    <3> QED
      BY <2>1, <3>1, <3>2 DEF Range
  <2> QED
    BY <2>2, <2>3
<1>5. IsPoolList(again)
  <2>1. again \in [1..n -> Range(again)]
    BY DEF Range
  <2>2. again \in Seq(Range(again))
    BY <1>1, <2>1, SeqDef
  <2> QED
    BY <1>4, <2>2 DEF IsPoolList
<1>6. ObservationsFromPools(again, Range(again)) = ObservationsFromPools(pools, Range(pools))
  BY <1>4, <1>5, ObservationsAre
<1> QED
  BY <1>6 DEF Aggregate

\* The pool states that have the volume.
HaveVolume(pools, volumes) ==
    {p \in Range(pools) :
       /\ p.coin \in Stablecoins
       /\ \E v \in volumes :
          /\ v.pool = p.pool /\ v.swapCount >= MinSwapCount
          /\ v.windowEnd >= p.slot
          /\ NormalizeToMicros(v.stable, Decimals[p.coin]) >= MinStableVolume}

\* The result with activity is sound for those.
LEMMA ActiveIsSound ==
    ASSUME NEW pools, IsPoolList(pools), NEW volumes \in VolumeSets
    PROVE  IsSound(AggregateWithActivity(pools, volumes), HaveVolume(pools, volumes))
<1> DEFINE VolumesOf(p) == {v \in volumes : v.pool = p.pool}
           IsInvalid(p) ==
             \E v \in VolumesOf(p) : StableVolumeMicros(p, v) = Overflows
           IsActive(p) ==
             \E v \in VolumesOf(p) : /\ StableVolumeMicros(p, v) >= MinStableVolume
                                     /\ v.swapCount >= MinSwapCount
           active == {p \in Range(pools) : IsActive(p)}
           result == AggregateWithActivity(pools, volumes)
<1>1. result.validation = "qualified"
      => /\ MinStableVolume # 0
         /\ ~\E i \in DOMAIN pools : IsInvalid(pools[i])
         /\ result = Aggregate(pools, active)
  BY DEF AggregateWithActivity, Failed
<1>2. SUFFICES ASSUME result.validation = "qualified"
               PROVE  IsSound(result, HaveVolume(pools, volumes))
  BY DEF IsSound
<1>3. MinStableVolume # 0 /\ result = Aggregate(pools, active)
  BY <1>1, <1>2
<1>4. \A p \in Range(pools) : ~IsInvalid(p)
  BY <1>1, <1>2 DEF Range
<1>5. active = HaveVolume(pools, volumes)
  <2> SUFFICES ASSUME NEW p \in Range(pools)
               PROVE  IsActive(p) <=> p \in HaveVolume(pools, volumes)
    BY DEF HaveVolume
  <2>1. MinStableVolume \in Nat /\ p.slot \in Nat
    BY AdaUsdAssumption DEF IsPoolList, ArePlaced, IsPoolState
  <2>2. ASSUME NEW v \in VolumesOf(p)
        PROVE  StableVolumeMicros(p, v) >= MinStableVolume
               <=> /\ p.coin \in Stablecoins /\ v.windowEnd >= p.slot
                   /\ NormalizeToMicros(v.stable, Decimals[p.coin]) >= MinStableVolume
    <3>1. v \in volumes /\ v.windowEnd \in Nat
      BY AdaUsdAssumption DEF IsVolume
    <3>2. StableVolumeMicros(p, v) # Overflows
      BY <1>4
    <3>3. v.windowSlots # 0 /\ ~(v.windowEnd < p.slot) /\ p.coin \in Stablecoins
      BY <3>2 DEF StableVolumeMicros
    <3>4. StableVolumeMicros(p, v) = NormalizeToMicros(v.stable, Decimals[p.coin])
      BY <3>3 DEF StableVolumeMicros
    <3>5. v.windowEnd >= p.slot
      BY <2>1, <3>1, <3>3
    <3> QED
      BY <3>3, <3>4, <3>5
  <2> QED
    BY <2>2 DEF HaveVolume
<1>6. active \subseteq Range(pools)
  OBVIOUS
<1> HIDE DEF active, result
<1>7. IsSound(result, active)
  BY <1>3, <1>6, AggregateIsSound
<1> QED
  BY <1>5, <1>7

\* A cross-checked price is between its sources, which are close.
IsCrossSound(plain, crossed, d) ==
    crossed.validation = "qualified" =>
      LET p == plain.price
          m == crossed.price
      IN  /\ plain.validation = "qualified"
          /\ AtMost(p, m) <=> AtMost(m, d.price)
          /\ Below(p, d.price) => AtMost(Spread(p, d.price), CrossLimit)
          /\ Below(d.price, p) => AtMost(Spread(d.price, p), CrossLimit)
          /\ ValidateInterval(d, AskedAt) = "valid"

\* CrossValidate returns such a price.
LEMMA CrossedIsSound ==
    ASSUME NEW plain, plain.validation = "qualified" => plain.price \in Ratio,
           NEW d \in DjedPrices
    PROVE  IsCrossSound(plain, CrossValidate(plain, d, AskedAt), d)
<1> DEFINE low == IF Below(d.price, plain.price) THEN d.price ELSE plain.price
           high == IF Below(d.price, plain.price) THEN plain.price ELSE d.price
           crossed == CrossValidate(plain, d, AskedAt)
<1> SUFFICES ASSUME crossed.validation = "qualified"
             PROVE  IsCrossSound(plain, crossed, d)
  BY DEF IsCrossSound
<1>1. /\ QualifiedDEXPrice(plain) /\ ValidDjedPrice(d, AskedAt)
      /\ ~Below(CrossLimit, Spread(low, high))
      /\ crossed.price = Midpoint(plain.price, d.price)
  BY DEF CrossValidate, Failed
<1>2. plain.validation = "qualified" /\ plain.price \in Ratio
  BY <1>1 DEF QualifiedDEXPrice
<1>3. d.price \in Ratio /\ ValidateInterval(d, AskedAt) = "valid"
  <2>1. d.price \in Int \X Int /\ d.price[1] > 0 /\ d.price[2] > 0
    BY <1>1, AdaUsdAssumption DEF ValidDjedPrice
  <2>2. d.price = <<d.price[1], d.price[2]>> /\ d.price[1] \in Nat /\ d.price[2] \in Nat \ {0}
    BY <2>1
  <2> QED
    BY <1>1, <2>2 DEF Ratio, ValidDjedPrice
<1>4. AtMost(Spread(low, high), CrossLimit)
  BY <1>1 DEF AtMost
<1> HIDE DEF crossed
<1>5. PICK p \in Ratio, q \in Ratio : p = plain.price /\ q = d.price
  BY <1>2, <1>3
<1>6. AtMost(p, crossed.price) <=> AtMost(crossed.price, q)
  BY <1>1, <1>5, MidpointBetween
<1>7. Below(p, q) => ~Below(q, p)
  BY AtMostIs
<1>8. Below(p, q) => AtMost(Spread(p, q), CrossLimit)
  BY <1>4, <1>5, <1>7
<1>9. Below(q, p) => AtMost(Spread(q, p), CrossLimit)
  BY <1>4, <1>5
<1> QED
  BY <1>2, <1>3, <1>5, <1>6, <1>8, <1>9 DEF IsCrossSound

\* What is asked, and what is returned.
Answers(pools, volumes) ==
    [pools |-> pools, volumes |-> volumes,
     plain |-> Aggregate(pools, Range(pools)),
     active |-> AggregateWithActivity(pools, volumes),
     crossed |-> [d \in DjedPrices |->
                    CrossValidate(Aggregate(pools, Range(pools)), d, AskedAt)]]
\* The inductive invariant: no request yet, or its answer.
AskedOK ==
    asked = NotAsked \/ \E pools \in PoolLists, volumes \in VolumeSets : asked = Answers(pools, volumes)

\* The answer to a request is as AggregateIsMedian says.
LEMMA AnswersAreMedian ==
    ASSUME AskedOK PROVE AggregateIsMedian
<1> SUFFICES ASSUME asked # NotAsked PROVE AggregateIsMedian
  BY DEF AggregateIsMedian
<1>1. PICK pools \in PoolLists, volumes \in VolumeSets : asked = Answers(pools, volumes)
  BY DEF AskedOK
<1>2. IsPoolList(pools)
  BY PoolListsAre
<1>3. PICK plain : plain = Aggregate(pools, Range(pools))
  OBVIOUS
<1>4. /\ asked.pools = pools /\ asked.volumes = volumes /\ asked.plain = plain
      /\ asked.active = AggregateWithActivity(pools, volumes)
      /\ asked.crossed = [d \in DjedPrices |-> CrossValidate(plain, d, AskedAt)]
  BY <1>1, <1>3 DEF Answers
<1>5. IsSound(plain, Range(pools)) /\ (plain.validation = "qualified" => plain.price \in Ratio)
  BY <1>2, <1>3, AggregateIsSound
<1>6. IsSound(asked.active, {p \in Range(asked.pools) : IsActiveEnough(p)})
  <2>1. {p \in Range(asked.pools) : IsActiveEnough(p)} = HaveVolume(pools, volumes)
    BY <1>4 DEF IsActiveEnough, HaveVolume
  <2> QED
    BY <1>2, <1>4, <2>1, ActiveIsSound
<1>7. ASSUME NEW again, NEW n, NEW f, IsReordering(again, asked.pools, n, f)
      PROVE  Aggregate(again, Range(again)) = asked.plain
  BY <1>2, <1>3, <1>4, <1>7, AnyOrder
<1>8. ASSUME NEW d \in DjedPrices
      PROVE  IsCrossSound(asked.plain, asked.crossed[d], d)
  BY <1>4, <1>5, CrossedIsSound
<1>9. \A d \in DjedPrices :
            asked.crossed[d].validation = "qualified" =>
              LET p == asked.plain.price
                  m == asked.crossed[d].price
              IN  /\ asked.plain.validation = "qualified"
                  /\ AtMost(p, m) <=> AtMost(m, d.price)
                  /\ Below(p, d.price) => AtMost(Spread(p, d.price), CrossLimit)
                  /\ Below(d.price, p) => AtMost(Spread(d.price, p), CrossLimit)
                  /\ ValidateInterval(d, AskedAt) = "valid"
  BY <1>8 DEF IsCrossSound
<1>10. LET n == Len(asked.pools)
           orders == {f \in [1..n -> 1..n] : \A i, j \in 1..n : f[i] = f[j] => i = j}
       IN  \A f \in orders :
              LET reordered == [i \in 1..n |-> asked.pools[f[i]]]
                  again == Aggregate(reordered, Range(reordered))
              IN  /\ again.validation = asked.plain.validation
                  /\ SamePrice(again.price, asked.plain.price)
  <2> DEFINE n == Len(asked.pools)
             orders == {f \in [1..n -> 1..n] : \A i, j \in 1..n : f[i] = f[j] => i = j}
  <2> SUFFICES ASSUME NEW f \in orders
               PROVE  LET reordered == [i \in 1..n |-> asked.pools[f[i]]]
                          again == Aggregate(reordered, Range(reordered))
                      IN  /\ again.validation = asked.plain.validation
                          /\ SamePrice(again.price, asked.plain.price)
    OBVIOUS
  <2>1. f \in [1..n -> 1..n] /\ \A i, j \in 1..n : f[i] = f[j] => i = j
    OBVIOUS
  <2> DEFINE reordered == [i \in 1..n |-> asked.pools[f[i]]]
  <2>2. Aggregate(reordered, Range(reordered)) = asked.plain
    <3>1. IsReordering(reordered, asked.pools, n, f)
      BY <2>1 DEF IsReordering
    <3> HIDE DEF reordered, n
    <3> QED
      BY <1>7, <3>1
  <2>3. SamePrice(asked.plain.price, asked.plain.price)
    BY DEF SamePrice
  <2> HIDE DEF reordered, n
  <2> QED
    BY <2>2, <2>3 DEF reordered
<1> QED
  BY <1>4, <1>5, <1>6, <1>9, <1>10 DEF AggregateIsMedian

\* What a request for the ADA/USD price returns (AggregateADAUSDAt, its
\* activity variant and the cross-check with Djed) is the liquidity-weighted
\* median of the newest confirmed pool states, sound and independent of their
\* order, whatever the lists, volumes and limits.
THEOREM AggregateIsMedianHolds == Spec => []AggregateIsMedian
<1>1. Init => AskedOK
  BY DEF Init, AdaUsdInit, AskedOK
<1>2. AskedOK /\ [Next]_vars => AskedOK'
  <2> SUFFICES ASSUME AskedOK, [Next]_vars PROVE AskedOK'
    OBVIOUS
  <2>1. AdaUsdNext \/ UNCHANGED asked
    BY DEF Next, vars
  <2>2. CASE AdaUsdNext
    <3>1. PICK pools \in PoolLists, volumes \in VolumeSets : AskAdaUsd(pools, volumes)
      BY <2>2 DEF AdaUsdNext
    <3>2. asked' = Answers(pools, volumes)
      BY <3>1 DEF AskAdaUsd, Answers
    <3> QED
      BY <3>2 DEF AskedOK, Answers
  <2>3. CASE UNCHANGED asked
    BY <2>3 DEF AskedOK, Answers, NotAsked
  <2> QED
    BY <2>1, <2>2, <2>3
<1>3. AskedOK => AggregateIsMedian
  BY AnswersAreMedian
<1> QED
  BY <1>1, <1>2, <1>3, PTL DEF Spec
=============================================================================
