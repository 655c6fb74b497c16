------------------------- MODULE PriceStreamProofs -------------------------
(***************************************************************************)
(* Safety of price updates for any number of subscribers, connections and  *)
(* updates and any buffer size.                                            *)
(***************************************************************************)
EXTENDS PriceStream, FiniteSetTheorems, SequenceTheorems,
        NaturalsInduction, TLAPS

-----------------------------------------------------------------------------
(* Sums over a finite set                                                  *)

\* A set of naturals has a least element: induction without a predicate.
LEMMA LeastNatural ==
    ASSUME NEW T \in SUBSET Nat, T # {}
    PROVE  \E x \in T : \A y \in T : ~(y < x)
<1>1. IsWellFoundedOn(OpToRel(<, Nat), Nat)
  BY NatLessThanWellFounded
<1>2. \E x \in T : \A y \in T : ~(<<y, x>> \in OpToRel(<, Nat))
  BY <1>1, WFMin
<1>3. \A x, y \in Nat : <<x, y>> \in OpToRel(<, Nat) <=> x < y
  BY DEF OpToRel
<1> QED
  BY <1>2, <1>3

\* The element of a set that SumFunction takes first, and the partial sums it
\* is defined by.
Pick(s) == CHOOSE x \in s : TRUE
Step(f, g, s) == IF s = {} THEN 0 ELSE f[Pick(s)] + g[s \ {Pick(s)}]
PartialSums(f) == CHOOSE g : g = [s \in SUBSET DOMAIN f |-> Step(f, g, s)]

\* Pick takes an element.
LEMMA PickIsElement == ASSUME NEW s, s # {} PROVE Pick(s) \in s
  BY DEF Pick

\* SumFunction is the last of those partial sums.
LEMMA SumIsPartialSum ==
    ASSUME NEW f
    PROVE  SumFunction(f) = PartialSums(f)[DOMAIN f]
  BY DEF SumFunction, SumFunctionOnSet, FoldFunctionOnSet, MapThenFoldSet,
         PartialSums, Step, Pick

\* Induction over the subsets of a finite set, in the order SumFunction takes
\* their elements: a set of subsets that is closed under removing the picked
\* element and lacks the empty set is empty.
LEMMA SubsetInduction ==
    ASSUME NEW S, IsFiniteSet(S), NEW Bad \in SUBSET SUBSET S, {} \notin Bad,
           \A s \in Bad : s # {} => s \ {Pick(s)} \in Bad
    PROVE  Bad = {}
<1> SUFFICES ASSUME Bad # {} PROVE FALSE
  OBVIOUS
<1>1. \A s \in Bad : IsFiniteSet(s) /\ Cardinality(s) \in Nat
  BY FS_Subset, FS_CardinalityType
<1> DEFINE Sizes == {Cardinality(s) : s \in Bad}
<1>2. Sizes \in SUBSET Nat /\ Sizes # {}
  BY <1>1
<1>3. PICK n \in Sizes : \A m \in Sizes : ~(m < n)
  <2> HIDE DEF Sizes
  <2> QED
    BY <1>2, LeastNatural
<1>4. PICK s \in Bad : n = Cardinality(s)
  BY <1>3
<1>5. s # {} /\ s \ {Pick(s)} \in Bad
  OBVIOUS
<1>6. Cardinality(s \ {Pick(s)}) = Cardinality(s) - 1
  BY <1>1, <1>5, PickIsElement, FS_RemoveElement
<1>7. Cardinality(s \ {Pick(s)}) \in Sizes
  BY <1>5
<1> HIDE DEF Sizes
<1> QED
  BY <1>1, <1>3, <1>4, <1>6, <1>7

\* The recursion of the partial sums of naturals over a finite set has a
\* solution: one for the subsets of at most n elements, for every n.
LEMMA PartialSumsExist ==
    ASSUME NEW S, IsFiniteSet(S), NEW f \in [S -> Nat]
    PROVE  \A s \in SUBSET S : PartialSums(f)[s] = Step(f, PartialSums(f), s)
<1> DEFINE Small(n) == {s \in SUBSET S : Cardinality(s) <= n}
           Solves(g, n) == g \in [Small(n) -> Nat]
                             /\ \A s \in Small(n) : g[s] = Step(f, g, s)
           Bad == {n \in Nat : \A g \in [Small(n) -> Nat] : ~Solves(g, n)}
<1>1. \A s \in SUBSET S : IsFiniteSet(s) /\ Cardinality(s) \in Nat
  BY FS_Subset, FS_CardinalityType
<1>2. ASSUME NEW s \in SUBSET S, s # {}
      PROVE  /\ Pick(s) \in S /\ s \ {Pick(s)} \in SUBSET S
             /\ Cardinality(s \ {Pick(s)}) = Cardinality(s) - 1
  BY <1>1, <1>2, PickIsElement, FS_RemoveElement
<1>3. 0 \notin Bad
  <2> DEFINE g == [s \in Small(0) |-> 0]
  <2>1. \A s \in Small(0) : s = {}
    BY <1>1, FS_EmptySet
  <2>2. Solves(g, 0)
    BY <2>1 DEF Step
  <2> QED
    BY <2>2
<1>4. ASSUME NEW n \in Nat, n \notin Bad PROVE n + 1 \notin Bad
  <2>1. PICK g \in [Small(n) -> Nat] : Solves(g, n)
    BY <1>4
  <2> DEFINE h == [s \in Small(n + 1) |-> Step(f, g, s)]
  <2>2. \A s \in Small(n + 1) : s # {} => s \ {Pick(s)} \in Small(n)
    BY <1>1, <1>2
  <2>3. h \in [Small(n + 1) -> Nat]
    BY <1>2, <2>1, <2>2 DEF Step
  <2>4. \A s \in Small(n) : s \in Small(n + 1) /\ h[s] = g[s]
    BY <1>1, <2>1
  <2>5. \A s \in Small(n + 1) : h[s] = Step(f, h, s)
    BY <2>2, <2>4 DEF Step
  <2> HIDE DEF h
  <2> QED
    BY <2>3, <2>5
<1>5. Bad = {}
  <2>1. Bad \in SUBSET Nat
    OBVIOUS
  <2> HIDE DEF Bad
  <2> SUFFICES ASSUME Bad # {} PROVE FALSE
    OBVIOUS
  <2>2. PICK n \in Bad : \A m \in Bad : ~(m < n)
    BY <2>1, LeastNatural
  <2>3. n \in Nat /\ n # 0
    BY <1>3, <2>1
  <2>4. n - 1 \in Nat /\ n - 1 \notin Bad
    BY <2>2, <2>3
  <2>5. (n - 1) + 1 \notin Bad
    BY <1>4, <2>4
  <2> QED
    BY <2>3, <2>5
<1>6. \E g \in [SUBSET S -> Nat] : \A s \in SUBSET S : g[s] = Step(f, g, s)
  <2>1. Cardinality(S) \in Nat /\ Cardinality(S) \notin Bad
    <3> HIDE DEF Bad
    <3> QED
      BY <1>1, <1>5
  <2>2. Small(Cardinality(S)) = SUBSET S
    BY FS_Subset
  <2> QED
    BY <2>1, <2>2
<1>7. PICK g \in [SUBSET S -> Nat] : \A s \in SUBSET S : g[s] = Step(f, g, s)
  BY <1>6
<1>8. g = [s \in SUBSET DOMAIN f |-> Step(f, g, s)]
  BY <1>7
<1>9. PartialSums(f) = [s \in SUBSET DOMAIN f |-> Step(f, PartialSums(f), s)]
  BY <1>8 DEF PartialSums
<1>10. DOMAIN f = S
  OBVIOUS
<1> DEFINE G == PartialSums(f)
<1>11. G = [s \in SUBSET S |-> Step(f, G, s)]
  BY <1>9, <1>10
<1> HIDE DEF G
<1>12. \A s \in SUBSET S : G[s] = Step(f, G, s)
  BY <1>11
<1> QED
  BY <1>12 DEF G

\* Partial sums of naturals are naturals.
LEMMA PartialSumsType ==
    ASSUME NEW S, IsFiniteSet(S), NEW f \in [S -> Nat]
    PROVE  \A s \in SUBSET S : PartialSums(f)[s] \in Nat
<1> DEFINE G == PartialSums(f)
           Bad == {s \in SUBSET S : G[s] \notin Nat}
<1>1. \A s \in SUBSET S : G[s] = Step(f, G, s)
  BY PartialSumsExist
<1> HIDE DEF G
<1>2. {} \notin Bad
  BY <1>1 DEF Step
<1>3. ASSUME NEW s \in Bad, s # {} PROVE s \ {Pick(s)} \in Bad
  <2>1. Pick(s) \in S /\ f[Pick(s)] \in Nat
    BY <1>3, PickIsElement
  <2>2. G[s] = f[Pick(s)] + G[s \ {Pick(s)}]
    BY <1>1, <1>3 DEF Step
  <2> QED
    BY <2>1, <2>2
<1>4. Bad \in SUBSET SUBSET S
  OBVIOUS
<1>5. Bad = {}
  <2> HIDE DEF Bad
  <2> QED
    BY <1>2, <1>3, <1>4, SubsetInduction
<1> QED
  BY <1>5 DEF G

\* A sum of naturals is a natural.
LEMMA SumType ==
    ASSUME NEW S, IsFiniteSet(S), NEW f \in [S -> Nat]
    PROVE  SumFunction(f) \in Nat
<1>1. SumFunction(f) = PartialSums(f)[S]
  BY SumIsPartialSum
<1> QED
  BY <1>1, PartialSumsType

\* A sum of zeros is zero.
LEMMA SumOfZeros ==
    ASSUME NEW S, IsFiniteSet(S), NEW f \in [S -> Nat], \A c \in S : f[c] = 0
    PROVE  SumFunction(f) = 0
<1> DEFINE G == PartialSums(f)
           Bad == {s \in SUBSET S : G[s] # 0}
<1>1. \A s \in SUBSET S : G[s] = Step(f, G, s)
  BY PartialSumsExist
<1>2. SumFunction(f) = G[S]
  BY SumIsPartialSum
<1> HIDE DEF G
<1>3. {} \notin Bad
  BY <1>1 DEF Step
<1>4. ASSUME NEW s \in Bad, s # {} PROVE s \ {Pick(s)} \in Bad
  <2>1. Pick(s) \in S /\ f[Pick(s)] = 0
    BY <1>4, PickIsElement
  <2>2. G[s] = f[Pick(s)] + G[s \ {Pick(s)}]
    BY <1>1, <1>4 DEF Step
  <2> QED
    BY <2>1, <2>2
<1>5. Bad \in SUBSET SUBSET S
  OBVIOUS
<1>6. Bad = {}
  <2> HIDE DEF Bad
  <2> QED
    BY <1>3, <1>4, <1>5, SubsetInduction
<1> QED
  BY <1>2, <1>6

\* A sum grows by what one of its terms grows by.
LEMMA SumChanges ==
    ASSUME NEW S, IsFiniteSet(S), NEW f \in [S -> Nat], NEW h \in [S -> Nat],
           NEW c \in S, NEW d \in Nat, h[c] = f[c] + d,
           \A x \in S \ {c} : h[x] = f[x]
    PROVE  SumFunction(h) = SumFunction(f) + d
<1> DEFINE G == PartialSums(f)
           H == PartialSums(h)
           Diff(s) == IF c \in s THEN d ELSE 0
           Bad == {s \in SUBSET S : H[s] # G[s] + Diff(s)}
<1>1. \A s \in SUBSET S : G[s] = Step(f, G, s) /\ H[s] = Step(h, H, s)
  BY PartialSumsExist
<1>2. \A s \in SUBSET S : G[s] \in Nat /\ H[s] \in Nat
  BY PartialSumsType
<1>3. SumFunction(f) = G[S] /\ SumFunction(h) = H[S]
  BY SumIsPartialSum
<1> HIDE DEF G, H
<1>4. {} \notin Bad
  BY <1>1 DEF Step
<1>5. ASSUME NEW s \in Bad, s # {} PROVE s \ {Pick(s)} \in Bad
  <2> DEFINE p == Pick(s)
             r == s \ {p}
  <2>1. p \in s /\ p \in S
    BY <1>5, PickIsElement
  <2>2. G[s] = f[p] + G[r] /\ H[s] = h[p] + H[r]
    BY <1>1, <1>5 DEF Step
  <2>3. r \in SUBSET S /\ p \notin r
    OBVIOUS
  <2>4. f[p] \in Nat /\ h[p] \in Nat /\ G[r] \in Nat /\ H[r] \in Nat
    BY <1>2, <2>1, <2>3
  <2>5. H[s] # G[s] + Diff(s)
    OBVIOUS
  <2>6. CASE p = c
    <3>1. Diff(s) = d /\ Diff(r) = 0
      BY <2>1, <2>3, <2>6
    <3>2. h[p] = f[p] + d
      BY <2>6
    <3>3. H[r] # G[r] + 0
      <4> HIDE DEF p, r, Diff
      <4> QED
        BY <2>2, <2>4, <2>5, <3>1, <3>2
    <3> QED
      BY <2>3, <3>1, <3>3
  <2>7. CASE p # c
    <3>1. Diff(s) = Diff(r) /\ Diff(r) \in Nat
      BY <2>1, <2>3, <2>7
    <3>2. h[p] = f[p]
      BY <2>1, <2>7
    <3>3. H[r] # G[r] + Diff(r)
      <4> HIDE DEF p, r, Diff
      <4> QED
        BY <2>2, <2>4, <2>5, <3>1, <3>2
    <3> QED
      BY <2>3, <3>1, <3>3
  <2> QED
    BY <2>6, <2>7
<1>6. Bad \in SUBSET SUBSET S
  OBVIOUS
<1>7. Bad = {}
  <2> HIDE DEF Bad
  <2> QED
    BY <1>4, <1>5, <1>6, SubsetInduction
<1>8. H[S] = G[S] + Diff(S)
  BY <1>7
<1> QED
  BY <1>3, <1>8

-----------------------------------------------------------------------------
(* The inductive invariant                                                 *)

\* The newest update that c's channel has been offered: notifySubscribers has
\* not come to the channels in todo yet.
Newest(c) == IF c \in todo THEN update - 1 ELSE update

\* A channel is made once and closed at most once, by whoever takes it out of
\* subscribers; notifySubscribers only visits channels that are in there.
Lifecycle ==
    /\ todo \subseteq subscribers /\ subscribers \subseteq made
    /\ closed \subseteq made /\ subscribers \cap closed = {}
    /\ \A c \in Subscribers \ made : chan[c] = <<>>

\* Between drop and resend there is room for one update.
RoomToResend ==
    \A c \in Subscribers : <<c, "resend">> \in full => Len(chan[c]) < BufferSize

\* A channel holds consecutive updates that its consumer has not seen; while it
\* is subscribed they end with the newest one offered, and it is empty only
\* when that one was received or makes room for the next.
Consecutive(c) ==
    \A i \in 1..Len(chan[c]) : chan[c][i] = chan[c][1] + (i - 1)
ChannelOK(c) ==
    /\ Consecutive(c)
    /\ chan[c] # <<>> => last[c] < chan[c][1]
    /\ c \in subscribers =>
         /\ last[c] <= Newest(c)
         /\ chan[c] # <<>> => chan[c][Len(chan[c])] = Newest(c)
         /\ chan[c] = <<>> /\ <<c, "resend">> \notin full => last[c] = Newest(c)

\* What c has lost, also in the middle of a notification: the updates it
\* skipped and those between its last one and the next one it can get.
Lost(c) ==
    skipped[c] + (IF chan[c] # <<>> THEN chan[c][1] - last[c] - 1
                  ELSE IF c \in subscribers THEN Newest(c) - last[c] ELSE 0)
LostOf == [c \in Subscribers |-> Lost(c)]

\* TypeOK, split into the oracle's part and the API's.
ChannelTypes ==
    /\ subscribers \subseteq Subscribers /\ closed \subseteq Subscribers
    /\ made \subseteq Subscribers /\ todo \subseteq Subscribers
    /\ chan \in [Subscribers -> Seq(1..update)]
    /\ \A c \in Subscribers : Len(chan[c]) <= BufferSize
    /\ update \in Nat /\ dropCount \in Nat /\ stopped \in BOOLEAN
    /\ full \subseteq todo \X {"drop", "resend"}
    /\ last \in [Subscribers -> 0..update] /\ skipped \in [Subscribers -> Nat]
ApiTypes ==
    /\ wsConns \subseteq Conns /\ socketClosed \subseteq Conns /\ handled \subseteq Conns
    /\ apiStop \in {"running", "stopping", "stopped"}
    /\ caster \in {"starting", "waiting", "writing", "ended"}
    /\ toWrite \subseteq Conns /\ failedWrites \subseteq Conns
    /\ toPing \subseteq Conns /\ failedPings \subseteq Conns /\ pings \in Nat

ChannelInv ==
    ChannelTypes /\ Lifecycle /\ RoomToResend /\ \A c \in Subscribers : ChannelOK(c)

StreamInv ==
    /\ ChannelInv /\ dropCount = SumFunction(LostOf)
    /\ ApiTypes /\ NoStaleConns

-----------------------------------------------------------------------------
(* Steps of the channels                                                   *)

\* The empty sequence is the one of length 0.
LEMMA EmptyLen ==
    ASSUME NEW S, NEW s \in Seq(S) PROVE s = <<>> <=> Len(s) = 0
  BY EmptySeq

\* Receiving takes the first update of a sequence and keeps the others.
LEMMA TailFacts ==
    ASSUME NEW n \in Nat, NEW s \in Seq(1..n), s # <<>>
    PROVE  /\ Head(s) = s[1] /\ s[1] \in 1..n /\ Len(s) \in Nat \ {0}
           /\ Tail(s) \in Seq(1..n) /\ Len(Tail(s)) = Len(s) - 1
           /\ \A i \in 1..(Len(s) - 1) : Tail(s)[i] = s[i + 1]
           /\ Tail(s) = <<>> <=> Len(s) = 1
<1>1. Len(s) \in Nat \ {0} /\ Head(s) = s[1] /\ s[1] \in 1..n
  OBVIOUS
<1>2. Tail(s) \in Seq(1..n) /\ Len(Tail(s)) = Len(s) - 1
  OBVIOUS
<1>3. \A i \in 1..(Len(s) - 1) : Tail(s)[i] = s[i + 1]
  BY <1>1
<1>4. Tail(s) = <<>> <=> Len(s) = 1
  <2> DEFINE t == Tail(s)
  <2>1. t = <<>> <=> Len(t) = 0
    <3> HIDE DEF t
    <3>1. t \in Seq(1..n)
      BY <1>2 DEF t
    <3> QED
      BY <3>1, EmptyLen
  <2> QED
    BY SMTT(30), <1>1, <1>2, <2>1
<1> QED
  BY <1>1, <1>2, <1>3, <1>4

\* A channel whose first update is received or dropped.
LEMMA TailConsecutive ==
    ASSUME ChannelTypes, NEW c \in Subscribers, chan[c] # <<>>, Consecutive(c),
           chan' = [chan EXCEPT ![c] = Tail(@)], update' = update
    PROVE  /\ Consecutive(c)'
           /\ chan'[c] # <<>> => /\ chan'[c][1] = chan[c][1] + 1
                                 /\ chan'[c][Len(chan'[c])] = chan[c][Len(chan[c])]
           /\ chan'[c] = <<>> => chan[c][Len(chan[c])] = chan[c][1]
           /\ chan'[c] = Tail(chan[c])
<1> DEFINE s == chan[c]
           t == Tail(s)
<1>1. update \in Nat /\ s \in Seq(1..update) /\ s # <<>> /\ chan'[c] = t
  BY DEF ChannelTypes
<1>2. /\ s[1] \in 1..update /\ Len(s) \in Nat \ {0} /\ Len(t) = Len(s) - 1
      /\ \A i \in 1..(Len(s) - 1) : t[i] = s[i + 1]
      /\ t = <<>> <=> Len(s) = 1
  <2> HIDE DEF s
  <2> QED
    BY <1>1, TailFacts
<1>3. \A i \in 1..Len(s) : s[i] = s[1] + (i - 1)
  BY DEF Consecutive
<1> HIDE DEF s, t
<1>4. \A i \in 1..Len(t) : t[i] = t[1] + (i - 1)
  BY <1>2, <1>3
<1>5. t # <<>> => t[1] = s[1] + 1 /\ t[Len(t)] = s[Len(s)]
  BY SMTT(30), <1>2, <1>3
<1>6. t = <<>> => s[Len(s)] = s[1]
  BY <1>2
<1> QED
  BY <1>1, <1>4, <1>5, <1>6 DEF Consecutive, s, t

\* A channel that the update is sent on.
LEMMA AppendConsecutive ==
    ASSUME ChannelInv, NEW c \in todo,
           chan[c] = <<>> => last[c] <= update - 1,
           chan' = [chan EXCEPT ![c] = Append(@, update)], update' = update
    PROVE  /\ Consecutive(c)'
           /\ chan'[c] # <<>> /\ chan'[c][Len(chan'[c])] = update
           /\ chan[c] # <<>> => chan'[c][1] = chan[c][1]
           /\ chan[c] = <<>> => chan'[c][1] = update
           /\ chan'[c] = Append(chan[c], update)
<1> DEFINE s == chan[c]
           t == Append(s, update)
<1>1. c \in Subscribers /\ c \in subscribers
  BY DEF ChannelInv, ChannelTypes, Lifecycle
<1>2. update \in Nat /\ s \in Seq(1..update) /\ chan'[c] = t
  BY <1>1 DEF ChannelInv, ChannelTypes
<1>3. /\ \A i \in 1..Len(s) : s[i] = s[1] + (i - 1)
      /\ s # <<>> => s[Len(s)] = update - 1
  BY <1>1 DEF ChannelInv, ChannelOK, Consecutive, Newest
<1>4. Len(s) \in Nat /\ (s # <<>> <=> Len(s) > 0) /\ Len(t) = Len(s) + 1
      /\ (\A i \in 1..Len(s) : t[i] = s[i] /\ s[i] \in 1..update)
      /\ t[Len(s) + 1] = update
  <2> HIDE DEF s
  <2> QED
    BY <1>2
<1> HIDE DEF s, t
<1>5. t # <<>>
  BY <1>2, <1>4
<1>6. \A i \in 1..Len(t) : t[i] = t[1] + (i - 1)
  <2>1. CASE Len(s) = 0
    BY <2>1, <1>2, <1>4
  <2>2. CASE Len(s) > 0
    <3>1. t[1] = s[1] /\ s[1] \in Nat /\ s[Len(s)] = s[1] + (Len(s) - 1)
      BY <2>2, <1>2, <1>3, <1>4
    <3>2. s[Len(s)] = update - 1 /\ t[Len(s) + 1] = update
      BY <2>2, <1>3, <1>4
    <3>3. t[Len(s) + 1] = t[1] + Len(s)
      <4>1. update \in Nat /\ Len(s) \in Nat
        BY <1>2, <1>4
      <4>2. update - 1 = s[1] + (Len(s) - 1)
        BY <3>1, <3>2
      <4>3. update = s[1] + Len(s)
        BY <3>1, <4>1, <4>2
      <4> QED
        BY <3>1, <3>2, <4>3
    <3>4. \A i \in 1..Len(s) : t[i] = t[1] + (i - 1)
      BY <3>1, <1>3, <1>4
    <3>5. ASSUME NEW i \in 1..Len(t) PROVE t[i] = t[1] + (i - 1)
      <4>1. i \in 1..Len(s) \/ i = Len(s) + 1
        BY <1>4
      <4> QED
        BY <3>1, <3>3, <3>4, <4>1, <1>4
    <3> QED
      BY <3>5
  <2> QED
    BY <2>1, <2>2, <1>4
<1> QED
  BY <1>2, <1>4, <1>5, <1>6 DEF Consecutive, s, t

\* What was lost is a number for every subscriber.
LEMMA LostType == ChannelInv => LostOf \in [Subscribers -> Nat]
<1> SUFFICES ASSUME ChannelInv, NEW c \in Subscribers PROVE Lost(c) \in Nat
  BY DEF LostOf
<1>1. skipped[c] \in Nat /\ last[c] \in Nat /\ update \in Nat
  BY DEF ChannelInv, ChannelTypes
<1>2. CASE chan[c] # <<>>
  <2>1. chan[c][1] \in Nat /\ last[c] < chan[c][1]
    <3>1. chan[c] \in Seq(1..update) /\ ChannelOK(c)
      BY DEF ChannelInv, ChannelTypes
    <3>2. chan[c][1] \in 1..update
      BY <1>1, <1>2, <3>1, TailFacts
    <3> QED
      BY <1>1, <1>2, <3>1, <3>2 DEF ChannelOK
  <2> QED
    BY <1>1, <1>2, <2>1 DEF Lost
<1>3. CASE chan[c] = <<>> /\ c \in subscribers
  <2>1. last[c] <= Newest(c) /\ Newest(c) \in Int
    <3>1. ChannelOK(c) /\ Newest(c) \in Int
      BY <1>1 DEF ChannelInv, Newest
    <3> QED
      BY <1>3, <3>1 DEF ChannelOK
  <2> QED
    BY <1>1, <1>3, <2>1 DEF Lost
<1>4. CASE chan[c] = <<>> /\ c \notin subscribers
  BY <1>1, <1>4 DEF Lost
<1> QED
  BY <1>2, <1>3, <1>4

\* Subscribe: the new consumer starts behind the newest update.
LEMMA SubscribeStep ==
    ASSUME ChannelInv, NEW c \in Subscribers, SubscribeAs(c)
    PROVE  ChannelInv' /\ LostOf' = LostOf /\ dropCount' = dropCount
<1> USE DEF SubscribeAs, Unlocked
<1>1. ChannelTypes'
  BY DEF ChannelInv, ChannelTypes
<1>2. Lifecycle'
  BY DEF ChannelInv, ChannelTypes, Lifecycle
<1>3. RoomToResend'
  BY DEF ChannelInv, RoomToResend
<1>4. chan[c] = <<>> /\ c \notin subscribers /\ last'[c] = update
  BY DEF ChannelInv, ChannelTypes, Lifecycle
<1>5. ASSUME NEW x \in Subscribers PROVE ChannelOK(x)' /\ Lost(x)' = Lost(x)
  <2>1. ChannelOK(x) /\ Consecutive(x)' = Consecutive(x) /\ Newest(x)' = Newest(x)
    BY DEF ChannelInv, Consecutive, Newest
  <2>2. CASE x = c
    <3>1. Newest(x)' = update /\ update \in Nat /\ last'[x] = update
      BY <1>4, <2>2 DEF Newest, ChannelInv, ChannelTypes
    <3>2. Consecutive(x)'
      BY <2>1 DEF ChannelOK
    <3>3. ChannelOK(x)'
      BY <1>4, <2>2, <3>1, <3>2 DEF ChannelOK
    <3>4. skipped[x] \in Nat
      BY DEF ChannelInv, ChannelTypes
    <3>5. Lost(x) = skipped[x] + 0
      BY <1>4, <2>2 DEF Lost
    <3>6. Lost(x)' = skipped[x] + 0
      BY <1>4, <2>2, <3>1 DEF Lost
    <3> QED
      BY <3>3, <3>5, <3>6
  <2>3. CASE x # c
    <3>1. last'[x] = last[x] /\ (x \in subscribers' <=> x \in subscribers)
      BY <2>3 DEF ChannelInv, ChannelTypes
    <3> QED
      BY <2>1, <3>1 DEF ChannelOK, Lost
  <2> QED
    BY <2>2, <2>3
<1> QED
  BY <1>1, <1>2, <1>3, <1>5 DEF ChannelInv, LostOf

\* Unsubscribe and Stop close channels between two notifications: nothing that
\* their consumers were to get is lost.
LEMMA CloseStep ==
    ASSUME ChannelInv, Unlocked, NEW R \in SUBSET subscribers,
           subscribers' = subscribers \ R, closed' = closed \cup R,
           stopped' \in BOOLEAN,
           UNCHANGED <<chan, dropCount, update, todo, full, made, last, skipped>>
    PROVE  ChannelInv' /\ LostOf' = LostOf /\ dropCount' = dropCount
<1>1. ChannelTypes'
  BY DEF ChannelInv, ChannelTypes
<1>2. Lifecycle'
  BY DEF ChannelInv, ChannelTypes, Lifecycle, Unlocked
<1>3. RoomToResend'
  BY DEF ChannelInv, RoomToResend
<1>4. full = {}
  BY DEF ChannelInv, ChannelTypes, Unlocked
<1>5. ASSUME NEW x \in Subscribers PROVE ChannelOK(x)' /\ Lost(x)' = Lost(x)
  <2>1. ChannelOK(x) /\ Consecutive(x)' = Consecutive(x) /\ Newest(x)' = Newest(x)
    BY DEF ChannelInv, Consecutive, Newest
  <2>2. ChannelOK(x)'
    BY <2>1 DEF ChannelOK
  <2>3. last[x] \in Nat /\ update \in Nat /\ skipped[x] \in Nat
    BY DEF ChannelInv, ChannelTypes
  <2>4. chan[x] = <<>> /\ x \in subscribers => last[x] = Newest(x) /\ Newest(x) = update
    BY <1>4, <2>1 DEF ChannelOK, Newest, Unlocked
  <2>5. Lost(x)' = Lost(x)
    BY <2>1, <2>3, <2>4 DEF Lost
  <2> QED
    BY <2>2, <2>5
<1> QED
  BY <1>1, <1>2, <1>3, <1>5 DEF ChannelInv, LostOf

\* notifySubscribers begins: every subscriber has the newest update so far.
LEMMA NotifyStep ==
    ASSUME ChannelInv, Notify
    PROVE  ChannelInv' /\ LostOf' = LostOf /\ dropCount' = dropCount
<1> USE DEF Notify, Unlocked
<1>0. update \in Nat /\ 1..update \subseteq 1..(update + 1) /\ full = {}
  BY DEF ChannelInv, ChannelTypes
<1>1. ChannelTypes'
  <2>1. chan' \in [Subscribers -> Seq(1..update')]
    <3>1. \A c \in Subscribers : chan[c] \in Seq(1..(update + 1))
      BY <1>0, SeqMonotonic DEF ChannelInv, ChannelTypes
    <3> QED
      BY <3>1 DEF ChannelInv, ChannelTypes
  <2>2. last' \in [Subscribers -> 0..update']
    BY <1>0 DEF ChannelInv, ChannelTypes
  <2> QED
    BY <1>0, <2>1, <2>2 DEF ChannelInv, ChannelTypes
<1>2. Lifecycle'
  BY DEF ChannelInv, ChannelTypes, Lifecycle
<1>3. RoomToResend'
  BY DEF ChannelInv, RoomToResend
<1>4. ASSUME NEW x \in Subscribers PROVE ChannelOK(x)' /\ Lost(x)' = Lost(x)
  <2>1. ChannelOK(x) /\ Consecutive(x)' = Consecutive(x)
    BY DEF ChannelInv, Consecutive
  <2>2. x \in subscribers => Newest(x)' = Newest(x)
    BY <1>0 DEF Newest
  <2> QED
    BY <2>1, <2>2 DEF ChannelOK, Lost
<1> QED
  BY <1>1, <1>2, <1>3, <1>4 DEF ChannelInv, LostOf

\* The update is sent on a channel with room, the first or the second time.
LEMMA SendStep ==
    ASSUME ChannelInv, NEW c \in todo, Len(chan[c]) < BufferSize,
           full \in {{}, {<<c, "resend">>}}, full' = {},
           chan' = [chan EXCEPT ![c] = Append(@, update)], todo' = todo \ {c},
           UNCHANGED <<subscribers, closed, stopped, dropCount, update, made,
                       last, skipped>>
    PROVE  ChannelInv' /\ LostOf' = LostOf /\ dropCount' = dropCount
<1>1. c \in Subscribers /\ c \in subscribers /\ c \in made
  BY DEF ChannelInv, ChannelTypes, Lifecycle
<1>2. /\ update \in Nat /\ chan[c] \in Seq(1..update) /\ last[c] \in Nat
      /\ ChannelOK(c) /\ Newest(c) = update - 1 /\ Newest(c)' = update
  BY <1>1 DEF ChannelInv, ChannelTypes, Newest
<1>3. last[c] <= update - 1 /\ (chan[c] # <<>> => last[c] < chan[c][1])
  BY <1>1, <1>2 DEF ChannelOK
<1>4. /\ Consecutive(c)'
      /\ chan'[c] # <<>> /\ chan'[c][Len(chan'[c])] = update
      /\ chan[c] # <<>> => chan'[c][1] = chan[c][1]
      /\ chan[c] = <<>> => chan'[c][1] = update
      /\ chan'[c] = Append(chan[c], update)
  BY <1>3, AppendConsecutive
<1>5. ChannelTypes'
  <2>1. update \in 1..update
    BY <1>2, <1>3
  <2>2. chan'[c] \in Seq(1..update) /\ Len(chan'[c]) = Len(chan[c]) + 1
    <3> DEFINE s == chan[c]
    <3>1. s \in Seq(1..update)
      BY <1>2
    <3> HIDE DEF s
    <3>2. Append(s, update) \in Seq(1..update) /\ Len(Append(s, update)) = Len(s) + 1
      BY <2>1, <3>1
    <3> QED
      BY <1>4, <3>2 DEF s
  <2>3. BufferSize \in Nat /\ Len(chan[c]) \in Nat
    BY <1>2, BufferAssumption
  <2>4. \A x \in Subscribers : x # c => chan'[x] = chan[x]
    BY DEF ChannelInv, ChannelTypes
  <2>5. chan' \in [Subscribers -> Seq(1..update)]
    BY <1>1, <2>2 DEF ChannelInv, ChannelTypes
  <2>6. \A x \in Subscribers : Len(chan'[x]) <= BufferSize
    BY <2>2, <2>3, <2>4 DEF ChannelInv, ChannelTypes
  <2> QED
    BY <2>5, <2>6 DEF ChannelInv, ChannelTypes
<1>6. Lifecycle'
  BY <1>1 DEF ChannelInv, ChannelTypes, Lifecycle
<1>7. RoomToResend'
  BY DEF RoomToResend
<1>8. ASSUME NEW x \in Subscribers PROVE ChannelOK(x)' /\ Lost(x)' = Lost(x)
  <2>1. CASE x = c
    <3>1. last'[c] = last[c] /\ c \in subscribers' /\ skipped'[c] = skipped[c]
          /\ skipped[c] \in Nat
      BY <1>1 DEF ChannelInv, ChannelTypes
    <3>2. chan[c] # <<>> => chan[c][1] \in Nat
      BY <1>2, TailFacts
    <3>3. last[c] < chan'[c][1]
      BY <1>2, <1>3, <1>4
    <3>4. ChannelOK(c)'
      <4>1. last'[c] <= Newest(c)'
        BY <1>2, <1>3, <3>1
      <4>2. chan'[c][Len(chan'[c])] = Newest(c)'
        BY <1>2, <1>4
      <4> QED
        BY <1>4, <3>1, <3>3, <4>1, <4>2 DEF ChannelOK
    <3>5. Lost(c)' = skipped[c] + (chan'[c][1] - last[c] - 1)
      BY <1>4, <3>1 DEF Lost
    <3>6. ASSUME chan[c] # <<>> PROVE Lost(c)' = Lost(c)
      BY <1>4, <3>5, <3>6 DEF Lost
    <3>7. ASSUME chan[c] = <<>> PROVE Lost(c)' = Lost(c)
      <4>1. Lost(c) = skipped[c] + (update - 1 - last[c])
        BY <1>1, <1>2, <3>7 DEF Lost
      <4> QED
        BY <1>2, <1>4, <3>1, <3>5, <3>7, <4>1
    <3> QED
      BY <2>1, <3>4, <3>6, <3>7
  <2>2. CASE x # c
    <3>1. chan'[x] = chan[x] /\ (x \in todo' <=> x \in todo)
      BY <2>2 DEF ChannelInv, ChannelTypes
    <3>2. <<x, "resend">> \notin full /\ <<x, "resend">> \notin full'
      BY <2>2
    <3>3. ChannelOK(x) /\ Consecutive(x)' = Consecutive(x) /\ Newest(x)' = Newest(x)
      BY <3>1 DEF ChannelInv, Consecutive, Newest
    <3> QED
      BY <3>1, <3>2, <3>3 DEF ChannelOK, Lost
  <2> QED
    BY <2>1, <2>2
<1> QED
  BY <1>5, <1>6, <1>7, <1>8 DEF ChannelInv, LostOf

\* The channel is full: nothing but where the notification is changes.
LEMMA FullStep ==
    ASSUME ChannelInv, NEW c \in todo, full = {}, full' = {<<c, "drop">>},
           UNCHANGED <<subscribers, chan, closed, stopped, dropCount, update,
                       todo, made, last, skipped>>
    PROVE  ChannelInv' /\ LostOf' = LostOf /\ dropCount' = dropCount
<1>1. ChannelTypes'
  BY DEF ChannelInv, ChannelTypes
<1>2. Lifecycle'
  BY DEF ChannelInv, Lifecycle
<1>3. \A x : <<x, "resend">> \notin full'
  OBVIOUS
<1>4. RoomToResend'
  BY <1>3 DEF RoomToResend
<1>5. ASSUME NEW x \in Subscribers PROVE ChannelOK(x)' /\ Lost(x)' = Lost(x)
  <2>1. ChannelOK(x) /\ Consecutive(x)' = Consecutive(x) /\ Newest(x)' = Newest(x)
    BY DEF ChannelInv, Consecutive, Newest
  <2> QED
    BY <1>3, <2>1 DEF ChannelOK, Lost
<1> QED
  BY <1>1, <1>2, <1>4, <1>5 DEF ChannelInv, LostOf

\* What receiving and dropping the oldest update do to the types.
LEMMA TailTypes ==
    ASSUME ChannelInv, NEW c \in Subscribers, chan[c] # <<>>,
           chan' = [chan EXCEPT ![c] = Tail(@)]
    PROVE  /\ chan' \in [Subscribers -> Seq(1..update)]
           /\ \A x \in Subscribers : Len(chan'[x]) <= BufferSize
           /\ Len(chan'[c]) < BufferSize
<1> DEFINE s == chan[c]
<1>1. update \in Nat /\ s \in Seq(1..update) /\ s # <<>> /\ Len(s) <= BufferSize
  BY DEF ChannelInv, ChannelTypes
<1>2. chan'[c] = Tail(s) /\ \A x \in Subscribers : x # c => chan'[x] = chan[x]
  BY DEF ChannelInv, ChannelTypes
<1> HIDE DEF s
<1>3. Tail(s) \in Seq(1..update) /\ Len(Tail(s)) = Len(s) - 1 /\ Len(s) \in Nat
  BY <1>1, TailFacts
<1>4. BufferSize \in Nat
  BY BufferAssumption
<1>5. chan' \in [Subscribers -> Seq(1..update)]
  BY <1>2, <1>3 DEF ChannelInv, ChannelTypes
<1>6. Len(chan'[c]) < BufferSize
  BY <1>1, <1>2, <1>3, <1>4
<1> QED
  BY <1>2, <1>4, <1>5, <1>6, <1>3 DEF ChannelInv, ChannelTypes

\* The oldest update makes room: one more is lost, unless the consumer took it
\* first.
LEMMA DropStep ==
    ASSUME ChannelInv, NEW c \in todo, DropOldest(c), chan[c] # <<>>
    PROVE  /\ ChannelInv' /\ dropCount' = dropCount + 1
           /\ Lost(c)' = Lost(c) + 1
           /\ \A x \in Subscribers \ {c} : Lost(x)' = Lost(x)
<1>1. c \in Subscribers /\ c \in subscribers /\ c \in made
  BY DEF ChannelInv, ChannelTypes, Lifecycle
<1>2. /\ full = {<<c, "drop">>} /\ full' = {<<c, "resend">>}
      /\ chan' = [chan EXCEPT ![c] = Tail(@)] /\ dropCount' = dropCount + 1
      /\ UNCHANGED <<subscribers, closed, stopped, update, todo, made, last, skipped>>
  BY DEF DropOldest
<1>3. /\ update \in Nat /\ chan[c] \in Seq(1..update) /\ last[c] \in Nat
      /\ ChannelOK(c) /\ Newest(c) = update - 1 /\ Newest(c)' = Newest(c)
      /\ skipped[c] \in Nat
  BY <1>1, <1>2 DEF ChannelInv, ChannelTypes, Newest
<1>4. last[c] <= Newest(c) /\ last[c] < chan[c][1] /\ chan[c][Len(chan[c])] = Newest(c)
      /\ Consecutive(c)
  BY <1>1, <1>3 DEF ChannelOK
<1>5. /\ Consecutive(c)'
      /\ chan'[c] # <<>> => /\ chan'[c][1] = chan[c][1] + 1
                            /\ chan'[c][Len(chan'[c])] = chan[c][Len(chan[c])]
      /\ chan'[c] = <<>> => chan[c][Len(chan[c])] = chan[c][1]
  BY <1>1, <1>2, <1>4, TailConsecutive DEF ChannelInv
<1>6. chan[c][1] \in Nat
  BY <1>3, TailFacts
<1>7. /\ chan' \in [Subscribers -> Seq(1..update)]
      /\ \A x \in Subscribers : Len(chan'[x]) <= BufferSize
      /\ Len(chan'[c]) < BufferSize
  BY <1>1, <1>2, TailTypes
<1>8. ChannelTypes'
  BY <1>2, <1>7 DEF ChannelInv, ChannelTypes
<1>9. Lifecycle'
  <2>1. \A x \in Subscribers \ made : chan'[x] = chan[x]
    BY <1>1, <1>2 DEF ChannelInv, ChannelTypes
  <2> QED
    BY <1>2, <2>1 DEF ChannelInv, Lifecycle
<1>10. RoomToResend'
  BY <1>2, <1>7 DEF RoomToResend
<1>11. ChannelOK(c)' /\ Lost(c)' = Lost(c) + 1
  <2> DEFINE h == chan[c][1]
             l == last[c]
             k == skipped[c]
  <2>0. h \in Nat /\ l \in Nat /\ k \in Nat /\ l < h /\ last'[c] = l /\ skipped'[c] = k
    BY <1>2, <1>3, <1>4, <1>6
  <2>1. chan'[c] # <<>> => last'[c] < chan'[c][1]
    <3>1. chan'[c] # <<>> => chan'[c][1] = h + 1
      BY <1>5
    <3> HIDE DEF h, l, k
    <3> QED
      BY <2>0, <3>1
  <2>2. last'[c] <= Newest(c)'
    BY <1>2, <1>3, <1>4
  <2>3. chan'[c] # <<>> => chan'[c][Len(chan'[c])] = Newest(c)'
    BY <1>3, <1>4, <1>5
  <2>4. <<c, "resend">> \in full'
    BY <1>2
  <2>5. ChannelOK(c)'
    BY <1>5, <2>1, <2>2, <2>3, <2>4 DEF ChannelOK
  <2>6. Lost(c) = k + (h - l - 1)
    BY DEF Lost
  <2>7. ASSUME chan'[c] # <<>> PROVE Lost(c)' = k + (h + 1 - l - 1)
    <3>1. chan'[c][1] = h + 1
      BY <1>5, <2>7
    <3>2. Lost(c)' = skipped'[c] + (chan'[c][1] - last'[c] - 1)
      BY <2>7 DEF Lost
    <3> QED
      BY <2>0, <3>1, <3>2
  <2>8. ASSUME chan'[c] = <<>> PROVE Lost(c)' = k + (h - l)
    <3>1. Newest(c)' = h /\ c \in subscribers'
      BY <1>1, <1>2, <1>3, <1>4, <1>5, <2>8
    <3>2. Lost(c)' = skipped'[c] + (Newest(c)' - last'[c])
      BY <2>8, <3>1 DEF Lost
    <3> QED
      BY <2>0, <3>1, <3>2
  <2>9. Lost(c)' = Lost(c) + 1
    <3> HIDE DEF h, l, k
    <3>1. k + (h + 1 - l - 1) = k + (h - l - 1) + 1 /\ k + (h - l) = k + (h - l - 1) + 1
      BY <2>0
    <3> QED
      BY <2>6, <2>7, <2>8, <3>1
  <2> QED
    BY <2>5, <2>9
<1>12. ASSUME NEW x \in Subscribers \ {c} PROVE ChannelOK(x)' /\ Lost(x)' = Lost(x)
  <2>1. chan'[x] = chan[x]
    BY <1>2 DEF ChannelInv, ChannelTypes
  <2>2. <<x, "resend">> \notin full
    BY <1>2
  <2>3. ChannelOK(x) /\ Consecutive(x)' = Consecutive(x) /\ Newest(x)' = Newest(x)
    BY <1>2, <2>1 DEF ChannelInv, Consecutive, Newest
  <2> QED
    BY <1>2, <2>1, <2>2, <2>3 DEF ChannelOK, Lost
<1> QED
  BY <1>2, <1>8, <1>9, <1>10, <1>11, <1>12 DEF ChannelInv

\* The consumer emptied the channel before the oldest update was dropped.
LEMMA DropNothingStep ==
    ASSUME ChannelInv, NEW c \in todo, DropOldest(c), chan[c] = <<>>
    PROVE  ChannelInv' /\ LostOf' = LostOf /\ dropCount' = dropCount
<1>1. c \in Subscribers /\ c \in subscribers
  BY DEF ChannelInv, ChannelTypes, Lifecycle
<1>2. /\ full = {<<c, "drop">>} /\ full' = {<<c, "resend">>}
      /\ UNCHANGED <<subscribers, chan, closed, stopped, dropCount, update, todo,
                     made, last, skipped>>
  BY DEF DropOldest
<1>3. ChannelTypes'
  BY <1>2 DEF ChannelInv, ChannelTypes
<1>4. Lifecycle'
  BY <1>2 DEF ChannelInv, Lifecycle
<1>5. RoomToResend'
  BY <1>2, BufferAssumption DEF RoomToResend
<1>6. ASSUME NEW x \in Subscribers PROVE ChannelOK(x)' /\ Lost(x)' = Lost(x)
  <2>1. ChannelOK(x) /\ Consecutive(x)' = Consecutive(x) /\ Newest(x)' = Newest(x)
    BY <1>2 DEF ChannelInv, Consecutive, Newest
  <2>2. <<x, "resend">> \notin full
    BY <1>2
  <2> QED
    BY <1>2, <2>1, <2>2 DEF ChannelOK, Lost
<1> QED
  BY <1>2, <1>3, <1>4, <1>5, <1>6 DEF ChannelInv, LostOf

\* A consumer receives: what it has skipped was counted as lost before.
LEMMA TakeStep ==
    ASSUME ChannelInv, NEW c \in Subscribers, Take(c)
    PROVE  ChannelInv' /\ LostOf' = LostOf /\ dropCount' = dropCount
<1> DEFINE h == chan[c][1]
           l == last[c]
           k == skipped[c]
<1>1. /\ chan[c] # <<>> /\ chan' = [chan EXCEPT ![c] = Tail(@)]
      /\ last' = [last EXCEPT ![c] = Head(chan[c])]
      /\ skipped' = [skipped EXCEPT ![c] = @ + Head(chan[c]) - last[c] - 1]
      /\ UNCHANGED <<subscribers, closed, stopped, dropCount, update, todo, full, made>>
  BY DEF Take
<1>2. update \in Nat /\ chan[c] \in Seq(1..update) /\ l \in Nat /\ k \in Nat
      /\ ChannelOK(c) /\ c \in made
  BY <1>1 DEF ChannelInv, ChannelTypes, Lifecycle
<1>3. Head(chan[c]) = h /\ h \in 1..update
  BY <1>1, <1>2, TailFacts
<1>4. l < h /\ Consecutive(c)
  BY <1>1, <1>2 DEF ChannelOK
<1>5. last'[c] = h /\ skipped'[c] = k + h - l - 1
  BY <1>1, <1>3 DEF ChannelInv, ChannelTypes
<1>6. /\ Consecutive(c)'
      /\ chan'[c] # <<>> => /\ chan'[c][1] = h + 1
                            /\ chan'[c][Len(chan'[c])] = chan[c][Len(chan[c])]
      /\ chan'[c] = <<>> => chan[c][Len(chan[c])] = h
  BY <1>1, <1>4, TailConsecutive DEF ChannelInv
<1>7. /\ chan' \in [Subscribers -> Seq(1..update)]
      /\ \A x \in Subscribers : Len(chan'[x]) <= BufferSize
      /\ Len(chan'[c]) < BufferSize
  BY <1>1, TailTypes
<1>8. k + h - l - 1 \in Nat /\ k + h - l - 1 = k + (h - l - 1)
  <2> HIDE DEF h, l, k
  <2> QED
    BY <1>2, <1>3, <1>4
<1>9. ChannelTypes'
  <2>1. last' \in [Subscribers -> 0..update]
    BY SMTT(30), <1>1, <1>2, <1>3 DEF ChannelInv, ChannelTypes
  <2>2. skipped' \in [Subscribers -> Nat]
    BY <1>1, <1>3, <1>8 DEF ChannelInv, ChannelTypes
  <2> QED
    BY <1>1, <1>7, <2>1, <2>2 DEF ChannelInv, ChannelTypes
<1>10. \A x \in Subscribers : x # c =>
          chan'[x] = chan[x] /\ last'[x] = last[x] /\ skipped'[x] = skipped[x]
  BY <1>1 DEF ChannelInv, ChannelTypes
<1>11. Lifecycle'
  BY <1>1, <1>2, <1>10 DEF ChannelInv, Lifecycle
<1>12. RoomToResend'
  BY <1>1, <1>7, <1>10 DEF ChannelInv, RoomToResend
<1>13. Newest(c)' = Newest(c)
  BY <1>1 DEF Newest
<1>14. ChannelOK(c)' /\ Lost(c)' = Lost(c)
  <2>1. chan'[c] # <<>> => last'[c] < chan'[c][1]
    <3> HIDE DEF h
    <3> QED
      BY <1>3, <1>5, <1>6
  <2>2. c \in subscribers => chan[c][Len(chan[c])] = Newest(c)
    BY <1>1, <1>2 DEF ChannelOK
  <2>3. c \in subscribers => h <= Newest(c)
    <3>1. Len(chan[c]) \in Nat \ {0}
      BY <1>1, <1>2, TailFacts
    <3>2. chan[c][Len(chan[c])] = h + (Len(chan[c]) - 1)
      BY <1>4, <3>1 DEF Consecutive
    <3> QED
      BY <1>3, <2>2, <3>1, <3>2
  <2>4. ChannelOK(c)'
    <3>1. c \in subscribers' => last'[c] <= Newest(c)'
      BY <1>1, <1>5, <1>13, <2>3
    <3>2. c \in subscribers' => (chan'[c] # <<>> => chan'[c][Len(chan'[c])] = Newest(c)')
      BY <1>1, <1>6, <1>13, <2>2
    <3>3. c \in subscribers' => (chan'[c] = <<>> => last'[c] = Newest(c)')
      BY <1>1, <1>5, <1>6, <1>13, <2>2
    <3> QED
      BY <1>6, <2>1, <3>1, <3>2, <3>3 DEF ChannelOK
  <2>5. Lost(c) = k + (h - l - 1)
    BY <1>1 DEF Lost
  <2>6. ASSUME chan'[c] # <<>> PROVE Lost(c)' = skipped'[c] + ((h + 1) - h - 1)
    <3>1. Lost(c)' = skipped'[c] + (chan'[c][1] - last'[c] - 1)
      BY <2>6 DEF Lost
    <3>2. chan'[c][1] = h + 1 /\ last'[c] = h
      BY <1>5, <1>6, <2>6
    <3> QED
      BY <3>1, <3>2
  <2>7. ASSUME chan'[c] = <<>> PROVE Lost(c)' = skipped'[c] + (h - h) \/ Lost(c)' = skipped'[c] + 0
    <3>1. CASE c \in subscribers'
      <4>1. Newest(c)' = h /\ last'[c] = h
        BY <1>1, <1>5, <1>6, <1>13, <2>2, <2>7, <3>1
      <4>2. Lost(c)' = skipped'[c] + (Newest(c)' - last'[c])
        BY <2>7, <3>1 DEF Lost
      <4> QED
        BY <4>1, <4>2
    <3>2. CASE c \notin subscribers'
      BY <2>7, <3>2 DEF Lost
    <3> QED
      BY <3>1, <3>2
  <2>8. Lost(c)' = Lost(c)
    <3> HIDE DEF h, l, k
    <3>1. (h + 1) - h - 1 = 0 /\ h - h = 0
      BY <1>3
    <3>2. Lost(c)' = skipped'[c] + 0
      BY <2>6, <2>7, <3>1
    <3> QED
      BY <1>5, <1>8, <2>5, <3>2
  <2> QED
    BY <2>4, <2>8
<1>15. ASSUME NEW x \in Subscribers, x # c PROVE ChannelOK(x)' /\ Lost(x)' = Lost(x)
  <2>1. chan'[x] = chan[x] /\ last'[x] = last[x] /\ skipped'[x] = skipped[x]
    BY <1>10, <1>15
  <2>2. ChannelOK(x) /\ Consecutive(x)' = Consecutive(x) /\ Newest(x)' = Newest(x)
    BY <1>1, <2>1 DEF ChannelInv, Consecutive, Newest
  <2>3. subscribers' = subscribers /\ full' = full
    BY <1>1
  <2>4. ChannelOK(x)'
    BY <2>1, <2>2, <2>3 DEF ChannelOK
  <2>5. Lost(x)' = Lost(x)
    BY <2>1, <2>2, <2>3 DEF Lost
  <2> QED
    BY <2>4, <2>5
<1>16. \A x \in Subscribers : ChannelOK(x)' /\ Lost(x)' = Lost(x)
  BY <1>14, <1>15
<1> QED
  BY <1>1, <1>9, <1>11, <1>12, <1>16 DEF ChannelInv, LostOf

-----------------------------------------------------------------------------
(* The specification                                                       *)

\* The invariant holds initially: nobody subscribes, nothing is lost.
LEMMA InitInv == Init => StreamInv
<1> SUFFICES ASSUME Init PROVE StreamInv
  OBVIOUS
<1> USE DEF Init
<1>0. BufferSize \in Nat /\ BufferSize > 0
  BY BufferAssumption
<1>1. ChannelTypes /\ Lifecycle /\ RoomToResend /\ ApiTypes /\ NoStaleConns
  <2>1. ChannelTypes
    <3>1. chan \in [Subscribers -> Seq(1..update)]
      <4>1. <<>> \in Seq(1..update)
        BY EmptySeq
      <4> QED
        BY <4>1
    <3>2. \A c \in Subscribers : Len(chan[c]) <= BufferSize
      BY <1>0
    <3>3. last \in [Subscribers -> 0..update] /\ skipped \in [Subscribers -> Nat]
      OBVIOUS
    <3> QED
      BY <3>1, <3>2, <3>3 DEF ChannelTypes
  <2>2. Lifecycle /\ RoomToResend
    BY DEF Lifecycle, RoomToResend
  <2>3. ApiTypes
    BY DEF ApiTypes
  <2>4. NoStaleConns
    BY DEF NoStaleConns
  <2> QED
    BY <2>1, <2>2, <2>3, <2>4
<1>2. ASSUME NEW c \in Subscribers PROVE ChannelOK(c) /\ Lost(c) = 0
  BY DEF ChannelOK, Consecutive, Lost
<1>3. LostOf \in [Subscribers -> Nat] /\ \A c \in Subscribers : LostOf[c] = 0
  BY <1>2 DEF LostOf
<1>4. IsFiniteSet(Subscribers)
  BY ClientsAssumption, FS_AddElement DEF Subscribers
<1>5. SumFunction(LostOf) = 0
  BY <1>3, <1>4, SumOfZeros
<1> QED
  BY <1>1, <1>2, <1>5 DEF StreamInv, ChannelInv

\* Every step keeps the channels and the count of drops right.
LEMMA ChannelStep ==
    ASSUME ChannelInv, [Next]_vars
    PROVE  /\ ChannelInv'
           /\ \/ LostOf' = LostOf /\ dropCount' = dropCount
              \/ /\ dropCount' = dropCount + 1
                 /\ \E c \in Subscribers :
                       /\ Lost(c)' = Lost(c) + 1
                       /\ \A x \in Subscribers \ {c} : Lost(x)' = Lost(x)
<1>1. ASSUME UNCHANGED oracleVars
      PROVE  ChannelInv' /\ LostOf' = LostOf /\ dropCount' = dropCount
  <2>1. ChannelTypes' /\ Lifecycle' /\ RoomToResend'
    BY <1>1 DEF oracleVars, ChannelInv, ChannelTypes, Lifecycle, RoomToResend
  <2>2. \A c \in Subscribers : ChannelOK(c)' /\ Lost(c)' = Lost(c)
    BY <1>1 DEF oracleVars, ChannelInv, ChannelOK, Consecutive, Newest, Lost
  <2> QED
    BY <1>1, <2>1, <2>2 DEF oracleVars, ChannelInv, LostOf
<1>2. ASSUME NEW c \in Subscribers, c \in subscribers \/ c = Api, Drop(c),
             UNCHANGED <<chan, stopped, dropCount, update, todo, full, made, last,
                         skipped>>
      PROVE  ChannelInv' /\ LostOf' = LostOf /\ dropCount' = dropCount
  <2> DEFINE R == {c} \cap subscribers
  <2>1. subscribers' = subscribers \ R /\ closed' = closed \cup R /\ Unlocked
    BY <1>2 DEF Drop
  <2>2. stopped' \in BOOLEAN /\ R \in SUBSET subscribers
    BY <1>2 DEF ChannelInv, ChannelTypes
  <2> HIDE DEF R
  <2> QED
    BY <1>2, <2>1, <2>2, CloseStep
<1>3. CASE StopOracle
  <2>1. subscribers' = subscribers \ subscribers
    BY <1>3 DEF StopOracle
  <2> QED
    BY <1>3, <2>1, CloseStep DEF StopOracle
<1>4. ASSUME NEW c \in todo, Send(c)
      PROVE  ChannelInv' /\ LostOf' = LostOf /\ dropCount' = dropCount
  <2>1. CASE Len(chan[c]) < BufferSize
    BY <1>4, <2>1, SendStep DEF Send
  <2>2. CASE ~(Len(chan[c]) < BufferSize)
    BY <1>4, <2>2, FullStep DEF Send
  <2> QED
    BY <2>1, <2>2
<1>5. ASSUME NEW c \in todo, SendAgain(c)
      PROVE  ChannelInv' /\ LostOf' = LostOf /\ dropCount' = dropCount
  <2>1. c \in Subscribers /\ <<c, "resend">> \in full
    BY <1>5 DEF SendAgain, ChannelInv, ChannelTypes
  <2>2. Len(chan[c]) < BufferSize
    BY <2>1 DEF ChannelInv, RoomToResend
  <2> QED
    BY <1>5, <2>2, SendStep DEF SendAgain
<1>6. ASSUME NEW c \in todo, DropOldest(c), chan[c] # <<>>
      PROVE  /\ ChannelInv' /\ dropCount' = dropCount + 1
             /\ \E x \in Subscribers : /\ Lost(x)' = Lost(x) + 1
                                       /\ \A y \in Subscribers \ {x} : Lost(y)' = Lost(y)
  <2>1. c \in Subscribers
    BY DEF ChannelInv, ChannelTypes
  <2> QED
    BY <1>6, <2>1, DropStep
<1>7. ASSUME NEW c \in Clients, Subscribe(c) \/ Unsubscribe(c) \/ Receive(c)
      PROVE  ChannelInv' /\ LostOf' = LostOf /\ dropCount' = dropCount
  <2>1. c \in Subscribers
    BY DEF Subscribers
  <2>2. CASE Subscribe(c)
    BY <2>1, <2>2, SubscribeStep DEF Subscribe
  <2>3. CASE Unsubscribe(c)
    BY <2>1, <2>3, <1>2 DEF Unsubscribe
  <2>4. CASE Receive(c)
    BY <2>1, <2>4, TakeStep DEF Receive
  <2> QED
    BY <1>7, <2>2, <2>3, <2>4
<1>8. Api \in Subscribers
  BY DEF Subscribers
<1>9. CASE Broadcasting
  <2>1. CASE BroadcastStart
    BY <1>8, <2>1, SubscribeStep DEF BroadcastStart
  <2>2. CASE BroadcastUpdate
    BY <1>8, <2>2, TakeStep DEF BroadcastUpdate
  <2>3. CASE BroadcastEnds
    BY <1>2, <1>8, <2>3 DEF BroadcastEnds
  <2>4. CASE BroadcastWritten \/ \E k \in toWrite : BroadcastWrite(k)
    BY <1>1, <2>4 DEF BroadcastWritten, BroadcastWrite
  <2> QED
    BY <1>9, <2>1, <2>2, <2>3, <2>4 DEF Broadcasting
<1>10. CASE Notify
  BY <1>10, NotifyStep
<1>11. CASE Notifying
  BY <1>4, <1>5, <1>6, <1>11, DropNothingStep DEF Notifying
<1>12. CASE \/ PingTick \/ Pinging \/ StopConns \/ CloseStopChan
            \/ \E k \in Conns : Connect(k) \/ ReadLoopEnds(k)
  <2>1. UNCHANGED oracleVars
    BY <1>12 DEF PingTick, Pinging, Ping, PingDone, Connect, ReadLoopEnds,
                 StopConns, CloseStopChan
  <2> QED
    BY <1>1, <2>1
<1>13. CASE UNCHANGED vars
  BY <1>1, <1>13 DEF vars
<1> QED
  BY <1>3, <1>7, <1>9, <1>10, <1>11, <1>12, <1>13 DEF Next

\* The API's tables: a finished handler's connection never comes back, and the
\* copies the broadcaster and pingLoop work on never put one in.
LEMMA ApiStep ==
    ASSUME ApiTypes, NoStaleConns, [Next]_vars
    PROVE  ApiTypes' /\ NoStaleConns'
<1> USE DEF ApiTypes, NoStaleConns, connVars, casterVars, pingVars
<1>1. ASSUME NEW c \in Clients, Subscribe(c) \/ Unsubscribe(c) \/ Receive(c)
      PROVE  ApiTypes' /\ NoStaleConns'
  BY <1>1 DEF Subscribe, Unsubscribe, Receive
<1>2. CASE StopOracle \/ Notify
  BY <1>2 DEF StopOracle, Notify
<1>3. CASE Notifying
  BY <1>3 DEF Notifying, Send, DropOldest, SendAgain
<1>4. CASE BroadcastStart \/ BroadcastUpdate \/ BroadcastEnds
  BY <1>4 DEF BroadcastStart, BroadcastUpdate, BroadcastEnds
<1>5. CASE BroadcastWritten
  BY <1>5 DEF BroadcastWritten, RemoveConns
<1>6. ASSUME NEW k \in toWrite, BroadcastWrite(k) PROVE ApiTypes' /\ NoStaleConns'
  BY <1>6 DEF BroadcastWrite
<1>7. CASE PingTick
  BY <1>7 DEF PingTick
<1>8. ASSUME NEW k \in toPing, Ping(k) PROVE ApiTypes' /\ NoStaleConns'
  BY <1>8 DEF Ping
<1>9. CASE PingDone
  BY <1>9 DEF PingDone, RemoveConns
<1>10. ASSUME NEW k \in Conns, Connect(k) PROVE ApiTypes' /\ NoStaleConns'
  BY <1>10 DEF Connect
<1>11. ASSUME NEW k \in Conns, ReadLoopEnds(k) PROVE ApiTypes' /\ NoStaleConns'
  BY <1>11 DEF ReadLoopEnds, Connected
<1>12. CASE StopConns \/ CloseStopChan
  BY <1>12 DEF StopConns, CloseStopChan
<1>13. CASE UNCHANGED vars
  BY <1>13 DEF vars
<1> QED
  BY <1>1, <1>2, <1>3, <1>4, <1>5, <1>6, <1>7, <1>8, <1>9, <1>10, <1>11, <1>12,
     <1>13 DEF Next, Broadcasting, Pinging

\* The count of drops follows what the subscribers lose.
LEMMA StreamStep ==
    ASSUME StreamInv, [Next]_vars
    PROVE  StreamInv'
<1>1. ChannelInv /\ ApiTypes /\ NoStaleConns /\ dropCount = SumFunction(LostOf)
  BY DEF StreamInv
<1>2. ChannelInv' /\ ApiTypes' /\ NoStaleConns'
  BY <1>1, ChannelStep, ApiStep
<1>3. dropCount' = SumFunction(LostOf')
  <2>1. CASE LostOf' = LostOf /\ dropCount' = dropCount
    BY <1>1, <2>1
  <2>2. ASSUME dropCount' = dropCount + 1, NEW c \in Subscribers,
               Lost(c)' = Lost(c) + 1,
               \A x \in Subscribers \ {c} : Lost(x)' = Lost(x)
        PROVE  dropCount' = SumFunction(LostOf')
    <3>1. IsFiniteSet(Subscribers)
      BY ClientsAssumption, FS_AddElement DEF Subscribers
    <3>2. LostOf \in [Subscribers -> Nat]
      BY <1>1, LostType
    <3>3. LostOf' \in [Subscribers -> Nat]
      <4>1. ChannelInv' => (LostOf \in [Subscribers -> Nat])'
        BY LostType, PTL
      <4> QED
        BY <1>2, <4>1
    <3>4. LostOf'[c] = LostOf[c] + 1 /\ \A x \in Subscribers \ {c} : LostOf'[x] = LostOf[x]
      BY <2>2 DEF LostOf
    <3>5. SumFunction(LostOf') = SumFunction(LostOf) + 1
      <4> DEFINE f == LostOf
                 h == LostOf'
      <4>1. f \in [Subscribers -> Nat] /\ h \in [Subscribers -> Nat]
            /\ h[c] = f[c] + 1 /\ \A x \in Subscribers \ {c} : h[x] = f[x]
        BY <3>2, <3>3, <3>4
      <4> HIDE DEF f, h
      <4>2. SumFunction(h) = SumFunction(f) + 1
        BY <3>1, <4>1, SumChanges
      <4> QED
        BY <4>2 DEF f, h
    <3> QED
      BY <1>1, <2>2, <3>5
  <2> QED
    BY <1>1, <2>1, <2>2, ChannelStep
<1> QED
  BY <1>2, <1>3 DEF StreamInv

\* The price subscribers keep their invariant.
THEOREM StreamCorrect == Spec => []StreamInv
<1>1. StreamInv /\ [Next]_vars => StreamInv'
  BY StreamStep
<1> QED
  BY InitInv, <1>1, PTL DEF Spec

\* Every variable keeps its type; a channel never holds more than BufferSize
\* updates, whatever the consumers do while it is full.
THEOREM TypeCorrect == Spec => []TypeOK
<1>1. StreamInv => TypeOK
  BY DEF StreamInv, ChannelInv, ChannelTypes, ApiTypes, TypeOK
<1> QED
  BY <1>1, StreamCorrect, PTL

\* notifySubscribers never sends on a closed channel.
THEOREM NeverSendsOnClosed == Spec => []NoSendOnClosed
<1>1. StreamInv => NoSendOnClosed
  BY DEF StreamInv, ChannelInv, Lifecycle, NoSendOnClosed
<1> QED
  BY <1>1, StreamCorrect, PTL

\* After a notification every subscriber has, or has received, its update.
THEOREM NewestSurvives == Spec => []NewestIsKept
<1>1. StreamInv => NewestIsKept
  <2> SUFFICES ASSUME StreamInv, Unlocked, NEW c \in subscribers
               PROVE  IF chan[c] = <<>> THEN last[c] = update
                      ELSE chan[c][Len(chan[c])] = update
    BY DEF NewestIsKept
  <2>1. c \in Subscribers /\ full = {} /\ todo = {}
    BY DEF StreamInv, ChannelInv, ChannelTypes, Unlocked
  <2>2. ChannelOK(c) /\ Newest(c) = update
    BY <2>1 DEF StreamInv, ChannelInv, Newest
  <2> QED
    BY <2>1, <2>2 DEF ChannelOK
<1> QED
  BY <1>1, StreamCorrect, PTL

\* DroppedNotifications is the number of updates the subscribers never receive.
THEOREM DropsCounted == Spec => []DropsAreCounted
<1>1. StreamInv => DropsAreCounted
  <2> SUFFICES ASSUME StreamInv, Unlocked
               PROVE  dropCount = SumFunction([c \in Subscribers |-> Missing(c)])
    BY DEF DropsAreCounted
  <2>1. full = {} /\ todo = {}
    BY DEF StreamInv, ChannelInv, ChannelTypes, Unlocked
  <2>2. ASSUME NEW c \in Subscribers PROVE Lost(c) = Missing(c)
    <3>1. /\ update \in Nat /\ last[c] \in Nat /\ chan[c] \in Seq(1..update)
          /\ ChannelOK(c) /\ Newest(c) = update
      BY <2>1 DEF StreamInv, ChannelInv, ChannelTypes, Newest
    <3>2. CASE chan[c] # <<>>
      <4>1. Head(chan[c]) = chan[c][1]
        BY <3>1, <3>2, TailFacts
      <4> QED
        BY <3>2, <4>1 DEF Lost, Missing
    <3>3. CASE chan[c] = <<>>
      <4>1. c \in subscribers => Newest(c) - last[c] = 0
        BY <2>1, <3>1, <3>3 DEF ChannelOK
      <4> QED
        BY <3>3, <4>1 DEF Lost, Missing
    <3> QED
      BY <3>2, <3>3
  <2>3. LostOf = [c \in Subscribers |-> Missing(c)]
    BY <2>2 DEF LostOf
  <2> QED
    BY <2>3 DEF StreamInv
<1> QED
  BY <1>1, StreamCorrect, PTL

\* A connection whose handler returned is not in the API's table.
THEOREM ConnsNeverStale == Spec => []NoStaleConns
<1>1. StreamInv => NoStaleConns
  BY DEF StreamInv
<1> QED
  BY <1>1, StreamCorrect, PTL
=============================================================================
