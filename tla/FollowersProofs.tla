-------------------------- MODULE FollowersProofs --------------------------
(***************************************************************************)
(* The followers of the chain, for any tree of blocks, any transactions    *)
(* that obey the ledger's rules, any number of peers, sizes of the recent  *)
(* blocks and of the channels, and any number of reorgs, crashes, failed   *)
(* writes and connections.                                                 *)
(***************************************************************************)
EXTENDS Followers, SequenceTheorems, NaturalsInduction, WellFoundedInduction,
        TLAPS

-----------------------------------------------------------------------------
(* Chains                                                                  *)

Points == Blocks \cup {Genesis}

\* The block before the i-th one of a chain, and what a chain is.
BeforeIn(c, i) == IF i = 1 THEN Genesis ELSE c[i - 1]
IsPath(c) ==
    c \in Seq(Blocks) /\ \A i \in 1..Len(c) : Parent[c[i]] = BeforeIn(c, i)

\* Point b is x or before it.
Anc(b, x) == b = Genesis \/ b \in ToSet(Path(x))

\* Blocks r are the last ones of chain c.
IsTail(r, c) ==
    /\ Len(r) <= Len(c)
    /\ \A i \in 1..Len(r) : r[i] = c[Len(c) - Len(r) + i]

\* A set of naturals has a least element: induction without a predicate.
LEMMA LeastNatural ==
    ASSUME NEW T \in SUBSET Nat, T # {}
    PROVE  \E x \in T : \A y \in T : ~(y < x)
<1>1. IsWellFoundedOn(OpToRel(<, Nat), Nat)
  BY NatLessThanWellFounded
<1>2. \E x \in T : \A y \in T : ~(<<y, x>> \in OpToRel(<, Nat))
  BY <1>1, WFMin
<1>3. \A x, y \in Nat : <<x, y>> \in OpToRel(<, Nat) <=> x < y
  BY DEF OpToRel
<1> QED
  BY <1>2, <1>3

\* Slots are numbers and grow along the tree.
LEMMA PointSlots ==
    /\ \A b \in Points : SlotOf(b) \in Nat
    /\ \A b \in Blocks : /\ Parent[b] \in Points /\ b # Genesis /\ b # None
                         /\ SlotOf(Parent[b]) < SlotOf(b) /\ 0 < SlotOf(b)
    /\ SlotOf(Genesis) = 0
<1>1. \A b \in Points : SlotOf(b) \in Nat
  BY TreeAssumption DEF Points, SlotOf
<1>2. \A b \in Blocks : /\ Parent[b] \in Points /\ b # Genesis /\ b # None
                         /\ SlotOf(Parent[b]) < SlotOf(b)
  BY TreeAssumption DEF Points
<1>3. SlotOf(Genesis) = 0
  BY DEF SlotOf
<1> QED
  BY <1>1, <1>2, <1>3 DEF Points

\* The newest block of a chain.
LEMMA NewestOf ==
    ASSUME NEW c \in Seq(Blocks)
    PROVE  /\ Newest(c) \in Points /\ Len(c) \in Nat
           /\ c = <<>> <=> Len(c) = 0
           /\ c = <<>> <=> Newest(c) = Genesis
           /\ c # <<>> => /\ Newest(c) = c[Len(c)] /\ Newest(c) \in Blocks
                          /\ Newest(c) \in ToSet(c) /\ Len(c) >= 1
<1>1. Len(c) \in Nat /\ (c = <<>> <=> Len(c) = 0) /\ DOMAIN c = 1..Len(c)
  BY EmptySeq, LenProperties
<1>2. \A i \in 1..Len(c) : c[i] \in Blocks
  BY ElementOfSeq
<1>3. ASSUME c # <<>> PROVE /\ Newest(c) = c[Len(c)] /\ Newest(c) \in Blocks
                            /\ Newest(c) \in ToSet(c) /\ Len(c) >= 1
  BY <1>1, <1>2, <1>3 DEF Newest, ToSet
<1>4. Genesis \notin Blocks
  BY TreeAssumption
<1> QED
  BY <1>1, <1>3, <1>4 DEF Newest, Points

\* A chain grows by a block whose parent is its newest one.
LEMMA AppendPath ==
    ASSUME NEW c, IsPath(c), NEW b \in Blocks, Parent[b] = Newest(c)
    PROVE  IsPath(Append(c, b)) /\ Newest(Append(c, b)) = b
<1> DEFINE d == Append(c, b)
<1>1. c \in Seq(Blocks) /\ Len(c) \in Nat
  BY LenProperties DEF IsPath
<1>2. /\ d \in Seq(Blocks) /\ Len(d) = Len(c) + 1 /\ d # <<>>
      /\ \A i \in 1..Len(c) : d[i] = c[i]
      /\ d[Len(c) + 1] = b
  BY <1>1, AppendProperties
<1> HIDE DEF d
<1>3. ASSUME NEW i \in 1..Len(d) PROVE Parent[d[i]] = BeforeIn(d, i)
  <2>1. CASE i = Len(d)
    BY <1>1, <1>2, <2>1, NewestOf DEF BeforeIn, Newest
  <2>2. CASE i # Len(d)
    <3>1. i \in 1..Len(c) /\ (i # 1 => i - 1 \in 1..Len(c))
      BY <1>1, <1>2, <2>2
    <3> QED
      BY <1>2, <3>1 DEF IsPath, BeforeIn
  <2> QED
    BY <2>1, <2>2
<1> QED
  BY <1>1, <1>2, <1>3 DEF IsPath, Newest, d

\* The first blocks of a chain.
LEMMA PrefixPath ==
    ASSUME NEW c, IsPath(c), NEW k \in 0..Len(c)
    PROVE  /\ IsPath(SubSeq(c, 1, k)) /\ Len(SubSeq(c, 1, k)) = k
           /\ \A i \in 1..k : SubSeq(c, 1, k)[i] = c[i]
           /\ Newest(SubSeq(c, 1, k)) = IF k = 0 THEN Genesis ELSE c[k]
<1> DEFINE d == SubSeq(c, 1, k)
<1>1. c \in Seq(Blocks) /\ Len(c) \in Nat
  BY LenProperties DEF IsPath
<1>2. d \in Seq(Blocks) /\ Len(d) = k /\ \A i \in 1..k : d[i] = c[i]
  BY <1>1, SubSeqProperties
<1> HIDE DEF d
<1>3. ASSUME NEW i \in 1..Len(d) PROVE Parent[d[i]] = BeforeIn(d, i)
  <2>1. i \in 1..Len(c) /\ i \in 1..k /\ (i # 1 => i - 1 \in 1..k)
    BY <1>1, <1>2
  <2> QED
    BY <1>2, <2>1 DEF IsPath, BeforeIn
<1>4. Newest(d) = IF k = 0 THEN Genesis ELSE c[k]
  BY <1>1, <1>2, NewestOf
<1> QED
  BY <1>2, <1>3, <1>4 DEF IsPath, d

\* A chain is the chain of the parent of its newest block, and that block.
LEMMA SplitPath ==
    ASSUME NEW c, IsPath(c), c # <<>>
    PROVE  LET d == SubSeq(c, 1, Len(c) - 1)
           IN  /\ IsPath(d) /\ Newest(d) = Parent[Newest(c)]
               /\ c = Append(d, Newest(c))
<1> DEFINE d == SubSeq(c, 1, Len(c) - 1)
<1>1. c \in Seq(Blocks) /\ Len(c) \in Nat /\ Len(c) >= 1 /\ Newest(c) = c[Len(c)]
  BY NewestOf DEF IsPath
<1>2. /\ IsPath(d) /\ Len(d) = Len(c) - 1
      /\ \A i \in 1..(Len(c) - 1) : d[i] = c[i]
      /\ Newest(d) = IF Len(c) = 1 THEN Genesis ELSE c[Len(c) - 1]
  <2>1. \A k \in 0..Len(c) :
           /\ IsPath(SubSeq(c, 1, k)) /\ Len(SubSeq(c, 1, k)) = k
           /\ \A i \in 1..k : SubSeq(c, 1, k)[i] = c[i]
           /\ Newest(SubSeq(c, 1, k)) = IF k = 0 THEN Genesis ELSE c[k]
    BY PrefixPath
  <2>2. Len(c) - 1 \in 0..Len(c) /\ (Len(c) - 1 = 0 <=> Len(c) = 1)
    BY <1>1
  <2> QED
    BY <2>1, <2>2
<1> HIDE DEF d
<1>3. Newest(d) = Parent[Newest(c)]
  BY <1>1, <1>2 DEF IsPath, BeforeIn
<1>4. /\ Append(d, Newest(c)) \in Seq(Blocks) /\ Len(Append(d, Newest(c))) = Len(d) + 1
      /\ \A i \in 1..Len(d) : Append(d, Newest(c))[i] = d[i]
      /\ Append(d, Newest(c))[Len(d) + 1] = Newest(c)
  BY <1>1, <1>2, AppendProperties, NewestOf DEF IsPath
<1>5. c = Append(d, Newest(c))
  <2>1. \A i \in 1..Len(c) : c[i] = Append(d, Newest(c))[i]
    BY <1>1, <1>2, <1>4
  <2> QED
    BY <1>1, <1>2, <1>4, <2>1, SeqEqual
<1> QED
  BY <1>2, <1>3, <1>5 DEF d

\* Only one chain ends with a block.
LEMMA PathUnique ==
    ASSUME NEW c, NEW d, IsPath(c), IsPath(d), Newest(c) = Newest(d)
    PROVE  c = d
<1> DEFINE Bad == {n \in Nat : \E e, f \in Seq(Blocks) :
                     /\ IsPath(e) /\ IsPath(f) /\ Newest(e) = Newest(f)
                     /\ e # f /\ n = SlotOf(Newest(e))}
<1> SUFFICES ASSUME c # d PROVE FALSE
  OBVIOUS
<1>1. SlotOf(Newest(c)) \in Bad
  BY NewestOf, PointSlots DEF IsPath
<1>2. PICK n \in Bad : \A m \in Bad : ~(m < n)
  <2>1. Bad \in SUBSET Nat /\ Bad # {}
    BY <1>1
  <2> HIDE DEF Bad
  <2> QED
    BY <2>1, LeastNatural
<1>3. PICK e \in Seq(Blocks), f \in Seq(Blocks) :
        /\ IsPath(e) /\ IsPath(f) /\ Newest(e) = Newest(f)
        /\ e # f /\ n = SlotOf(Newest(e))
  BY <1>2
<1>4. e # <<>> /\ f # <<>>
  BY <1>3, NewestOf
<1> DEFINE g == SubSeq(e, 1, Len(e) - 1)
           h == SubSeq(f, 1, Len(f) - 1)
<1>5. /\ IsPath(g) /\ Newest(g) = Parent[Newest(e)] /\ e = Append(g, Newest(e))
      /\ IsPath(h) /\ Newest(h) = Parent[Newest(f)] /\ f = Append(h, Newest(f))
  BY <1>3, <1>4, SplitPath
<1> HIDE DEF g, h
<1>6. g # h /\ Newest(g) = Newest(h) /\ g \in Seq(Blocks) /\ h \in Seq(Blocks)
  BY <1>3, <1>5 DEF IsPath
<1>7. SlotOf(Newest(g)) \in Nat /\ SlotOf(Newest(g)) < n
  BY <1>3, <1>4, <1>5, <1>6, NewestOf, PointSlots
<1>8. SlotOf(Newest(g)) \in Bad
  BY <1>5, <1>6, <1>7
<1> QED
  BY <1>2, <1>7, <1>8

\* Every block ends one.
LEMMA PathExists ==
    ASSUME NEW b \in Points
    PROVE  \E c \in Seq(Blocks) : IsPath(c) /\ Newest(c) = b
<1> DEFINE Bad == {n \in Nat : \E x \in Points :
                     n = SlotOf(x) /\ ~\E c \in Seq(Blocks) : IsPath(c) /\ Newest(c) = x}
<1> SUFFICES ASSUME ~\E c \in Seq(Blocks) : IsPath(c) /\ Newest(c) = b PROVE FALSE
  OBVIOUS
<1>1. SlotOf(b) \in Bad
  BY PointSlots
<1>2. PICK n \in Bad : \A m \in Bad : ~(m < n)
  <2>1. Bad \in SUBSET Nat /\ Bad # {}
    BY <1>1
  <2> HIDE DEF Bad
  <2> QED
    BY <2>1, LeastNatural
<1>3. PICK x \in Points :
        n = SlotOf(x) /\ ~\E c \in Seq(Blocks) : IsPath(c) /\ Newest(c) = x
  BY <1>2
<1>4. x # Genesis
  <2>1. <<>> \in Seq(Blocks) /\ IsPath(<<>>) /\ Newest(<<>>) = Genesis
    BY DEF IsPath, Newest
  <2> QED
    BY <1>3, <2>1
<1>5. x \in Blocks /\ Parent[x] \in Points
  BY <1>4, PointSlots DEF Points
<1>6. SlotOf(Parent[x]) < n /\ SlotOf(Parent[x]) \in Nat
  BY <1>3, <1>5, PointSlots
<1>7. SlotOf(Parent[x]) \notin Bad
  BY <1>2, <1>6
<1>8. PICK c \in Seq(Blocks) : IsPath(c) /\ Newest(c) = Parent[x]
  BY <1>5, <1>6, <1>7
<1>9. IsPath(Append(c, x)) /\ Newest(Append(c, x)) = x /\ Append(c, x) \in Seq(Blocks)
  BY <1>5, <1>8, AppendPath DEF IsPath
<1> QED
  BY <1>3, <1>9

\* Path(b) is that chain.
LEMMA PathOf ==
    ASSUME NEW b \in Points
    PROVE  IsPath(Path(b)) /\ Newest(Path(b)) = b
<1> DEFINE f == [x \in Blocks |-> CHOOSE c \in Seq(Blocks) : IsPath(c) /\ Newest(c) = x]
           F(g) == [x \in Blocks |-> IF Parent[x] = Genesis THEN <<x>>
                                     ELSE Append(g[Parent[x]], x)]
<1>1. ASSUME NEW x \in Blocks
      PROVE  f[x] \in Seq(Blocks) /\ IsPath(f[x]) /\ Newest(f[x]) = x
  <2>1. \E c \in Seq(Blocks) : IsPath(c) /\ Newest(c) = x
    BY PathExists DEF Points
  <2> QED
    BY <2>1
<1>2. IsPath(<<>>) /\ Newest(<<>>) = Genesis
  BY DEF IsPath, Newest
<1>3. f = F(f)
  <2>1. ASSUME NEW x \in Blocks PROVE f[x] = F(f)[x]
    <3> HIDE DEF f
    <3>1. CASE Parent[x] = Genesis
      <4>1. IsPath(Append(<<>>, x)) /\ Newest(Append(<<>>, x)) = x
        BY <1>2, <3>1, AppendPath
      <4>2. Append(<<>>, x) = <<x>>
        OBVIOUS
      <4> QED
        BY <1>1, <3>1, <4>1, <4>2, PathUnique
    <3>2. CASE Parent[x] # Genesis
      <4>1. Parent[x] \in Blocks
        BY <3>2, PointSlots DEF Points
      <4>2. IsPath(Append(f[Parent[x]], x)) /\ Newest(Append(f[Parent[x]], x)) = x
        BY <1>1, <4>1, AppendPath
      <4> QED
        BY <1>1, <3>2, <4>2, PathUnique
    <3> QED
      BY <3>1, <3>2
  <2> QED
    BY <2>1
<1>4. PathTo = F(PathTo)
  <2>1. PathTo = CHOOSE g : g = F(g)
    BY DEF PathTo
  <2> HIDE DEF f, F
  <2> QED
    BY <1>3, <2>1
<1>5. \A x \in Blocks : PathTo[x] = IF Parent[x] = Genesis THEN <<x>>
                                    ELSE Append(PathTo[Parent[x]], x)
  BY <1>4
<1> HIDE DEF f, F
<1> DEFINE Bad == {n \in Nat : \E x \in Points :
                     n = SlotOf(x) /\ ~(IsPath(Path(x)) /\ Newest(Path(x)) = x)}
<1> SUFFICES ASSUME ~(IsPath(Path(b)) /\ Newest(Path(b)) = b) PROVE FALSE
  OBVIOUS
<1>6. SlotOf(b) \in Bad
  BY PointSlots
<1>7. PICK n \in Bad : \A m \in Bad : ~(m < n)
  <2>1. Bad \in SUBSET Nat /\ Bad # {}
    BY <1>6
  <2> HIDE DEF Bad
  <2> QED
    BY <2>1, LeastNatural
<1>8. PICK x \in Points : n = SlotOf(x) /\ ~(IsPath(Path(x)) /\ Newest(Path(x)) = x)
  BY <1>7
<1>9. x # Genesis
  BY <1>2, <1>8 DEF Path
<1>10. x \in Blocks /\ Parent[x] \in Points
  BY <1>9, PointSlots DEF Points
<1>11. SlotOf(Parent[x]) < n /\ SlotOf(Parent[x]) \in Nat
  BY <1>8, <1>10, PointSlots
<1>12. IsPath(Path(Parent[x])) /\ Newest(Path(Parent[x])) = Parent[x]
  <2>1. SlotOf(Parent[x]) \notin Bad
    BY <1>7, <1>11
  <2> QED
    BY <2>1, <1>10, <1>11
<1>13. Path(x) = Append(Path(Parent[x]), x)
  <2>1. Append(<<>>, x) = <<x>>
    OBVIOUS
  <2> QED
    BY <1>5, <1>10, <2>1, TreeAssumption DEF Path
<1>14. IsPath(Append(Path(Parent[x]), x)) /\ Newest(Append(Path(Parent[x]), x)) = x
  BY <1>10, <1>12, AppendPath
<1> QED
  BY <1>8, <1>13, <1>14

\* A chain is the one of its newest block.
LEMMA PathOfNewest ==
    ASSUME NEW c, IsPath(c)
    PROVE  Path(Newest(c)) = c
<1>1. Newest(c) \in Points
  BY NewestOf DEF IsPath
<1> QED
  BY <1>1, PathOf, PathUnique

\* The chain of a block is that of its parent, and the block.
LEMMA PathOfChild ==
    ASSUME NEW b \in Blocks
    PROVE  Path(b) = Append(Path(Parent[b]), b)
<1>1. b \in Points /\ Parent[b] \in Points
  BY PointSlots DEF Points
<1>2. IsPath(Append(Path(Parent[b]), b)) /\ Newest(Append(Path(Parent[b]), b)) = b
  BY <1>1, PathOf, AppendPath
<1> QED
  BY <1>1, <1>2, PathOf, PathUnique

\* Slots grow along a chain.
LEMMA PathSlots ==
    ASSUME NEW c, IsPath(c)
    PROVE  \A i, j \in 1..Len(c) : i < j => SlotOf(c[i]) < SlotOf(c[j])
<1> DEFINE Bad == {j \in 1..Len(c) : \E i \in 1..(j - 1) :
                     ~(SlotOf(c[i]) < SlotOf(c[j]))}
<1>1. c \in Seq(Blocks) /\ Len(c) \in Nat /\ \A i \in 1..Len(c) : c[i] \in Blocks
  BY LenProperties, ElementOfSeq DEF IsPath
<1> SUFFICES ASSUME Bad # {} PROVE FALSE
  BY <1>1
<1>2. PICK j \in Bad : \A m \in Bad : ~(m < j)
  <2>1. Bad \in SUBSET Nat /\ Bad # {}
    BY <1>1
  <2> HIDE DEF Bad
  <2> QED
    BY <2>1, LeastNatural
<1>3. PICK i \in 1..(j - 1) : ~(SlotOf(c[i]) < SlotOf(c[j]))
  BY <1>2
<1>4. /\ j \in Nat /\ i \in Nat /\ j > 1 /\ j - 1 \in 1..Len(c) /\ i <= j - 1
      /\ j \in 1..Len(c) /\ i \in 1..Len(c)
  BY <1>1, <1>2, <1>3
<1>5. Parent[c[j]] = c[j - 1]
  BY <1>4 DEF IsPath, BeforeIn
<1>6. /\ SlotOf(c[j - 1]) < SlotOf(c[j])
      /\ SlotOf(c[j - 1]) \in Nat /\ SlotOf(c[j]) \in Nat /\ SlotOf(c[i]) \in Nat
  <2>1. c[j] \in Blocks /\ c[j - 1] \in Blocks /\ c[i] \in Blocks
    BY <1>1, <1>4
  <2> QED
    BY <1>5, <2>1, PointSlots DEF Points
<1>7. CASE i = j - 1
  BY <1>3, <1>6, <1>7
<1>8. CASE i # j - 1
  <2>1. j - 1 \notin Bad /\ i \in 1..((j - 1) - 1)
    BY <1>2, <1>4, <1>8
  <2>2. SlotOf(c[i]) < SlotOf(c[j - 1])
    BY <1>4, <2>1
  <2> QED
    BY <1>3, <1>6, <2>2
<1> QED
  BY <1>7, <1>8

\* What a rollback leaves of some blocks.
LEMMA UpToPrefix ==
    ASSUME NEW c \in Seq(Blocks), NEW n \in Nat
    PROVE  \E k \in 0..Len(c) :
              /\ UpTo(n, c) = SubSeq(c, 1, k)
              /\ \A i \in 1..k : SlotOf(c[i]) <= n
              /\ k < Len(c) => SlotOf(c[k + 1]) > n
<1> DEFINE newer == {i \in 1..Len(c) : SlotOf(c[i]) > n}
<1>1. Len(c) \in Nat /\ \A i \in 1..Len(c) : SlotOf(c[i]) \in Nat
  BY LenProperties, ElementOfSeq, PointSlots DEF Points
<1>2. CASE newer = {}
  <2>1. UpTo(n, c) = c
    BY <1>2 DEF UpTo
  <2>2. c = SubSeq(c, 1, Len(c))
    BY SubSeqFull
  <2>3. \A i \in 1..Len(c) : SlotOf(c[i]) <= n
    BY <1>1, <1>2
  <2>4. Len(c) \in 0..Len(c) /\ ~(Len(c) < Len(c))
    BY <1>1
  <2> QED
    BY <2>1, <2>2, <2>3, <2>4
<1>3. CASE newer # {}
  <2>1. newer \in SUBSET Nat
    BY <1>1
  <2>2. PICK x \in newer : \A y \in newer : ~(y < x)
    <3> HIDE DEF newer
    <3> QED
      BY <1>3, <2>1, LeastNatural
  <2> DEFINE m == Min(newer)
  <2>3. m \in newer /\ \A y \in newer : m <= y
    <3>1. x \in newer /\ \A y \in newer : x <= y
      BY <2>1, <2>2
    <3> HIDE DEF newer
    <3> QED
      BY <3>1 DEF Min
  <2>4. UpTo(n, c) = SubSeq(c, 1, m - 1)
    BY <1>3 DEF UpTo
  <2> HIDE DEF m
  <2>5. m \in 1..Len(c) /\ m - 1 \in 0..Len(c) /\ SlotOf(c[(m - 1) + 1]) > n
    BY <1>1, <2>3
  <2>6. \A i \in 1..(m - 1) : SlotOf(c[i]) <= n
    <3> SUFFICES ASSUME NEW i \in 1..(m - 1) PROVE SlotOf(c[i]) <= n
      OBVIOUS
    <3>1. i \in 1..Len(c) /\ ~(m <= i)
      BY <1>1, <2>5
    <3>2. i \notin newer
      BY <2>3, <3>1
    <3> QED
      BY <1>1, <3>1, <3>2
  <2> QED
    BY <2>4, <2>5, <2>6
<1> QED
  BY <1>2, <1>3

\* Being on a chain, by position.
LEMMA AncAt ==
    ASSUME NEW x \in Points, NEW b
    PROVE  Anc(b, x) <=> b = Genesis \/ \E i \in 1..Len(Path(x)) : b = Path(x)[i]
<1>1. Path(x) \in Seq(Blocks)
  BY PathOf DEF IsPath
<1>2. DOMAIN Path(x) = 1..Len(Path(x))
  BY <1>1, LenProperties
<1> QED
  BY <1>2 DEF Anc, ToSet

\* The blocks of a chain are those on the way to its newest one.
LEMMA AncOnPath ==
    ASSUME NEW c, IsPath(c), NEW b
    PROVE  /\ Newest(c) \in Points
           /\ Anc(b, Newest(c)) <=> b = Genesis \/ b \in ToSet(c)
BY PathOfNewest, NewestOf DEF IsPath, Anc

\* A block is on the chain to x as its newest one or before its parent.
LEMMA AncChild ==
    ASSUME NEW x \in Blocks, NEW b
    PROVE  Anc(b, x) <=> b = x \/ Anc(b, Parent[x])
<1>1. x \in Points /\ Parent[x] \in Points
  BY PointSlots DEF Points
<1> DEFINE c == Path(Parent[x])
<1>2. c \in Seq(Blocks) /\ Len(c) \in Nat
  BY <1>1, PathOf, LenProperties DEF IsPath
<1>3. Path(x) = Append(c, x)
  BY PathOfChild
<1>4. /\ Len(Append(c, x)) = Len(c) + 1
      /\ \A i \in 1..Len(c) : Append(c, x)[i] = c[i]
      /\ Append(c, x)[Len(c) + 1] = x
  <2> HIDE DEF c
  <2> QED
    BY <1>2, AppendProperties
<1>5. Anc(b, x) <=> b = Genesis \/ \E i \in 1..Len(Append(c, x)) : b = Append(c, x)[i]
  BY <1>1, <1>3, AncAt
<1>6. Anc(b, Parent[x]) <=> b = Genesis \/ \E i \in 1..Len(c) : b = c[i]
  BY <1>1, AncAt
<1> HIDE DEF c
<1> QED
  BY <1>2, <1>4, <1>5, <1>6

\* Slots tell the blocks of one chain apart.
LEMMA AncSlots ==
    ASSUME NEW x \in Points, NEW b, Anc(b, x)
    PROVE  /\ b \in Points /\ SlotOf(b) \in Nat /\ SlotOf(x) \in Nat
           /\ SlotOf(b) <= SlotOf(x)
           /\ b # x => SlotOf(b) < SlotOf(x)
<1> DEFINE c == Path(x)
<1>1. IsPath(c) /\ Newest(c) = x
  BY PathOf
<1>2. c \in Seq(Blocks) /\ Len(c) \in Nat /\ \A i \in 1..Len(c) : c[i] \in Blocks
  BY <1>1, LenProperties, ElementOfSeq DEF IsPath
<1>3. b = Genesis \/ \E i \in 1..Len(c) : b = c[i]
  BY AncAt
<1>4. b \in Points /\ SlotOf(b) \in Nat /\ SlotOf(x) \in Nat
  BY <1>2, <1>3, PointSlots DEF Points
<1>5. CASE b = Genesis
  <2>1. SlotOf(b) = 0 /\ (x # Genesis => 0 < SlotOf(x))
    BY <1>5, PointSlots DEF Points
  <2> QED
    BY <1>4, <1>5, <2>1
<1>6. CASE b # Genesis
  <2>1. PICK i \in 1..Len(c) : b = c[i]
    BY <1>3, <1>6
  <2>2. x = c[Len(c)] /\ Len(c) \in 1..Len(c)
    <3> HIDE DEF c
    <3>1. Len(c) # 0
      BY <1>2, <2>1
    <3> QED
      BY <1>1, <1>2, <3>1, NewestOf
  <2>3. i < Len(c) => SlotOf(c[i]) < SlotOf(c[Len(c)])
    <3> HIDE DEF c
    <3> QED
      BY <1>1, <2>1, <2>2, PathSlots
  <2> HIDE DEF c
  <2>4. i = Len(c) \/ i < Len(c)
    BY <1>2, <2>1
  <2> QED
    BY <1>4, <2>1, <2>2, <2>3, <2>4
<1> QED
  BY <1>4, <1>5, <1>6

\* A point is on the chain to itself, and genesis on every chain.
LEMMA AncSelf ==
    ASSUME NEW x \in Points
    PROVE  Anc(x, x) /\ Anc(Genesis, x)
<1>1. CASE x = Genesis
  BY <1>1 DEF Anc
<1>2. CASE x # Genesis
  BY <1>2, AncChild DEF Points, Anc
<1> QED
  BY <1>1, <1>2

\* A rollback to a block of a chain leaves the chain that ends with it.
LEMMA UpToPath ==
    ASSUME NEW c, IsPath(c), NEW b, Anc(b, Newest(c))
    PROVE  /\ UpTo(SlotOf(b), c) = Path(b)
           /\ \E k \in 0..Len(c) : Path(b) = SubSeq(c, 1, k)
<1>1. c \in Seq(Blocks) /\ Len(c) \in Nat /\ \A i \in 1..Len(c) : c[i] \in Blocks
  BY LenProperties, ElementOfSeq DEF IsPath
<1>2. Newest(c) \in Points
  BY <1>1, NewestOf
<1>3. b \in Points /\ SlotOf(b) \in Nat
  BY <1>2, AncSlots
<1>4. \A i \in 1..Len(c) : SlotOf(c[i]) \in Nat /\ SlotOf(c[i]) > 0
  BY <1>1, PointSlots DEF Points
<1>5. PICK k \in 0..Len(c) :
              /\ UpTo(SlotOf(b), c) = SubSeq(c, 1, k)
              /\ \A i \in 1..k : SlotOf(c[i]) <= SlotOf(b)
              /\ k < Len(c) => SlotOf(c[k + 1]) > SlotOf(b)
  BY <1>1, <1>3, UpToPrefix
<1>6. PICK j \in 0..Len(c) : b = IF j = 0 THEN Genesis ELSE c[j]
  <2>1. b = Genesis \/ \E i \in 1..Len(c) : b = c[i]
    BY <1>2, AncAt, PathOfNewest
  <2> QED
    BY <1>1, <2>1
<1>7. j = k
  <2>1. CASE j < k
    <3>1. k \in 1..Len(c) /\ k \in 1..k
      BY <1>1, <2>1
    <3>2. SlotOf(c[k]) <= SlotOf(b)
      BY <1>5, <3>1
    <3>3. CASE j = 0
      BY <1>4, <1>6, <3>1, <3>2, <3>3, PointSlots
    <3>4. CASE j # 0
      <4>1. j \in 1..Len(c)
        BY <1>1, <3>4
      <4>2. SlotOf(c[j]) < SlotOf(c[k])
        BY <2>1, <3>1, <4>1, PathSlots
      <4> QED
        BY <1>3, <1>4, <1>6, <3>1, <3>2, <3>4, <4>2
    <3> QED
      BY <3>3, <3>4
  <2>2. CASE k < j
    <3>1. k + 1 \in 1..Len(c) /\ j \in 1..Len(c) /\ k < Len(c) /\ j # 0
      BY <1>1, <2>2
    <3>2. k + 1 = j \/ k + 1 < j
      BY <1>1, <2>2
    <3>3. k + 1 < j => SlotOf(c[k + 1]) < SlotOf(c[j])
      BY <3>1, PathSlots
    <3> QED
      BY <1>3, <1>4, <1>5, <1>6, <3>1, <3>2, <3>3
  <2> QED
    BY <1>1, <2>1, <2>2
<1>8. IsPath(SubSeq(c, 1, k)) /\ Newest(SubSeq(c, 1, k)) = b
  BY <1>6, <1>7, PrefixPath
<1>9. SubSeq(c, 1, k) = Path(b)
  BY <1>8, PathOfNewest
<1> QED
  BY <1>5, <1>9

\* A block of a chain that ends before x is before x.
LEMMA AncTrans ==
    ASSUME NEW x \in Points, NEW b, Anc(b, x), NEW a, Anc(a, b)
    PROVE  Anc(a, x)
<1>1. IsPath(Path(x)) /\ Newest(Path(x)) = x
  BY PathOf
<1>2. b \in Points
  BY AncSlots
<1>3. PICK k \in 0..Len(Path(x)) : Path(b) = SubSeq(Path(x), 1, k)
  BY <1>1, UpToPath
<1>4. /\ Len(SubSeq(Path(x), 1, k)) = k
      /\ \A i \in 1..k : SubSeq(Path(x), 1, k)[i] = Path(x)[i]
  BY <1>1, PrefixPath
<1>5. Len(Path(x)) \in Nat
  BY <1>1, LenProperties DEF IsPath
<1>6. a = Genesis \/ \E i \in 1..Len(Path(b)) : a = Path(b)[i]
  BY <1>2, AncAt
<1>7. a = Genesis \/ \E i \in 1..Len(Path(x)) : a = Path(x)[i]
  BY <1>3, <1>4, <1>5, <1>6
<1> QED
  BY <1>7, AncAt

-----------------------------------------------------------------------------
(* The inductive invariant: the pipeline                                   *)

TxEvent(b, i) == [type |-> "transaction", block |-> b, tx |-> TxsOf[b][i]]
BlockEvent(b) == [type |-> "block", block |-> b]

\* The transactions of a block after the n-th.
TxsFrom(b, n) == [i \in 1..(Len(TxsOf[b]) - n) |-> TxEvent(b, n + i)]

\* The queue has a rollback to the newest block, or that block and its
\* transactions from some one on.
RollbackQueued == queue = <<RollbackTo(Newest(followed))>>
TxsQueued(n) == queue = TxsFrom(Newest(followed), n)
BlockQueued == queue = BlockEvents(Newest(followed))

\* A message, as an item for a client: every one leads on from the one before.
Item == {it \in [rollback: BOOLEAN, block: Points] :
           ~it.rollback => it.block \in Blocks}

\* The last block of a client with chain v after n items of s; an item that
\* a client can apply at x.
TipOf(s, v, n) == IF n = 0 THEN Newest(v) ELSE s[n].block
Fits(x, item) ==
    IF item.rollback THEN Anc(item.block, x) ELSE Parent[item.block] = x

\* The first m items are blocks the client has, up to its newest one; then
\* every item fits the one before.
Flow(s, v, m) ==
    /\ \A j \in 1..m : ~s[j].rollback /\ s[j].block \in ToSet(v)
    /\ TipOf(s, v, m) = Newest(v)
    /\ \A j \in (m + 1)..Len(s) : Fits(TipOf(s, v, j - 1), s[j])

BacklogInv ==
    /\ backlog \in Seq(Item) /\ Flow(backlog, followed, 0)
    /\ ~up => backlog = <<>>

PipelineInv ==
    /\ BacklogInv
    /\ IsPath(followed) /\ cursor \in Points
    /\ stage \in {"node", "spectrum", "synthetics", "lending", "indexer"}
    /\ up \in BOOLEAN
    /\ ~up => queue = <<>> /\ followed = <<>>
    /\ queue = <<>> => stage = "node"
    /\ queue # <<>> =>
          \/ RollbackQueued
          \/ /\ followed # <<>>
             /\ BlockQueued \/ \E n \in 0..Len(TxsOf[Newest(followed)]) : TxsQueued(n)

-----------------------------------------------------------------------------
(* The inductive invariant: peers                                          *)

Sending == [item: Item, todo: (SUBSET subs) \ {{}}]

PeerTypes ==
    /\ recentBlocks \in Seq(Blocks) /\ Len(recentBlocks) <= MaxRecent
    /\ subs \subseteq Peers /\ conns \subseteq Peers
    /\ publishing = NotPublishing \/ publishing \in Sending
    /\ blockChan \in [Peers -> Seq(Item)]
    /\ intersection \in [Peers -> Points]
    /\ needsInitialRollback \subseteq Peers
    /\ found \in [Peers -> Blocks \cup {None}]
    /\ awaiting \subseteq conns \cap subs
    /\ view \in [Peers -> Seq(Blocks)]

\* Where the node's handler is on the chain: it has handled all that was
\* followed, or is about to handle the newest block, or a rollback to it.
NodePending(t) == up /\ queue # <<>> /\ stage = "node" /\ Event.type = t
NodePoints ==
    IF NodePending("block") THEN {Parent[Newest(followed)]}
    ELSE IF NodePending("rollback") THEN {x \in Points : Anc(Newest(followed), x)}
    ELSE {Newest(followed)}

\* The recent blocks end where the node is.
RecentInv ==
    recentBlocks # <<>> =>
        /\ IsTail(recentBlocks, Path(Newest(recentBlocks)))
        /\ Newest(recentBlocks) \in NodePoints

\* A client that has found an intersection and is not subscribed yet.
FoundInv ==
    \A p \in Peers : found[p] # None =>
        /\ p \notin subs
        /\ p \in conns => view[p] = Path(found[p])
        /\ p \notin deep \cup outrun => Continues(found[p])

ViewInv ==
    \A p \in Peers :
        /\ p \notin cutOff => IsPath(view[p])
        /\ p \notin conns => view[p] = <<>>
        /\ p \notin subs /\ found[p] = None => view[p] = <<>>

\* What is on its way to a subscriber.
Stream(p) ==
    IF p \in publishing.todo THEN Append(blockChan[p], publishing.item)
    ELSE blockChan[p]

\* All but the first m items are newer than the intersection.
Ahead(s, v, t, m) ==
    /\ SlotOf(t) <= SlotOf(Newest(v))
    /\ \A j \in (m + 1)..Len(s) : SlotOf(t) < SlotOf(s[j].block)

\* The last item takes the client where the node is; a client has not got
\* blocks that are older than its intersection yet to come after it moved on.
StreamOK(p, m) ==
    /\ Flow(Stream(p), view[p], m)
    /\ TipOf(Stream(p), view[p], Len(Stream(p))) \in NodePoints
    /\ p \notin deep => Ahead(Stream(p), view[p], intersection[p], m)
    /\ m > 0 \/ p \in needsInitialRollback =>
          Newest(view[p]) = intersection[p] /\ p \notin awaiting

StreamFine(p) == \E m \in 0..Len(blockChan[p]) : StreamOK(p, m)
StreamInv == \A p \in (conns \cap subs) \ cutOff : StreamFine(p)

DownInv ==
    ~up => /\ recentBlocks = <<>> /\ subs = {} /\ conns = {}
           /\ publishing = NotPublishing
           /\ \A p \in Peers : found[p] = None
LockInv == publishing # NotPublishing => queue # <<>> /\ stage = "spectrum"

PeerInv ==
    /\ PeerTypes
    /\ RecentInv /\ FoundInv /\ ViewInv /\ StreamInv
    /\ DownInv /\ LockInv
    /\ CutOffOnlyByDeepRollback

-----------------------------------------------------------------------------
(* The inductive invariant: the oracles' states                            *)

\* How many transactions of block b the synthetics oracle has handled, with
\* the queue q at the stage st; what it has seen spent of the chain f.
DoneOf(q, st, b) ==
    IF Head(q).type = "transaction"
    THEN (Len(TxsOf[b]) - Len(q)) + (IF st \in {"lending", "indexer"} THEN 1 ELSE 0)
    ELSE 0
SpentAt(q, st, f) ==
    IF q = <<>> \/ Head(q).type = "rollback" THEN SpentOn(f)
    ELSE SpentTo(Newest(f), DoneOf(q, st, Newest(f)))

\* The oracle of an address has yet to see a rollback.
PendingAt(q, st, a) ==
    /\ q # <<>> /\ Head(q).type = "rollback"
    /\ \/ st \in {"node", "spectrum", "synthetics"}
       \/ a = Lending /\ st = "lending"

\* The failures that are excepted.
Excepted(s) ==
    s.utxo \in undeleted \/ (s.address = Lending /\ unloaded) \/ s \in stranded

OnChainAt(s, q, st, f) ==
    \/ PendingAt(q, st, s.address) /\ SlotOf(Newest(f)) < SlotOf(s.block)
    \/ s.block \in ToSet(f) /\ (s.address = Cdp => s.utxo \notin SpentAt(q, st, f))
OnChain(s) == OnChainAt(s, queue, stage, followed)

WellFormed(s) ==
    /\ s.block \in Blocks /\ s.address \in {Cdp, Lending}
    /\ s.address = Cdp => s.key = s.utxo

\* A state in Badger is no newer than the one in memory: whatever takes that
\* one away takes it away too.
Backed(d) == \E s \in states : /\ Tracked!KeyOf(s) = Tracked!KeyOf(d)
                               /\ SlotOf(d.block) <= SlotOf(s.block)

FormInv == \A s \in states \cup dstates : WellFormed(s)
RunInv ==
    up =>
        /\ \A s \in states : Excepted(s) \/ OnChain(s)
        /\ \A d \in dstates : Excepted(d) \/ (OnChain(d) /\ Backed(d))
RestInv ==
    ~up => \A d \in dstates : Excepted(d) \/ Durable(d, cursor)
TrackedInv == FormInv /\ RunInv /\ RestInv

-----------------------------------------------------------------------------
(* The inductive invariant: the UTxO database                              *)

\* The outputs a set of blocks has, and what it spends.
OutputsIn(blocks) ==
    UNION {Range(tx.outs) : tx \in UNION {Range(TxsOf[b]) : b \in blocks}}
SpentIn(blocks) ==
    UNION {Range(tx.ins) : tx \in UNION {Range(TxsOf[b]) : b \in blocks}}

\* What was produced of the chain f, as SpentAt.
OutputsAt(q, st, f) ==
    IF q = <<>> \/ Head(q).type = "rollback" THEN OutputsOn(f)
    ELSE OutputsTo(Newest(f), DoneOf(q, st, Newest(f)))

\* Spectrum's handler is done before the oracles', the indexer's after them.
SpectrumDone(st) == IF st \in {"node", "spectrum"} THEN "node" ELSE "indexer"

\* The database d by itself: the lists are those of the stored addresses, and
\* what is stored was produced by one of some blocks.
Kept == {Wallet} \cup Pools
Ids == {o.utxo : o \in OutputsIn(Blocks)}
StoreForm(d, blocks) ==
    /\ d = [address |-> d.address, list |-> d.list, asset |-> d.asset]
    /\ \A u \in DOMAIN d.address : \E o \in OutputsIn(blocks) :
          o.utxo = u /\ o.address = d.address[u] /\ o.address \in Kept
    /\ \A a \in DOMAIN d.list : d.list[a] \in Seq(Ids)
    /\ \A a \in Kept : ToSet(ListOf(d, a)) = {u \in DOMAIN d.address : d.address[u] = a}

\* The outputs kept for the wallet and for the pools, unless they are spent.
WalletKept(d, outs, spent) ==
    \A o \in outs : o.address = Wallet => o.utxo \in DOMAIN d.address \cup spent
PoolsKept(d, outs, spent) ==
    \A o \in outs : o.address \in Pools =>
        \/ /\ o.utxo \in DOMAIN d.address
           /\ o.nft \in DOMAIN d.asset /\ d.asset[o.nft] = o.utxo
        \/ o.utxo \in spent

\* The indexer has handled what spends and produces s and o, Spectrum what
\* spends and produces t and p, but for the ids x.
Indexed(x, d, blocks, s, o, t, p) ==
    /\ DOMAIN d.address \cap s \subseteq x
    /\ t \subseteq x \cup SpentIn(blocks)
    /\ WalletKept(d, o, x \cup SpentIn(blocks))
    /\ PoolsKept(d, p, x \cup SpentIn(blocks))

BaseInv ==
    /\ applied \subseteq Blocks /\ StoreForm(db, applied)
    /\ queue # <<>> /\ IsTx /\ stage \notin {"node", "spectrum"} =>
          Newest(followed) \in applied
IndexedInv ==
    up =>
        Indexed(Odd, db, applied,
                SpentAt(queue, "node", followed), OutputsAt(queue, "node", followed),
                SpentAt(queue, SpectrumDone(stage), followed),
                OutputsAt(queue, SpectrumDone(stage), followed))
SavedInv ==
    ~up =>
        Indexed(Odd, db, applied, SpentOn(Path(cursor)), OutputsOn(Path(cursor)),
                SpentOn(Path(cursor)), OutputsOn(Path(cursor)))
StoreInv == BaseInv /\ IndexedInv /\ SavedInv

-----------------------------------------------------------------------------
(* The pipeline                                                            *)

\* The events of a block.
LEMMA BlockEventsOf ==
    ASSUME NEW b \in Blocks
    PROVE  LET n == Len(TxsOf[b])
               q == BlockEvents(b)
           IN  /\ n \in Nat /\ q # <<>>
               /\ q = [i \in 1..(n + 1) |->
                         IF i = 1 THEN BlockEvent(b) ELSE TxEvent(b, i - 1)]
               /\ Head(q) = BlockEvent(b)
               /\ Tail(q) = [i \in 1..(n - 0) |-> TxEvent(b, 0 + i)]
<1> DEFINE n == Len(TxsOf[b])
           t == [i \in 1..n |-> TxEvent(b, i)]
           e == <<BlockEvent(b)>>
           q == BlockEvents(b)
           E == {BlockEvent(b)} \cup {TxEvent(b, i) : i \in 1..n}
<1>1. n \in Nat
  BY TxsAssumption, LenProperties
<1>2. q = e \o t
  BY DEF BlockEvents, BlockEvent, TxEvent
<1>3. t \in Seq(E) /\ Len(t) = n
  <2>1. \A i \in 1..n : TxEvent(b, i) \in E
    OBVIOUS
  <2> HIDE DEF E, n
  <2> QED
    BY <1>1, <2>1, IsASeq
<1>4. e \in Seq(E) /\ Len(e) = 1 /\ e[1] = BlockEvent(b)
  BY DEF BlockEvent
<1>5. \A i \in 1..n : t[i] = TxEvent(b, i)
  OBVIOUS
<1> HIDE DEF E, t, e, n
<1>6. /\ e \o t \in Seq(E) /\ Len(e \o t) = n + 1
      /\ \A i \in 1..(n + 1) :
            (e \o t)[i] = IF i = 1 THEN BlockEvent(b) ELSE TxEvent(b, i - 1)
  <2>1. /\ e \o t \in Seq(E) /\ Len(e \o t) = Len(e) + Len(t)
        /\ \A i \in 1..(Len(e) + Len(t)) :
              (e \o t)[i] = IF i <= Len(e) THEN e[i] ELSE t[i - Len(e)]
    BY <1>3, <1>4, ConcatProperties
  <2>2. Len(e) + Len(t) = n + 1
    BY <1>1, <1>3, <1>4
  <2>3. ASSUME NEW i \in 1..(n + 1)
        PROVE  (e \o t)[i] = IF i = 1 THEN BlockEvent(b) ELSE TxEvent(b, i - 1)
    <3>1. CASE i = 1
      BY <1>1, <1>4, <2>1, <2>2, <3>1
    <3>2. CASE i # 1
      <4>1. ~(i <= 1) /\ i - 1 \in 1..n
        BY <1>1, <3>2
      <4> QED
        BY <1>4, <1>5, <2>1, <2>2, <3>2, <4>1
    <3> QED
      BY <3>1, <3>2
  <2> QED
    BY <2>1, <2>2, <2>3
<1> HIDE DEF q
<1>7. q \in Seq(E) /\ Len(q) = n + 1 /\ q # <<>> /\ DOMAIN q = 1..(n + 1)
      /\ \A i \in 1..(n + 1) :
            q[i] = IF i = 1 THEN BlockEvent(b) ELSE TxEvent(b, i - 1)
  BY <1>1, <1>2, <1>6, EmptySeq, LenProperties
<1>8. q = [i \in 1..(n + 1) |->
              IF i = 1 THEN BlockEvent(b) ELSE TxEvent(b, i - 1)]
  <2>1. q = [i \in 1..(n + 1) |-> q[i]]
    BY <1>7, LenProperties
  <2> QED
    BY <1>7, <2>1
<1>9. Head(q) = BlockEvent(b)
  BY <1>1, <1>7, HeadTailProperties
<1>10. Tail(q) \in Seq(E) /\ Len(Tail(q)) = n
       /\ \A i \in 1..n : Tail(q)[i] = TxEvent(b, i)
  <2>1. /\ Tail(q) \in Seq(E) /\ Len(Tail(q)) = (n + 1) - 1
        /\ \A i \in 1..Len(Tail(q)) : Tail(q)[i] = q[i + 1]
    BY <1>7, HeadTailProperties
  <2>2. (n + 1) - 1 = n /\ \A i \in 1..n : i + 1 \in 1..(n + 1) /\ i + 1 # 1 /\ (i + 1) - 1 = i
    BY <1>1
  <2> QED
    BY <1>7, <2>1, <2>2
<1>11. Tail(q) = [i \in 1..n |-> TxEvent(b, i)]
  <2>1. Tail(q) = [i \in 1..n |-> Tail(q)[i]]
    BY <1>10, LenProperties
  <2> QED
    BY <1>10, <2>1
<1>12. n - 0 = n /\ \A i \in 1..n : 0 + i = i
  BY <1>1
<1>13. [i \in 1..(n - 0) |-> TxEvent(b, 0 + i)] = [i \in 1..n |-> TxEvent(b, i)]
  BY <1>12
<1> QED
  BY <1>1, <1>7, <1>8, <1>9, <1>11, <1>13 DEF q, n

\* The first of some transactions is handled.
LEMMA TxsFromTail ==
    ASSUME NEW b \in Blocks, NEW n \in 0..Len(TxsOf[b])
    PROVE  /\ TxsFrom(b, n) = <<>> <=> n = Len(TxsOf[b])
           /\ n # Len(TxsOf[b]) =>
                /\ Head(TxsFrom(b, n)) = TxEvent(b, n + 1)
                /\ n + 1 \in 1..Len(TxsOf[b])
                /\ Tail(TxsFrom(b, n)) = TxsFrom(b, n + 1)
<1> DEFINE l == Len(TxsOf[b])
           q == TxsFrom(b, n)
           E == {TxEvent(b, i) : i \in 1..l}
<1>1. l \in Nat
  BY TxsAssumption, LenProperties
<1>2. q \in Seq(E) /\ Len(q) = l - n /\ \A i \in 1..(l - n) : q[i] = TxEvent(b, n + i)
  <2>1. \A i \in 1..(l - n) : TxEvent(b, n + i) \in E
    <3>1. \A i \in 1..(l - n) : n + i \in 1..l
      BY <1>1
    <3> QED
      BY <3>1
  <2>2. l - n \in Nat
    BY <1>1
  <2> HIDE DEF E, l
  <2> DEFINE f(i) == TxEvent(b, n + i)
  <2>3. \A i \in 1..(l - n) : f(i) \in E
    BY <2>1
  <2>4. [i \in 1..(l - n) |-> f(i)] \in Seq(E)
    <3> HIDE DEF f
    <3> QED
      BY <2>2, <2>3, IsASeq
  <2>5. q = [i \in 1..(l - n) |-> f(i)]
    BY DEF TxsFrom, l
  <2>6. DOMAIN q = 1..(l - n)
    BY <2>5
  <2> HIDE DEF q
  <2>7. q \in Seq(E)
    BY <2>4, <2>5
  <2>8. Len(q) = l - n
    BY <2>2, <2>6, <2>7, LenProperties
  <2> QED
    BY <2>5, <2>7, <2>8
<1> HIDE DEF l, q, E
<1>3. q = <<>> <=> n = l
  BY <1>1, <1>2, EmptySeq
<1>4. ASSUME n # l
      PROVE  /\ Head(q) = TxEvent(b, n + 1) /\ n + 1 \in 1..l
             /\ Tail(q) = TxsFrom(b, n + 1)
  <2>1. n + 1 \in 1..l /\ l - n >= 1 /\ 1 \in 1..(l - n) /\ (l - n) - 1 = l - (n + 1)
    BY <1>1, <1>4 DEF l
  <2>2. Head(q) = q[1] /\ Tail(q) \in Seq(E) /\ Len(Tail(q)) = l - (n + 1)
        /\ \A i \in 1..(l - (n + 1)) : Tail(q)[i] = q[i + 1]
    <3>1. q # <<>>
      BY <1>3, <1>4
    <3> QED
      BY <1>2, <2>1, <3>1, HeadTailProperties
  <2>3. \A i \in 1..(l - (n + 1)) : Tail(q)[i] = TxEvent(b, (n + 1) + i)
    <3>1. \A i \in 1..(l - (n + 1)) : i + 1 \in 1..(l - n) /\ n + (i + 1) = (n + 1) + i
      BY <1>1 DEF l
    <3> QED
      BY <1>2, <2>2, <3>1
  <2>4. Tail(q) = [i \in 1..(l - (n + 1)) |-> Tail(q)[i]]
    BY <2>2, LenProperties
  <2>5. Tail(q) = [i \in 1..(l - (n + 1)) |-> TxEvent(b, (n + 1) + i)]
    BY <2>3, <2>4
  <2> QED
    BY <1>2, <2>1, <2>2, <2>5 DEF TxsFrom, l
<1> QED
  BY <1>3, <1>4 DEF q, l

\* The first event of the queue is about the newest block.
LEMMA EventOf ==
    ASSUME PipelineInv, queue # <<>>
    PROVE  /\ up /\ Event.block = Newest(followed) /\ Newest(followed) \in Points
           /\ \/ IsRollback /\ RollbackQueued /\ Tail(queue) = <<>>
                 /\ ~IsTx /\ Event.type # "block"
              \/ /\ Event.type = "block" /\ ~IsTx /\ ~IsRollback
                 /\ Newest(followed) \in Blocks /\ BlockQueued
                 /\ Tail(queue) = TxsFrom(Newest(followed), 0)
                 /\ 0 \in 0..Len(TxsOf[Newest(followed)])
              \/ /\ IsTx /\ ~IsRollback /\ Event.type # "block"
                 /\ Newest(followed) \in Blocks
                 /\ \E n \in 1..Len(TxsOf[Newest(followed)]) :
                       /\ TxsQueued(n - 1) /\ n - 1 \in 0..Len(TxsOf[Newest(followed)])
                       /\ Event = TxEvent(Newest(followed), n)
                       /\ Event.tx = TxsOf[Newest(followed)][n]
                       /\ Tail(queue) = TxsFrom(Newest(followed), n)
<1> DEFINE b == Newest(followed)
<1>1. up /\ b \in Points /\ (followed # <<>> => b \in Blocks)
  BY NewestOf DEF PipelineInv, IsPath
<1>2. CASE RollbackQueued
  <2>1. queue = <<RollbackTo(b)>> /\ Head(queue) = RollbackTo(b) /\ Tail(queue) = <<>>
    BY <1>2 DEF RollbackQueued
  <2> QED
    BY <1>1, <1>2, <2>1 DEF RollbackTo, Event, IsRollback, IsTx
<1>3. CASE followed # <<>> /\ BlockQueued
  <2>1. b \in Blocks
    BY <1>1, <1>3
  <2>2. /\ Head(queue) = BlockEvent(b) /\ Len(TxsOf[b]) \in Nat
        /\ Tail(queue) = TxsFrom(b, 0)
    BY <1>3, <2>1, BlockEventsOf DEF BlockQueued, TxsFrom
  <2> HIDE DEF b
  <2>3. 0 \in 0..Len(TxsOf[b])
    BY <2>2
  <2> QED
    BY <1>1, <1>3, <2>1, <2>2, <2>3 DEF BlockEvent, Event, IsRollback, IsTx, b
<1>4. ASSUME followed # <<>>, NEW k \in 0..Len(TxsOf[b]), TxsQueued(k)
      PROVE  /\ IsTx /\ ~IsRollback /\ Event.type # "block" /\ Event.block = b
             /\ b \in Blocks
             /\ \E n \in 1..Len(TxsOf[b]) :
                   /\ TxsQueued(n - 1) /\ n - 1 \in 0..Len(TxsOf[b])
                   /\ Event = TxEvent(b, n)
                   /\ Event.tx = TxsOf[b][n]
                   /\ Tail(queue) = TxsFrom(b, n)
  <2>1. b \in Blocks
    BY <1>1, <1>4
  <2>2. k # Len(TxsOf[b])
    BY <1>4, <2>1, TxsFromTail DEF TxsQueued
  <2>3. /\ Head(queue) = TxEvent(b, k + 1) /\ k + 1 \in 1..Len(TxsOf[b])
        /\ Tail(queue) = TxsFrom(b, k + 1)
    BY <1>4, <2>1, <2>2, TxsFromTail DEF TxsQueued
  <2> HIDE DEF b
  <2>4. (k + 1) - 1 = k
    BY <1>4
  <2>5. Event = TxEvent(b, k + 1)
    BY <2>3 DEF Event
  <2>6. /\ Event.type = "transaction" /\ Event.block = b
        /\ Event.tx = TxsOf[b][k + 1]
    BY <2>5 DEF TxEvent
  <2>7. TxsQueued((k + 1) - 1) /\ (k + 1) - 1 \in 0..Len(TxsOf[b])
    BY <1>4, <2>4
  <2>8. \E n \in 1..Len(TxsOf[b]) :
                   /\ TxsQueued(n - 1) /\ n - 1 \in 0..Len(TxsOf[b])
                   /\ Event = TxEvent(b, n)
                   /\ Event.tx = TxsOf[b][n]
                   /\ Tail(queue) = TxsFrom(b, n)
    BY <2>3, <2>5, <2>6, <2>7
  <2> QED
    BY <2>1, <2>6, <2>8 DEF IsTx, IsRollback
<1>5. RollbackQueued \/ (followed # <<>> /\ BlockQueued)
        \/ (followed # <<>> /\ \E k \in 0..Len(TxsOf[b]) : TxsQueued(k))
  BY DEF PipelineInv
<1>6. CASE followed # <<>> /\ \E k \in 0..Len(TxsOf[b]) : TxsQueued(k)
  <2> HIDE DEF b
  <2>1. PICK k \in 0..Len(TxsOf[b]) : TxsQueued(k)
    BY <1>6
  <2> QED
    BY <1>1, <1>4, <1>6, <2>1 DEF b
<1> QED
  BY <1>2, <1>3, <1>5, <1>6

-----------------------------------------------------------------------------
(* Items on their way to a client                                          *)

\* The point an item leads to.
LEMMA TipPoint ==
    ASSUME NEW s \in Seq(Item), NEW v \in Seq(Blocks), NEW n \in 0..Len(s)
    PROVE  TipOf(s, v, n) \in Points
<1>1. CASE n = 0
  BY <1>1, NewestOf DEF TipOf
<1>2. CASE n # 0
  <2>1. n \in 1..Len(s)
    BY <1>2, LenProperties
  <2>2. s[n] \in Item
    BY <2>1, ElementOfSeq
  <2> QED
    BY <1>2, <2>2 DEF TipOf, Item
<1> QED
  BY <1>1, <1>2

\* One more item is sent.
LEMMA FlowAppend ==
    ASSUME NEW s \in Seq(Item), NEW v, NEW m \in 0..Len(s), Flow(s, v, m),
           NEW it \in Item, Fits(TipOf(s, v, Len(s)), it)
    PROVE  /\ Append(s, it) \in Seq(Item) /\ Len(Append(s, it)) = Len(s) + 1
           /\ Flow(Append(s, it), v, m)
           /\ TipOf(Append(s, it), v, Len(Append(s, it))) = it.block
           /\ \A j \in 1..Len(s) : Append(s, it)[j] = s[j]
           /\ Append(s, it)[Len(s) + 1] = it
<1> DEFINE u == Append(s, it)
<1>1. Len(s) \in Nat
  BY LenProperties
<1>2. /\ u \in Seq(Item) /\ Len(u) = Len(s) + 1
      /\ \A j \in 1..Len(s) : u[j] = s[j]
      /\ u[Len(s) + 1] = it
  BY AppendProperties
<1> HIDE DEF u
<1>3. \A j \in 0..Len(s) : TipOf(u, v, j) = TipOf(s, v, j)
  BY <1>1, <1>2 DEF TipOf
<1>4. TipOf(u, v, Len(u)) = it.block
  BY <1>1, <1>2 DEF TipOf
<1>5. \A j \in 1..m : ~u[j].rollback /\ u[j].block \in ToSet(v)
  BY <1>1, <1>2 DEF Flow
<1>6. TipOf(u, v, m) = Newest(v)
  BY <1>1, <1>3 DEF Flow
<1>7. ASSUME NEW j \in (m + 1)..Len(u) PROVE Fits(TipOf(u, v, j - 1), u[j])
  <2>1. j - 1 \in 0..Len(s) /\ j \in Nat
    BY <1>1, <1>2
  <2>2. TipOf(u, v, j - 1) = TipOf(s, v, j - 1)
    BY <1>3, <2>1
  <2>3. CASE j = Len(s) + 1
    <3>1. j - 1 = Len(s)
      BY <1>1, <2>3
    <3> QED
      BY <1>2, <2>2, <2>3, <3>1
  <2>4. CASE j # Len(s) + 1
    <3>1. j \in 1..Len(s) /\ j \in (m + 1)..Len(s)
      BY <1>1, <1>2, <2>4
    <3> QED
      BY <1>2, <2>2, <3>1 DEF Flow
  <2> QED
    BY <2>3, <2>4
<1>8. Flow(u, v, m)
  BY <1>5, <1>6, <1>7 DEF Flow
<1> QED
  BY <1>2, <1>4, <1>8 DEF u

\* A client applies an item that fits.
LEMMA ApplyFits ==
    ASSUME NEW v, IsPath(v), NEW it \in Item, Fits(Newest(v), it)
    PROVE  IsPath(Apply(v, it)) /\ Newest(Apply(v, it)) = it.block
<1>1. CASE it.rollback
  <2>1. Anc(it.block, Newest(v)) /\ it.block \in Points
    BY <1>1 DEF Fits, Item
  <2>2. Apply(v, it) = Path(it.block)
    BY <1>1, <2>1, UpToPath DEF Apply
  <2> QED
    BY <2>1, <2>2, PathOf
<1>2. CASE ~it.rollback
  <2>1. it.block \in Blocks /\ Parent[it.block] = Newest(v)
    BY <1>2 DEF Fits, Item
  <2> QED
    BY <1>2, <2>1, AppendPath DEF Apply
<1> QED
  BY <1>1, <1>2

\* The client takes the first item.
LEMMA FlowTail ==
    ASSUME NEW s \in Seq(Item), s # <<>>, NEW v, IsPath(v), Flow(s, v, 0)
    PROVE  /\ Fits(Newest(v), Head(s)) /\ Head(s) \in Item /\ Head(s) = s[1]
           /\ Tail(s) \in Seq(Item) /\ Len(Tail(s)) = Len(s) - 1
           /\ \A j \in 1..Len(Tail(s)) : Tail(s)[j] = s[j + 1]
           /\ Flow(Tail(s), Apply(v, Head(s)), 0)
           /\ TipOf(Tail(s), Apply(v, Head(s)), Len(Tail(s))) = TipOf(s, v, Len(s))
<1> DEFINE u == Tail(s)
           w == Apply(v, Head(s))
<1>1. /\ Len(s) \in Nat /\ Len(s) >= 1 /\ Head(s) = s[1]
      /\ Head(s) \in Item
      /\ u \in Seq(Item) /\ Len(u) = Len(s) - 1
      /\ \A j \in 1..Len(u) : u[j] = s[j + 1]
  BY HeadTailProperties, LenProperties, EmptySeq
<1>2. Fits(Newest(v), Head(s))
  <2>1. 1 \in (0 + 1)..Len(s) /\ 1 - 1 = 0
    BY <1>1
  <2> QED
    BY <1>1, <2>1 DEF Flow, TipOf
<1>3. Newest(w) = s[1].block
  BY <1>1, <1>2, ApplyFits
<1> HIDE DEF u, w
<1>4. \A j \in 0..Len(u) : TipOf(u, w, j) = TipOf(s, v, j + 1)
  BY <1>1, <1>3 DEF TipOf
<1>5. ASSUME NEW j \in (0 + 1)..Len(u) PROVE Fits(TipOf(u, w, j - 1), u[j])
  <2>1. j - 1 \in 0..Len(u) /\ (j - 1) + 1 = j /\ j \in 1..Len(u)
        /\ j + 1 \in (0 + 1)..Len(s) /\ (j + 1) - 1 = j
    BY <1>1
  <2>2. TipOf(u, w, j - 1) = TipOf(s, v, j)
    BY <1>4, <2>1
  <2>3. Fits(TipOf(s, v, (j + 1) - 1), s[j + 1])
    BY <2>1 DEF Flow
  <2> QED
    BY <1>1, <2>1, <2>2, <2>3
<1>6. Flow(u, w, 0)
  BY <1>5 DEF Flow, TipOf
<1>7. TipOf(u, w, Len(u)) = TipOf(s, v, Len(s))
  <2>1. Len(u) \in 0..Len(u) /\ Len(u) + 1 = Len(s)
    BY <1>1
  <2> QED
    BY <1>4, <2>1
<1> QED
  BY <1>1, <1>2, <1>6, <1>7 DEF u, w

\* A client does not need an item.
Needless(v, it) ==
    IF it.rollback THEN UpTo(SlotOf(it.block), v) = v
    ELSE it.block \in ToSet(v)

\* An item that fits and is not needed is a rollback to the newest block.
LEMMA NeedlessFits ==
    ASSUME NEW v, IsPath(v), NEW it \in Item, Fits(Newest(v), it), Needless(v, it)
    PROVE  it.block = Newest(v)
<1>1. CASE it.rollback
  <2>1. Anc(it.block, Newest(v)) /\ it.block \in Points
    BY <1>1 DEF Fits, Item
  <2>2. Path(it.block) = v
    BY <1>1, <2>1, UpToPath DEF Needless
  <2> QED
    BY <2>1, <2>2, PathOf
<1>2. CASE ~it.rollback
  <2>1. it.block \in Blocks /\ Parent[it.block] = Newest(v) /\ it.block \in ToSet(v)
    BY <1>2 DEF Fits, Item, Needless
  <2>2. Anc(it.block, Newest(v)) /\ Newest(v) \in Points
    BY <2>1, AncOnPath
  <2>3. SlotOf(it.block) <= SlotOf(Newest(v)) /\ SlotOf(it.block) \in Nat
        /\ SlotOf(Newest(v)) \in Nat
    BY <2>2, AncSlots
  <2>4. SlotOf(Newest(v)) < SlotOf(it.block)
    BY <2>1, PointSlots
  <2> QED
    BY <2>3, <2>4
<1> QED
  BY <1>1, <1>2

\* Items are skipped that the client does not need.
LEMMA FlowDrop ==
    ASSUME NEW s \in Seq(Item), NEW v, IsPath(v), NEW m \in 0..Len(s),
           NEW n \in m..Len(s), Flow(s, v, m),
           \A j \in 1..n : Needless(v, s[j])
    PROVE  LET u == SubSeq(s, n + 1, Len(s))
           IN  /\ u \in Seq(Item) /\ Len(u) = Len(s) - n
               /\ \A j \in 1..Len(u) : u[j] = s[n + j]
               /\ Flow(u, v, 0)
               /\ TipOf(u, v, Len(u)) = TipOf(s, v, Len(s))
<1> DEFINE u == SubSeq(s, n + 1, Len(s))
           Bad == {j \in m..n : TipOf(s, v, j) # Newest(v)}
<1>1. Len(s) \in Nat /\ n \in 0..Len(s) /\ m \in Nat /\ n \in Nat /\ m <= n
  BY LenProperties
<1>2. Bad = {}
  <2> SUFFICES ASSUME Bad # {} PROVE FALSE
    OBVIOUS
  <2>1. Bad \in SUBSET Nat
    BY <1>1
  <2>2. PICK j \in Bad : \A i \in Bad : ~(i < j)
    <3> HIDE DEF Bad
    <3> QED
      BY <2>1, LeastNatural
  <2>3. j # m
    BY <2>2 DEF Flow
  <2>4. j - 1 \in m..n /\ j \in (m + 1)..Len(s) /\ j \in 1..n /\ j # 0
        /\ j \in 1..Len(s)
    BY <1>1, <2>2, <2>3
  <2>5. TipOf(s, v, j - 1) = Newest(v)
    BY <1>1, <2>2, <2>4
  <2>6. Fits(Newest(v), s[j])
    BY <2>4, <2>5 DEF Flow
  <2>7. s[j] \in Item
    BY <2>4, ElementOfSeq
  <2>8. s[j].block = Newest(v)
    BY <2>4, <2>6, <2>7, NeedlessFits
  <2> QED
    BY <2>2, <2>4, <2>8 DEF TipOf
<1>3. TipOf(s, v, n) = Newest(v)
  BY <1>1, <1>2
<1>4. /\ u \in Seq(Item) /\ Len(u) = Len(s) - n
      /\ \A j \in 1..Len(u) : u[j] = s[n + j]
  <2>1. /\ \A i \in (n + 1)..Len(s) : s[i] \in Item
        /\ n + 1 \in Nat
    BY <1>1, ElementOfSeq
  <2>2. CASE n = Len(s)
    <3>1. u = <<>>
      BY <1>1, <2>2, SubSeqEmpty
    <3> QED
      BY <1>1, <2>2, <3>1
  <2>3. CASE n # Len(s)
    <3>1. n + 1 \in 1..(Len(s) + 1) /\ Len(s) \in n..Len(s) /\ n + 1 <= Len(s)
      BY <1>1, <2>3
    <3> QED
      BY <1>1, <2>1, <3>1, SubSeqProperties
  <2> QED
    BY <2>2, <2>3
<1> HIDE DEF u, Bad
<1>5. \A j \in 0..Len(u) : TipOf(u, v, j) = TipOf(s, v, n + j)
  <2> SUFFICES ASSUME NEW j \in 0..Len(u) PROVE TipOf(u, v, j) = TipOf(s, v, n + j)
    OBVIOUS
  <2>1. CASE j = 0
    <3>1. n + j = n
      BY <1>1, <2>1
    <3> QED
      BY <1>3, <2>1, <3>1 DEF TipOf
  <2>2. CASE j # 0
    <3>1. j \in 1..Len(u) /\ n + j # 0
      BY <1>1, <1>4, <2>2
    <3> QED
      BY <1>4, <2>2, <3>1 DEF TipOf
  <2> QED
    BY <2>1, <2>2
<1>6. ASSUME NEW j \in (0 + 1)..Len(u) PROVE Fits(TipOf(u, v, j - 1), u[j])
  <2>1. j - 1 \in 0..Len(u) /\ j \in 1..Len(u) /\ n + (j - 1) = (n + j) - 1
        /\ n + j \in (m + 1)..Len(s)
    BY <1>1, <1>4
  <2>2. Fits(TipOf(s, v, (n + j) - 1), s[n + j])
    BY <2>1 DEF Flow
  <2> QED
    BY <1>4, <1>5, <2>1, <2>2
<1>7. Flow(u, v, 0)
  BY <1>6 DEF Flow, TipOf
<1>8. TipOf(u, v, Len(u)) = TipOf(s, v, Len(s))
  <2>1. Len(u) \in 0..Len(u) /\ n + Len(u) = Len(s)
    BY <1>1, <1>4
  <2> QED
    BY <1>5, <2>1
<1> QED
  BY <1>4, <1>7, <1>8 DEF u

-----------------------------------------------------------------------------
(* The steps of the pipeline                                               *)

\* Only the newest block of a chain matters to what follows it.
LEMMA SameTip ==
    ASSUME NEW s, NEW v, NEW w, Newest(v) = Newest(w)
    PROVE  /\ Flow(s, v, 0) => Flow(s, w, 0)
           /\ \A n : TipOf(s, v, n) = TipOf(s, w, n)
BY DEF Flow, TipOf

\* The point the last message leads to.
LEMMA LastSentOf ==
    ASSUME PipelineInv
    PROVE  LastSent = TipOf(backlog, followed, Len(backlog)) /\ LastSent \in Points
<1>1. backlog \in Seq(Item) /\ IsPath(followed)
  BY DEF PipelineInv, BacklogInv
<1>2. followed \in Seq(Blocks)
  BY <1>1 DEF IsPath
<1>3. Len(backlog) \in 0..Len(backlog) /\ (backlog = <<>> <=> Len(backlog) = 0)
  BY <1>1, LenProperties, EmptySeq
<1>4. LastSent = TipOf(backlog, followed, Len(backlog))
  BY <1>3 DEF LastSent, TipOf
<1> QED
  BY <1>1, <1>2, <1>3, <1>4, TipPoint

\* The parts of a message.
LEMMA MessageOf ==
    ASSUME NEW r \in BOOLEAN, NEW b \in Points, NEW it, it = Message(r, b)
    PROVE  /\ it.rollback = r /\ it.block = b
           /\ r \/ b \in Blocks => it \in Item
<1>1. it = [rollback |-> r, block |-> b]
  BY DEF Message
<1>2. it.rollback = r /\ it.block = b /\ it \in [rollback: BOOLEAN, block: Points]
  BY <1>1
<1> QED
  BY <1>2 DEF Item

\* A message that is received leads on from the one before.
Arrives(it) == Receive(it) /\ it \in Item /\ Fits(LastSent, it)
LEMMA ArrivesIf ==
    ASSUME PipelineInv
    PROVE  /\ \A b \in Blocks : ReceiveBlock(b) => \E it \in Item : Arrives(it)
           /\ \A b \in Blocks \cup {Genesis} :
                ReceiveRollback(b) => \E it \in Item : Arrives(it)
<1>1. ASSUME NEW b \in Blocks, ReceiveBlock(b) PROVE \E it \in Item : Arrives(it)
  <2>1. PICK it : it = Message(FALSE, b)
    OBVIOUS
  <2>2. it \in Item /\ ~it.rollback /\ it.block = b
    BY <2>1, MessageOf DEF Points
  <2>3. Parent[b] = LastSent /\ Receive(it)
    BY <1>1, <2>1 DEF ReceiveBlock
  <2> QED
    BY <2>2, <2>3 DEF Arrives, Fits
<1>2. ASSUME NEW b \in Blocks \cup {Genesis}, ReceiveRollback(b)
      PROVE  \E it \in Item : Arrives(it)
  <2>1. PICK it : it = Message(TRUE, b)
    OBVIOUS
  <2>2. it \in Item /\ it.rollback /\ it.block = b
    BY <2>1, MessageOf DEF Points
  <2>3. b \in {Genesis} \cup ToSet(Path(LastSent)) /\ Receive(it)
    BY <1>2, <2>1 DEF ReceiveRollback
  <2> QED
    BY <2>2, <2>3 DEF Arrives, Fits, Anc
<1> QED
  BY <1>1, <1>2

\* What the handlers are given next.
LEMMA Delivered ==
    ASSUME PipelineInv, NEW it, Delivers(it), NEW f, IsPath(f), Newest(f) = it.block
    PROVE  /\ it \in Item /\ Fits(Newest(followed), it)
           /\ Tail(backlog) \in Seq(Item) /\ Flow(Tail(backlog), f, 0)
<1>1. /\ backlog \in Seq(Item) /\ backlog # <<>> /\ Flow(backlog, followed, 0)
      /\ IsPath(followed) /\ Head(backlog) = it
  BY DEF PipelineInv, BacklogInv, Delivers
<1>2. /\ Fits(Newest(followed), Head(backlog)) /\ Head(backlog) \in Item
      /\ Tail(backlog) \in Seq(Item)
      /\ Flow(Tail(backlog), Apply(followed, Head(backlog)), 0)
  BY <1>1, FlowTail
<1>3. Newest(Apply(followed, it)) = it.block
  BY <1>1, <1>2, ApplyFits
<1> QED
  BY <1>1, <1>2, <1>3, SameTip

\* A block the handlers are given follows the newest one.
LEMMA ForwardParent ==
    ASSUME PipelineInv, NEW b \in Blocks, RollForward(b)
    PROVE  /\ Parent[b] = Newest(followed)
           /\ IsPath(Append(followed, b)) /\ Newest(Append(followed, b)) = b
           /\ Tail(backlog) \in Seq(Item) /\ Flow(Tail(backlog), Append(followed, b), 0)
<1>1. PICK it : it = Message(FALSE, b)
  OBVIOUS
<1>2. ~it.rollback /\ it.block = b
  BY <1>1, MessageOf DEF Points
<1>3. Delivers(it) /\ IsPath(followed) /\ followed \in Seq(Blocks)
  BY <1>1 DEF RollForward, PipelineInv, IsPath
<1>4. /\ backlog \in Seq(Item) /\ backlog # <<>> /\ Flow(backlog, followed, 0)
      /\ Head(backlog) = it
  BY <1>3 DEF PipelineInv, BacklogInv, Delivers
<1>5. Parent[b] = Newest(followed)
  BY <1>2, <1>3, <1>4, FlowTail DEF Fits
<1>6. IsPath(Append(followed, b)) /\ Newest(Append(followed, b)) = b
  BY <1>3, <1>5, AppendPath
<1> QED
  BY <1>2, <1>3, <1>5, <1>6, Delivered

\* What the actions do with the pipeline.
Stages == {"node", "spectrum", "synthetics", "lending", "indexer"}
HandlerOnly == \* a handler went on with the same event
    /\ up /\ queue # <<>> /\ stage' \in Stages
    /\ UNCHANGED <<up, followed, backlog, cursor, queue>>
LEMMA PipelineStep ==
    ASSUME PipelineInv, [Next]_vars
    PROVE  \/ UNCHANGED <<up, followed, backlog, cursor, queue, stage>>
           \/ \E it \in Item : Arrives(it)
           \/ \E b \in Blocks : RollForward(b)
           \/ \E k \in 0..Len(followed) : RollBackward(k)
           \/ UpdateCursor
           \/ HandlerOnly
           \/ IndexerHandler
           \/ ProcessEnds /\ UNCHANGED cursor
           \/ \E loaded \in BOOLEAN : Restart(loaded)
<1>1. CASE UNCHANGED vars
  BY <1>1 DEF vars, chainVars
<1>2. CASE NodeHandler
  BY <1>2 DEF NodeHandler, HandlerOnly, AtStage, Continue, Stages
<1>3. CASE SpectrumHandler
  BY <1>3 DEF SpectrumHandler, HandlerOnly, AtStage, Continue, Stages
<1>4. CASE OracleHandler("synthetics", "lending") \/ OracleHandler("lending", "indexer")
  BY <1>4 DEF OracleHandler, HandlerOnly, AtStage, Continue, Stages
<1>5. CASE OracleWriteFails("synthetics", "lending")
             \/ OracleWriteFails("lending", "indexer")
  BY <1>5 DEF OracleWriteFails, HandlerOnly, AtStage, Continue, Stages
<1>6. CASE RollbackFails("synthetics") \/ RollbackFails("lending")
  BY <1>6 DEF RollbackFails
<1>7. CASE Crash
  BY <1>7 DEF Crash
<1>8. CASE ServePeers
  BY <1>8 DEF ServePeers, chainVars
<1>9. ASSUME \/ \E b \in Blocks : ReceiveBlock(b)
             \/ \E b \in Blocks \cup {Genesis} : ReceiveRollback(b)
      PROVE  \E it \in Item : Arrives(it)
  BY <1>9, ArrivesIf
<1> QED
  BY <1>1, <1>2, <1>3, <1>4, <1>5, <1>6, <1>7, <1>8, <1>9 DEF Next

\* Every step keeps the pipeline in order.
LEMMA PipelineNext ==
    ASSUME PipelineInv, [Next]_vars
    PROVE  PipelineInv'
<1>1. CASE UNCHANGED <<up, followed, backlog, cursor, queue, stage>>
  BY <1>1 DEF PipelineInv, BacklogInv, RollbackQueued, BlockQueued, TxsQueued
<1>2. ASSUME NEW b \in Blocks, RollForward(b) PROVE PipelineInv'
  <2>1. /\ IsPath(followed') /\ Newest(followed') = b
        /\ backlog' \in Seq(Item) /\ Flow(backlog', followed', 0)
    BY <1>2, ForwardParent DEF RollForward, Delivers
  <2>2. followed' # <<>>
    BY <2>1, TreeAssumption DEF Newest
  <2>3. BacklogInv' /\ up /\ queue' = BlockEvents(b)
    BY <1>2, <2>1 DEF RollForward, Delivers, Idle, BacklogInv
  <2>4. /\ cursor' = cursor /\ stage' = stage /\ up' = up
    BY <1>2 DEF RollForward, Delivers
  <2> QED
    BY <2>1, <2>2, <2>3, <2>4, BlockEventsOf DEF PipelineInv, BlockQueued
<1>3. ASSUME NEW k \in 0..Len(followed), RollBackward(k) PROVE PipelineInv'
  <2>1. IsPath(followed') /\ followed' = SubSeq(followed, 1, k)
    BY <1>3, PrefixPath DEF RollBackward, PipelineInv
  <2>2. PICK it : it = Message(TRUE, Newest(SubSeq(followed, 1, k)))
    OBVIOUS
  <2>3. it.block = Newest(followed')
    <3>1. Newest(followed') \in Points
      BY <2>1, NewestOf DEF IsPath
    <3> QED
      BY <2>1, <2>2, <3>1, MessageOf
  <2>4. Delivers(it)
    BY <1>3, <2>2 DEF RollBackward
  <2>5. Tail(backlog) \in Seq(Item) /\ Flow(Tail(backlog), followed', 0)
    BY <2>1, <2>3, <2>4, Delivered
  <2>6. BacklogInv' /\ UNCHANGED <<up, cursor, stage>> /\ up
    BY <2>4, <2>5 DEF BacklogInv, Delivers, Idle
  <2> QED
    BY <1>3, <2>1, <2>6 DEF RollBackward, PipelineInv, RollbackQueued
<1>4. CASE UpdateCursor
  <2>1. LastSent \in Points
    BY LastSentOf
  <2>2. BacklogInv'
    BY <1>4 DEF UpdateCursor, PipelineInv, BacklogInv
  <2> QED
    BY <1>4, <2>1, <2>2
    DEF UpdateCursor, PipelineInv, RollbackQueued, BlockQueued, TxsQueued
<1>5. CASE HandlerOnly
  BY <1>5
  DEF HandlerOnly, PipelineInv, BacklogInv, RollbackQueued, BlockQueued, TxsQueued, Stages
<1>6. CASE IndexerHandler
  <2>1. /\ up' = up /\ followed' = followed /\ cursor' = cursor
        /\ queue' = Tail(queue) /\ stage' = "node" /\ queue # <<>> /\ backlog' = backlog
    BY <1>6 DEF IndexerHandler, EventDone, AtStage
  <2> DEFINE b == Newest(followed)
  <2>2. \/ Tail(queue) = <<>>
        \/ b \in Blocks /\ \E n \in 0..Len(TxsOf[b]) : Tail(queue) = TxsFrom(b, n)
    <3>1. b \in Blocks => \A n \in 1..Len(TxsOf[b]) : n \in 0..Len(TxsOf[b])
      BY TxsAssumption, LenProperties
    <3> QED
      BY <2>1, <3>1, EventOf
  <2>3. b \in Blocks => followed # <<>>
    BY TreeAssumption DEF Newest
  <2>4. BacklogInv'
    BY <2>1 DEF PipelineInv, BacklogInv
  <2> QED
    BY <2>1, <2>2, <2>3, <2>4 DEF PipelineInv, TxsQueued
<1>7. CASE ProcessEnds /\ UNCHANGED cursor
  <2>1. IsPath(<<>>)
    BY DEF IsPath
  <2>2. Flow(<<>>, <<>>, 0) /\ <<>> \in Seq(Item)
    BY DEF Flow, TipOf
  <2>3. BacklogInv'
    BY <1>7, <2>2 DEF ProcessEnds, BacklogInv
  <2> QED
    BY <1>7, <2>1, <2>3 DEF ProcessEnds, PipelineInv
<1>8. ASSUME NEW loaded \in BOOLEAN, Restart(loaded) PROVE PipelineInv'
  <2>1. IsPath(Path(cursor)) /\ Newest(Path(cursor)) = cursor
    BY PathOf DEF PipelineInv
  <2>2. backlog = <<>> /\ backlog' = <<>> /\ followed' = Path(cursor)
    BY <1>8 DEF Restart, PipelineInv, BacklogInv
  <2>3. Flow(<<>>, Path(cursor), 0) /\ <<>> \in Seq(Item)
    BY DEF Flow, TipOf
  <2>4. BacklogInv'
    BY <2>2, <2>3 DEF BacklogInv
  <2> QED
    BY <1>8, <2>1, <2>4 DEF Restart, PipelineInv, RollbackQueued
<1>9. ASSUME NEW it \in Item, Arrives(it) PROVE PipelineInv'
  <2>1. /\ backlog \in Seq(Item) /\ Flow(backlog, followed, 0) /\ up
        /\ backlog' = Append(backlog, it)
        /\ UNCHANGED <<up, followed, cursor, queue, stage>>
    BY <1>9 DEF Arrives, Receive, PipelineInv, BacklogInv
  <2>2. Fits(TipOf(backlog, followed, Len(backlog)), it) /\ 0 \in 0..Len(backlog)
    BY <1>9, <2>1, LastSentOf, LenProperties DEF Arrives
  <2>3. backlog' \in Seq(Item) /\ Flow(backlog', followed, 0)
    BY <2>1, <2>2, FlowAppend
  <2>4. BacklogInv'
    BY <2>1, <2>3 DEF BacklogInv
  <2> QED
    BY <2>1, <2>4 DEF PipelineInv, RollbackQueued, BlockQueued, TxsQueued
<1> QED
  BY <1>1, <1>2, <1>3, <1>4, <1>5, <1>6, <1>7, <1>8, <1>9, PipelineStep

-----------------------------------------------------------------------------
(* The recent blocks                                                       *)

\* The last blocks of a chain follow one another.
LEMMA TailFacts ==
    ASSUME NEW r \in Seq(Blocks), r # <<>>, IsTail(r, Path(Newest(r)))
    PROVE  /\ Len(r) \in Nat /\ Len(r) >= 1 /\ Newest(r) \in Blocks
           /\ Newest(r) = r[Len(r)]
           /\ \A i \in 1..Len(r) : r[i] \in Blocks /\ Anc(r[i], Newest(r))
           /\ \A i \in 2..Len(r) : Parent[r[i]] = r[i - 1]
           /\ \A i, j \in 1..Len(r) : i < j => SlotOf(r[i]) < SlotOf(r[j])
<1> DEFINE c == Path(Newest(r))
           d == Len(c) - Len(r)
<1>1. /\ Len(r) \in Nat /\ Len(r) >= 1 /\ Newest(r) \in Blocks
      /\ Newest(r) = r[Len(r)] /\ Newest(r) \in Points
  BY NewestOf
<1>2. \A i \in 1..Len(r) : r[i] \in Blocks
  BY ElementOfSeq
<1>3. IsPath(c)
  BY <1>1, PathOf
<1>4. Len(c) \in Nat
  BY <1>3, LenProperties DEF IsPath
<1>5. Len(r) <= Len(c) /\ \A i \in 1..Len(r) : r[i] = c[d + i]
  BY DEF IsTail
<1> HIDE DEF c
<1>6. d \in Nat /\ \A i \in 1..Len(r) : d + i \in 1..Len(c)
  BY <1>1, <1>4, <1>5
<1>7. ASSUME NEW i \in 1..Len(r) PROVE Anc(r[i], Newest(r))
  <2>1. r[i] = c[d + i] /\ d + i \in 1..Len(c)
    BY <1>5, <1>6
  <2> QED
    BY <1>1, <2>1, AncAt DEF c
<1>8. ASSUME NEW i \in 2..Len(r) PROVE Parent[r[i]] = r[i - 1]
  <2>1. /\ i \in 1..Len(r) /\ i - 1 \in 1..Len(r) /\ d + i \in 1..Len(c)
        /\ d + i # 1 /\ (d + i) - 1 = d + (i - 1)
    BY <1>1, <1>6
  <2>2. Parent[c[d + i]] = c[(d + i) - 1]
    BY <1>3, <2>1 DEF IsPath, BeforeIn
  <2> QED
    BY <1>5, <2>1, <2>2
<1>9. ASSUME NEW i \in 1..Len(r), NEW j \in 1..Len(r), i < j
      PROVE  SlotOf(r[i]) < SlotOf(r[j])
  <2>1. d + i \in 1..Len(c) /\ d + j \in 1..Len(c) /\ d + i < d + j
    BY <1>1, <1>6, <1>9
  <2>2. SlotOf(c[d + i]) < SlotOf(c[d + j])
    BY <1>3, <2>1, PathSlots
  <2> QED
    BY <1>5, <2>2
<1> QED
  BY <1>1, <1>2, <1>7, <1>8, <1>9

\* What a rollback leaves of them: nothing, or what ends with its block.
LEMMA TailUpTo ==
    ASSUME NEW r \in Seq(Blocks), r # <<>>, IsTail(r, Path(Newest(r))),
           NEW b, Anc(b, Newest(r))
    PROVE  \E k \in 0..Len(r) :
              /\ UpTo(SlotOf(b), r) = SubSeq(r, 1, k)
              /\ \A i \in 1..Len(r) : SlotOf(r[i]) <= SlotOf(b) => i <= k
              /\ k > 0 => r[k] = b /\ IsTail(SubSeq(r, 1, k), Path(b))
              /\ SlotOf(Parent[r[1]]) < SlotOf(b) => k > 0
<1> DEFINE x == Newest(r)
           c == Path(x)
           d == Len(c) - Len(r)
<1>1. /\ Len(r) \in Nat /\ Len(r) >= 1 /\ x \in Points
      /\ \A i \in 1..Len(r) : r[i] \in Blocks
      /\ \A i, j \in 1..Len(r) : i < j => SlotOf(r[i]) < SlotOf(r[j])
  BY TailFacts DEF Points
<1>2. b \in Points /\ SlotOf(b) \in Nat
  BY <1>1, AncSlots
<1>3. IsPath(c) /\ Newest(c) = x
  BY <1>1, PathOf
<1>4. Len(c) \in Nat /\ \A i \in 1..Len(c) : c[i] \in Blocks
  BY <1>3, LenProperties, ElementOfSeq DEF IsPath
<1>5. Len(r) <= Len(c) /\ \A i \in 1..Len(r) : r[i] = c[d + i]
  BY DEF IsTail
<1>6. PICK j \in 0..Len(c) : b = IF j = 0 THEN Genesis ELSE c[j]
  <2>1. b = Genesis \/ \E i \in 1..Len(c) : b = c[i]
    BY <1>1, AncAt
  <2> HIDE DEF c
  <2> QED
    BY <1>4, <2>1
<1> HIDE DEF c, x
<1>7. /\ d \in Nat /\ d < Len(c) /\ \A i \in 1..Len(r) : d + i \in 1..Len(c)
  BY <1>1, <1>4, <1>5
<1>8. \A i \in 1..Len(r) : SlotOf(r[i]) \in Nat /\ SlotOf(r[i]) > 0
  BY <1>1, PointSlots DEF Points
<1>9. \A i, n \in 1..Len(c) : i < n => SlotOf(c[i]) < SlotOf(c[n])
  BY <1>3, PathSlots
<1>10. PICK k \in 0..Len(r) :
              /\ UpTo(SlotOf(b), r) = SubSeq(r, 1, k)
              /\ \A i \in 1..k : SlotOf(r[i]) <= SlotOf(b)
              /\ k < Len(r) => SlotOf(r[k + 1]) > SlotOf(b)
  BY <1>2, UpToPrefix
<1>11. ASSUME NEW i \in 1..Len(r), SlotOf(r[i]) <= SlotOf(b) PROVE i <= k
  <2> SUFFICES ASSUME i > k PROVE FALSE
    BY <1>1, <1>10
  <2>1. k + 1 \in 1..Len(r) /\ (k + 1 = i \/ k + 1 < i) /\ k < Len(r)
    BY <1>1, <1>10
  <2>2. SlotOf(r[k + 1]) <= SlotOf(r[i])
    BY <1>1, <1>8, <2>1
  <2> QED
    BY <1>2, <1>8, <1>10, <1>11, <2>1, <2>2
<1>12. CASE j <= d
  <2>1. \A i \in 1..Len(r) : SlotOf(b) < SlotOf(r[i])
    <3> SUFFICES ASSUME NEW i \in 1..Len(r) PROVE SlotOf(b) < SlotOf(r[i])
      OBVIOUS
    <3>1. CASE j = 0
      BY <1>6, <1>8, <3>1, PointSlots
    <3>2. CASE j # 0
      <4>1. j \in 1..Len(c) /\ d + i \in 1..Len(c) /\ j < d + i
        BY <1>4, <1>7, <1>12, <3>2
      <4>2. SlotOf(c[j]) < SlotOf(c[d + i])
        BY <1>9, <4>1
      <4> QED
        BY <1>5, <1>6, <3>2, <4>2
    <3> QED
      BY <3>1, <3>2
  <2>2. k = 0
    <3> SUFFICES ASSUME k # 0 PROVE FALSE
      OBVIOUS
    <3>1. k \in 1..k /\ k \in 1..Len(r)
      BY <1>1
    <3> QED
      BY <1>2, <1>8, <1>10, <2>1, <3>1
  <2>3. ~(SlotOf(Parent[r[1]]) < SlotOf(b))
    <3>1. 1 \in 1..Len(r) /\ r[1] = c[d + 1] /\ d + 1 \in 1..Len(c)
      BY <1>1, <1>5, <1>7
    <3>2. Parent[r[1]] = IF d = 0 THEN Genesis ELSE c[d]
      <4>1. Parent[c[d + 1]] = BeforeIn(c, d + 1)
        BY <1>3, <3>1 DEF IsPath
      <4>2. (d + 1 = 1 <=> d = 0) /\ (d + 1) - 1 = d
        BY <1>7
      <4> QED
        BY <3>1, <4>1, <4>2 DEF BeforeIn
    <3>3. CASE j = 0
      <4>1. SlotOf(b) = 0
        BY <1>6, <3>3, PointSlots
      <4>2. SlotOf(Parent[r[1]]) \in Nat
        BY <1>1, <3>1, PointSlots
      <4> QED
        BY <4>1, <4>2
    <3>4. CASE j # 0
      <4>1. d # 0 /\ j \in 1..Len(c) /\ d \in 1..Len(c) /\ (j = d \/ j < d)
        BY <1>4, <1>7, <1>12, <3>4
      <4>2. j < d => SlotOf(c[j]) < SlotOf(c[d])
        BY <1>9, <4>1
      <4>3. Parent[r[1]] = c[d] /\ b = c[j]
        BY <1>6, <3>2, <3>4, <4>1
      <4>4. SlotOf(c[d]) \in Nat /\ SlotOf(c[j]) \in Nat
        BY <1>4, <4>1, PointSlots DEF Points
      <4> QED
        BY <4>1, <4>2, <4>3, <4>4
    <3> QED
      BY <3>3, <3>4
  <2> QED
    BY <1>10, <1>11, <2>2, <2>3
<1>13. CASE j > d
  <2> DEFINE q == j - d
  <2>1. /\ q \in 1..Len(r) /\ d + q = j /\ j # 0 /\ j \in 1..Len(c)
        /\ q \in Nat /\ q >= 1
    BY <1>1, <1>4, <1>5, <1>7, <1>13
  <2> HIDE DEF q
  <2>2. r[q] = b
    BY <1>5, <1>6, <2>1
  <2>3. q <= k
    BY <1>2, <1>11, <2>1, <2>2
  <2>4. ~(q < k)
    <3> SUFFICES ASSUME q < k PROVE FALSE
      OBVIOUS
    <3>1. k \in 1..Len(r) /\ k \in 1..k
      BY <1>1, <2>1
    <3>2. SlotOf(r[q]) < SlotOf(r[k])
      BY <1>1, <2>1, <3>1
    <3> QED
      BY <1>2, <1>8, <1>10, <2>2, <3>1, <3>2
  <2>5. q = k
    BY <2>1, <2>3, <2>4
  <2>6. IsTail(SubSeq(r, 1, k), Path(b))
    <3>1. Len(SubSeq(r, 1, k)) = k /\ \A i \in 1..k : SubSeq(r, 1, k)[i] = r[i]
      <4>1. \A i \in 1..k : r[i] \in Blocks
        BY <1>1
      <4> QED
        BY <1>1, SubSeqProperties
    <3>2. Path(b) = SubSeq(c, 1, j)
      <4>1. IsPath(SubSeq(c, 1, j)) /\ Newest(SubSeq(c, 1, j)) = b
        BY <1>3, <1>6, PrefixPath
      <4> QED
        BY <4>1, PathOfNewest
    <3>3. Len(SubSeq(c, 1, j)) = j /\ \A i \in 1..j : SubSeq(c, 1, j)[i] = c[i]
      BY <1>3, PrefixPath
    <3>4. k <= j /\ j - k = d
      BY <1>7, <2>1, <2>5
    <3>5. ASSUME NEW i \in 1..k
          PROVE  SubSeq(r, 1, k)[i] = SubSeq(c, 1, j)[j - k + i]
      <4>0. d \in Int /\ j \in Int /\ k \in Int /\ k <= Len(r) /\ 0 <= d
        BY <1>1, <1>7, <2>1, <2>5
      <4>1. /\ i \in 1..Len(r) /\ (j - k) + i = d + i /\ d + i \in 1..j
        BY <1>1, <3>4, <4>0
      <4>2. r[i] = c[d + i]
        BY <1>5, <4>1
      <4>3. SubSeq(r, 1, k)[i] = r[i] /\ SubSeq(c, 1, j)[d + i] = c[d + i]
        BY <3>1, <3>3, <4>1
      <4> QED
        BY <4>1, <4>2, <4>3
    <3> QED
      BY <3>1, <3>2, <3>3, <3>4, <3>5 DEF IsTail
  <2> QED
    BY <1>10, <1>11, <2>1, <2>2, <2>5, <2>6
<1>14. j <= d \/ j > d
  BY <1>4, <1>7
<1> QED
  BY <1>12, <1>13, <1>14

\* One more block, without the oldest ones.
LEMMA TailAppend ==
    ASSUME NEW r \in Seq(Blocks), NEW b \in Blocks,
           r # <<>> => IsTail(r, Path(Newest(r))) /\ Newest(r) = Parent[b],
           NEW o \in 0..Len(r)
    PROVE  LET all == Append(r, b)
               u == SubSeq(all, o + 1, Len(all))
           IN  /\ u \in Seq(Blocks) /\ Len(u) = Len(r) + 1 - o /\ u # <<>>
               /\ Newest(u) = b /\ IsTail(u, Path(b))
               /\ \A i \in 1..Len(u) : u[i] = all[o + i]
<1> DEFINE all == Append(r, b)
           u == SubSeq(all, o + 1, Len(all))
           e == Path(Parent[b])
           c == Append(e, b)
<1>1. Len(r) \in Nat /\ (r = <<>> <=> Len(r) = 0)
  BY LenProperties, EmptySeq
<1>2. /\ all \in Seq(Blocks) /\ Len(all) = Len(r) + 1 /\ all[Len(r) + 1] = b
      /\ \A i \in 1..Len(r) : all[i] = r[i]
  BY AppendProperties
<1>3. Path(b) = c
  BY PathOfChild
<1>4. e \in Seq(Blocks)
  BY PathOf, PointSlots DEF IsPath
<1> HIDE DEF e, all
<1>5. /\ Len(e) \in Nat /\ Len(c) = Len(e) + 1 /\ c[Len(e) + 1] = b
      /\ \A i \in 1..Len(e) : c[i] = e[i]
  BY <1>4, AppendProperties, LenProperties
<1> HIDE DEF c
<1>6. /\ u \in Seq(Blocks) /\ Len(u) = Len(r) + 1 - o
      /\ \A i \in 1..Len(u) : u[i] = all[o + i]
  <2>1. /\ \A i \in (o + 1)..Len(all) : all[i] \in Blocks
        /\ o + 1 \in 1..(Len(all) + 1) /\ Len(all) \in o..Len(all)
        /\ o + 1 <= Len(all) /\ o + 1 \in Nat /\ Len(all) \in Nat
    BY <1>1, <1>2, ElementOfSeq
  <2> QED
    BY <1>1, <1>2, <2>1, SubSeqProperties
<1> HIDE DEF u
<1>7. u # <<>> /\ Newest(u) = b
  <2>1. Len(u) # 0 /\ Len(u) \in 1..Len(u) /\ o + Len(u) = Len(r) + 1
    BY <1>1, <1>6
  <2> QED
    BY <1>2, <1>6, <2>1, NewestOf
<1>8. Len(r) <= Len(e) /\ \A i \in 1..Len(r) : r[i] = e[Len(e) - Len(r) + i]
  <2>1. CASE r = <<>>
    BY <1>1, <1>5, <2>1
  <2>2. CASE r # <<>>
    BY <2>2 DEF IsTail, e
  <2> QED
    BY <2>1, <2>2
<1>9. IsTail(u, c)
  <2>1. Len(u) <= Len(c)
    BY <1>1, <1>5, <1>6, <1>8
  <2>2. ASSUME NEW i \in 1..Len(u) PROVE u[i] = c[Len(c) - Len(u) + i]
    <3>1. /\ u[i] = all[o + i] /\ o + i \in 1..(Len(r) + 1) /\ o + i \in Nat
          /\ (Len(c) - Len(u)) + i = (Len(e) - Len(r)) + (o + i)
      BY <1>1, <1>5, <1>6
    <3>2. CASE o + i = Len(r) + 1
      <4>1. (Len(e) - Len(r)) + (o + i) = Len(e) + 1
        BY <1>1, <1>5, <3>2
      <4> QED
        BY <1>2, <1>5, <3>1, <3>2, <4>1
    <3>3. CASE o + i # Len(r) + 1
      <4>1. /\ o + i \in 1..Len(r)
            /\ (Len(e) - Len(r)) + (o + i) \in 1..Len(e)
        <5>1. Len(r) <= Len(e)
          BY <1>8
        <5>2. o + i \in 1..Len(r)
          BY <1>1, <3>1, <3>3
        <5> QED
          BY <1>1, <1>5, <5>1, <5>2
      <4> QED
        BY <1>2, <1>5, <1>8, <3>1, <4>1
    <3> QED
      BY <3>2, <3>3
  <2> QED
    BY <2>1, <2>2 DEF IsTail
<1> QED
  BY <1>3, <1>6, <1>7, <1>9 DEF all, u

-----------------------------------------------------------------------------
(* Peers: steps that leave a stream alone                                  *)

\* The stream of a peer when a step changes none of its parts.
LEMMA SameStream ==
    ASSUME NEW p \in Peers, StreamFine(p),
           Stream(p)' = Stream(p), view'[p] = view[p],
           intersection'[p] = intersection[p],
           NodePoints \subseteq NodePoints',
           p \in deep => p \in deep',
           p \in needsInitialRollback' => p \in needsInitialRollback,
           p \in awaiting' => p \in awaiting,
           Len(blockChan[p]) \in Nat, Len(blockChan'[p]) \in Nat,
           Len(blockChan[p]) <= Len(blockChan'[p])
    PROVE  StreamFine(p)'
<1>1. PICK m \in 0..Len(blockChan[p]) : StreamOK(p, m)
  BY DEF StreamFine
<1>2. m \in 0..Len(blockChan'[p])
  OBVIOUS
<1>3. /\ Flow(Stream(p)', view'[p], m)
      /\ TipOf(Stream(p)', view'[p], Len(Stream(p)')) \in NodePoints'
      /\ p \notin deep' => Ahead(Stream(p)', view'[p], intersection'[p], m)
      /\ m > 0 \/ p \in needsInitialRollback' =>
            Newest(view'[p]) = intersection'[p] /\ p \notin awaiting'
  BY <1>1 DEF StreamOK
<1> QED
  BY <1>2, <1>3 DEF StreamFine, StreamOK

\* Nothing is published while the lock is free.
LEMMA NoneSending ==
    ASSUME PeerTypes
    PROVE  /\ NotPublishing.todo = {} /\ publishing.todo \subseteq subs
           /\ publishing # NotPublishing => publishing \in Sending
           /\ \A p \in Peers : /\ blockChan[p] \in Seq(Item)
                               /\ Len(blockChan[p]) \in Nat
           /\ \A p \in Peers : p \in publishing.todo => publishing.item \in Item
<1>1. NotPublishing.todo = {}
  BY DEF NotPublishing
<1>2. publishing # NotPublishing => publishing \in Sending
  BY DEF PeerTypes
<1>3. publishing.todo \subseteq subs
  BY <1>1, <1>2 DEF Sending
<1>4. \A p \in Peers : p \in publishing.todo => publishing.item \in Item
  BY <1>1, <1>2 DEF Sending
<1>5. \A p \in Peers : blockChan[p] \in Seq(Item)
  BY DEF PeerTypes
<1>6. \A p \in Peers : Len(blockChan[p]) \in Nat
  BY <1>5, LenProperties
<1> QED
  BY <1>1, <1>2, <1>3, <1>4, <1>5, <1>6

\* What is on its way to a peer.
LEMMA StreamType ==
    ASSUME PeerTypes, NEW p \in Peers
    PROVE  /\ Stream(p) \in Seq(Item) /\ Len(Stream(p)) \in Nat
           /\ Len(blockChan[p]) <= Len(Stream(p))
           /\ \A j \in 1..Len(blockChan[p]) : Stream(p)[j] = blockChan[p][j]
           /\ p \notin publishing.todo => Stream(p) = blockChan[p]
<1>1. blockChan[p] \in Seq(Item) /\ Len(blockChan[p]) \in Nat
  BY NoneSending
<1>2. CASE p \in publishing.todo
  <2>1. publishing.item \in Item /\ Stream(p) = Append(blockChan[p], publishing.item)
    BY <1>2, NoneSending DEF Stream
  <2>2. /\ Stream(p) \in Seq(Item) /\ Len(Stream(p)) = Len(blockChan[p]) + 1
        /\ \A j \in 1..Len(blockChan[p]) : Stream(p)[j] = blockChan[p][j]
    BY <1>1, <2>1, AppendProperties
  <2> QED
    BY <1>1, <1>2, <2>2
<1>3. CASE p \notin publishing.todo
  BY <1>1, <1>3 DEF Stream
<1> QED
  BY <1>2, <1>3

\* The pipeline goes on and no peer is concerned.
LEMMA QuietStep ==
    ASSUME PeerInv, UNCHANGED peerVars, up' = up,
           NodePoints \subseteq NodePoints',
           publishing # NotPublishing => queue' # <<>> /\ stage' = "spectrum"
    PROVE  PeerInv'
<1>1. UNCHANGED <<recentBlocks, subs, publishing, blockChan, intersection,
                  needsInitialRollback, conns, found, awaiting, view, cutOff,
                  deep, outrun>>
  BY DEF peerVars, serverVars, connVars
<1>2. PeerTypes'
  BY <1>1 DEF PeerInv, PeerTypes, Sending
<1>3. RecentInv'
  BY <1>1 DEF PeerInv, RecentInv
<1>4. FoundInv'
  BY <1>1 DEF PeerInv, FoundInv, Continues
<1>5. ViewInv'
  BY <1>1 DEF PeerInv, ViewInv
<1>6. StreamInv'
  <2> SUFFICES ASSUME NEW p \in ((conns \cap subs) \ cutOff)' PROVE StreamFine(p)'
    BY DEF StreamInv
  <2>1. p \in Peers /\ StreamFine(p)
    BY <1>1 DEF PeerInv, PeerTypes, StreamInv
  <2>2. Len(blockChan[p]) \in Nat /\ Len(blockChan[p]) <= Len(blockChan[p])
    BY <2>1, NoneSending DEF PeerInv
  <2>3. Stream(p)' = Stream(p)
    BY <1>1 DEF Stream
  <2>4. /\ view'[p] = view[p] /\ intersection'[p] = intersection[p]
        /\ blockChan'[p] = blockChan[p]
        /\ p \in deep => p \in deep'
        /\ p \in needsInitialRollback' => p \in needsInitialRollback
        /\ p \in awaiting' => p \in awaiting
    BY <1>1
  <2> QED
    BY <2>1, <2>2, <2>3, <2>4, SameStream
<1>7. DownInv' /\ LockInv'
  BY <1>1 DEF PeerInv, DownInv, LockInv
<1>8. CutOffOnlyByDeepRollback'
  BY <1>1 DEF PeerInv, CutOffOnlyByDeepRollback
<1> QED
  BY <1>2, <1>3, <1>4, <1>5, <1>6, <1>7, <1>8 DEF PeerInv

\* The end of the process: no peer is left.
LEMMA PeersGoneStep ==
    ASSUME PeersGone
    PROVE  PeerInv'
<1>1. <<>> \in Seq(Blocks) /\ <<>> \in Seq(Item) /\ Len(<<>>) = 0 /\ IsPath(<<>>)
  BY DEF IsPath
<1>2. /\ recentBlocks' = <<>> /\ subs' = {} /\ publishing' = NotPublishing
      /\ blockChan' = [p \in Peers |-> <<>>]
      /\ intersection' = [p \in Peers |-> Genesis]
      /\ needsInitialRollback' = {} /\ awaiting' = {} /\ conns' = {}
      /\ found' = [p \in Peers |-> None]
      /\ view' = [p \in Peers |-> <<>>]
      /\ cutOff' = {} /\ deep' = {} /\ outrun' = {}
  BY DEF PeersGone
<1>3. PeerTypes'
  <2>1. /\ blockChan' \in [Peers -> Seq(Item)] /\ view' \in [Peers -> Seq(Blocks)]
        /\ intersection' \in [Peers -> Points]
        /\ found' \in [Peers -> Blocks \cup {None}]
    BY <1>1, <1>2 DEF Points
  <2> QED
    BY <1>1, <1>2, <2>1, BufferAssumption DEF PeerTypes
<1>4. RecentInv' /\ FoundInv' /\ ViewInv' /\ StreamInv'
  BY <1>1, <1>2 DEF RecentInv, FoundInv, ViewInv, StreamInv
<1>5. DownInv' /\ LockInv' /\ CutOffOnlyByDeepRollback'
  BY <1>2 DEF DownInv, LockInv, CutOffOnlyByDeepRollback
<1> QED
  BY <1>3, <1>4, <1>5 DEF PeerInv

\* The start of the process: no peer is there yet.
LEMMA RestartPeers ==
    ASSUME PeerInv, ~up, UNCHANGED peerVars
    PROVE  PeerInv'
<1>1. UNCHANGED <<recentBlocks, subs, publishing, blockChan, intersection,
                  needsInitialRollback, conns, found, awaiting, view, cutOff,
                  deep, outrun>>
  BY DEF peerVars, serverVars, connVars
<1>2. /\ recentBlocks = <<>> /\ subs = {} /\ conns = {}
      /\ publishing = NotPublishing
      /\ \A p \in Peers : found[p] = None
  BY DEF PeerInv, DownInv
<1>3. PeerTypes'
  BY <1>1 DEF PeerInv, PeerTypes, Sending
<1>4. RecentInv' /\ FoundInv' /\ ViewInv' /\ StreamInv'
  BY <1>1, <1>2 DEF PeerInv, RecentInv, FoundInv, ViewInv, StreamInv
<1>5. DownInv' /\ LockInv' /\ CutOffOnlyByDeepRollback'
  BY <1>1, <1>2 DEF PeerInv, DownInv, LockInv, CutOffOnlyByDeepRollback
<1> QED
  BY <1>3, <1>4, <1>5 DEF PeerInv

-----------------------------------------------------------------------------
(* Peers: the node's handler                                               *)

\* A client that is not ahead of its intersection gets there.
LEMMA AheadTip ==
    ASSUME NEW s \in Seq(Item), NEW v \in Seq(Blocks), NEW t \in Points,
           NEW m \in 0..Len(s), Flow(s, v, m), Ahead(s, v, t, m)
    PROVE  SlotOf(t) <= SlotOf(TipOf(s, v, Len(s)))
<1>1. Len(s) \in Nat /\ Len(s) \in 0..Len(s)
  BY LenProperties
<1>2. CASE m = Len(s)
  BY <1>2 DEF Flow, Ahead
<1>3. CASE m # Len(s)
  <2>1. Len(s) \in (m + 1)..Len(s) /\ Len(s) # 0
    BY <1>1, <1>3
  <2>2. SlotOf(t) < SlotOf(s[Len(s)].block) /\ TipOf(s, v, Len(s)) = s[Len(s)].block
    BY <2>1 DEF Ahead, TipOf
  <2>3. SlotOf(t) \in Nat /\ SlotOf(TipOf(s, v, Len(s))) \in Nat
    BY <1>1, TipPoint, PointSlots
  <2> QED
    BY <2>2, <2>3
<1> QED
  BY <1>2, <1>3

\* The lock is taken and an item is on its way to every subscriber.
LEMMA PublishStreams ==
    ASSUME PeerInv, Unlocked, NEW it \in Item, Publish(it),
           UNCHANGED <<subs, connVars, view, cutOff>>,
           NodePoints' = {it.block}, \A x \in NodePoints : Fits(x, it),
           deep \subseteq deep',
           \A p \in subs, x \in NodePoints :
              p \notin deep' /\ SlotOf(intersection[p]) <= SlotOf(x)
                => SlotOf(intersection[p]) < SlotOf(it.block)
    PROVE  StreamInv'
<1> SUFFICES ASSUME NEW p \in ((conns \cap subs) \ cutOff)' PROVE StreamFine(p)'
  BY DEF StreamInv
<1>1. p \in Peers /\ p \in subs /\ StreamFine(p) /\ PeerTypes
  BY DEF PeerInv, PeerTypes, StreamInv, connVars
<1>2. /\ blockChan'[p] = blockChan[p] /\ view'[p] = view[p]
      /\ intersection'[p] = intersection[p]
      /\ needsInitialRollback' = needsInitialRollback /\ awaiting' = awaiting
  BY DEF connVars
<1> DEFINE s == blockChan[p]
           v == view[p]
           t == intersection[p]
           u == Append(s, it)
<1>3. /\ s \in Seq(Item) /\ Len(s) \in Nat /\ v \in Seq(Blocks) /\ t \in Points
  BY <1>1, NoneSending DEF PeerTypes
<1>4. Stream(p) = s
  BY <1>1, NoneSending DEF Stream, Unlocked
<1>5. Stream(p)' = u
  <2>1. publishing' = [item |-> it, todo |-> subs]
    BY <1>1 DEF Publish
  <2>2. publishing'.item = it /\ p \in publishing'.todo
    BY <1>1, <2>1
  <2> QED
    BY <1>2, <2>2 DEF Stream
<1>6. PICK m \in 0..Len(s) : StreamOK(p, m)
  BY <1>1 DEF StreamFine
<1>7. /\ Flow(s, v, m) /\ TipOf(s, v, Len(s)) \in NodePoints
      /\ p \notin deep => Ahead(s, v, t, m)
      /\ m > 0 \/ p \in needsInitialRollback =>
            Newest(v) = t /\ p \notin awaiting
  BY <1>4, <1>6 DEF StreamOK
<1> HIDE DEF s, v, t, u
<1>8. /\ u \in Seq(Item) /\ Len(u) = Len(s) + 1 /\ Flow(u, v, m)
      /\ TipOf(u, v, Len(u)) = it.block
      /\ \A j \in 1..Len(s) : u[j] = s[j]
      /\ u[Len(s) + 1] = it
  <2>1. Fits(TipOf(s, v, Len(s)), it)
    BY <1>7
  <2> QED
    BY <1>3, <1>6, <1>7, <2>1, FlowAppend DEF u
<1>9. ASSUME p \notin deep' PROVE Ahead(u, v, t, m)
  <2>1. Ahead(s, v, t, m)
    BY <1>7, <1>9
  <2>2. SlotOf(t) <= SlotOf(TipOf(s, v, Len(s)))
    BY <1>3, <1>6, <1>7, <2>1, AheadTip
  <2>3. SlotOf(t) < SlotOf(it.block)
    BY <1>1, <1>7, <1>9, <2>2 DEF t
  <2>4. ASSUME NEW j \in (m + 1)..Len(u) PROVE SlotOf(t) < SlotOf(u[j].block)
    <3>1. CASE j = Len(s) + 1
      BY <1>8, <2>3, <3>1
    <3>2. CASE j # Len(s) + 1
      <4>1. j \in 1..Len(s) /\ j \in (m + 1)..Len(s)
        BY <1>3, <1>6, <1>8, <3>2
      <4> QED
        BY <1>8, <2>1, <4>1 DEF Ahead
    <3> QED
      BY <3>1, <3>2
  <2> QED
    BY <2>1, <2>4 DEF Ahead
<1>10. m \in 0..Len(blockChan'[p])
  BY <1>2, <1>6 DEF s
<1>11. /\ Flow(Stream(p)', view'[p], m)
       /\ TipOf(Stream(p)', view'[p], Len(Stream(p)')) \in NodePoints'
       /\ p \notin deep' => Ahead(Stream(p)', view'[p], intersection'[p], m)
       /\ m > 0 \/ p \in needsInitialRollback' =>
             Newest(view'[p]) = intersection'[p] /\ p \notin awaiting'
  BY <1>2, <1>5, <1>7, <1>8, <1>9 DEF v, t
<1> QED
  BY <1>10, <1>11 DEF StreamFine, StreamOK

\* The item that is sent is one to the subscribers there are.
LEMMA PublishTypes ==
    ASSUME NEW it \in Item, Publish(it), subs' = subs
    PROVE  publishing' = NotPublishing \/ publishing' \in Sending'
<1>1. CASE subs = {}
  BY <1>1 DEF Publish
<1>2. CASE subs # {}
  <2>1. publishing' = [item |-> it, todo |-> subs]
    BY <1>2 DEF Publish
  <2> QED
    BY <1>2, <2>1 DEF Sending
<1> QED
  BY <1>1, <1>2

\* The node adds a block.
LEMMA AddBlockStep ==
    ASSUME PeerInv, NEW b \in Blocks, AddBlock(b),
           NodePoints = {Parent[b]}, NodePoints' = {b},
           up, up', queue' # <<>>, stage' = "spectrum"
    PROVE  PeerInv'
<1> DEFINE r == recentBlocks
           all == Append(r, b)
           o == IF Len(r) + 1 > MaxRecent THEN 1 ELSE 0
           u == SubSeq(all, o + 1, Len(all))
<1>1. /\ r \in Seq(Blocks) /\ Len(r) <= MaxRecent /\ PeerTypes
  BY DEF PeerInv, PeerTypes
<1>2. /\ Len(r) \in Nat /\ all \in Seq(Blocks) /\ Len(all) = Len(r) + 1
      /\ all[Len(r) + 1] = b /\ \A i \in 1..Len(r) : all[i] = r[i]
  BY <1>1, AppendProperties, LenProperties
<1>3. /\ Unlocked /\ Publish(BlockItem(b))
      /\ UNCHANGED <<subs, connVars, view, cutOff, deep>>
      /\ BlockItem(b) \in Item
  BY DEF AddBlock, BlockItem, Item, Points
<1>4. MaxRecent \in Nat /\ MaxRecent # 0
  BY BufferAssumption
<1>5. recentBlocks' = u
  <2>1. CASE o = 1
    <3>1. Len(all) - MaxRecent = 1 /\ Len(all) - MaxRecent > 0
      BY <1>1, <1>2, <1>4, <2>1
    <3>2. recentBlocks' = SubSeq(all, (Len(all) - MaxRecent) + 1, Len(all))
      BY <3>1 DEF AddBlock
    <3> QED
      BY <2>1, <3>1, <3>2
  <2>2. CASE o = 0
    <3>1. ~(Len(all) - MaxRecent > 0)
      BY <1>1, <1>2, <1>4, <2>2
    <3>2. recentBlocks' = all
      BY <3>1 DEF AddBlock
    <3>3. SubSeq(all, 1, Len(all)) = all
      BY <1>2, SubSeqFull
    <3> QED
      BY <2>2, <3>2, <3>3
  <2> QED
    BY <2>1, <2>2
<1>6. ASSUME o = 1
      PROVE  outrun' = outrun \cup {p \in Peers : found[p] # None
                                       /\ SlotOf(all[1]) > SlotOf(found[p])}
  <2>1. Len(all) - MaxRecent = 1 /\ Len(all) - MaxRecent > 0
    BY <1>1, <1>2, <1>4, <1>6
  <2>2. outrun' = outrun \cup {p \in Peers : found[p] # None
                        /\ SlotOf(all[Len(all) - MaxRecent]) > SlotOf(found[p])}
    BY <2>1 DEF AddBlock
  <2> QED
    BY <2>1, <2>2
<1>7. outrun \subseteq outrun'
  BY DEF AddBlock
<1>8. o \in 0..Len(r) /\ Len(r) + 1 - o <= MaxRecent /\ (o = 1 => r # <<>> /\ Len(r) >= 1)
  BY <1>1, <1>2, <1>4
<1>9. r # <<>> => IsTail(r, Path(Newest(r))) /\ Newest(r) = Parent[b]
  BY DEF PeerInv, RecentInv
<1> HIDE DEF o, r
<1>10. /\ u \in Seq(Blocks) /\ Len(u) = Len(r) + 1 - o /\ u # <<>>
       /\ Newest(u) = b /\ IsTail(u, Path(b))
       /\ \A i \in 1..Len(u) : u[i] = all[o + i]
  BY <1>1, <1>8, <1>9, TailAppend
<1>11. DOMAIN u = 1..Len(u) /\ Len(u) \in Nat /\ DOMAIN r = 1..Len(r)
  BY <1>1, <1>10, LenProperties
<1> HIDE DEF u, all
<1>12. PeerTypes'
  <2>1. publishing' = NotPublishing \/ publishing' \in Sending'
    BY <1>3, PublishTypes
  <2> QED
    BY <1>1, <1>3, <1>5, <1>8, <1>10, <2>1 DEF PeerTypes, connVars
<1>13. RecentInv'
  BY <1>5, <1>10 DEF RecentInv
<1>14. FoundInv'
  <2> SUFFICES ASSUME NEW p \in Peers, found'[p] # None
               PROVE  /\ p \notin subs'
                      /\ p \in conns' => view'[p] = Path(found'[p])
                      /\ p \notin deep' \cup outrun' => Continues(found[p])'
    BY DEF FoundInv
  <2>1. found' = found /\ conns' = conns /\ subs' = subs /\ view' = view /\ deep' = deep
    BY <1>3 DEF connVars
  <2>2. /\ p \notin subs /\ (p \in conns => view[p] = Path(found[p]))
        /\ p \notin deep \cup outrun => Continues(found[p])
    BY <2>1 DEF PeerInv, FoundInv
  <2>3. ASSUME p \notin deep' \cup outrun' PROVE Continues(found[p])'
    <3> DEFINE f == found[p]
    <3>1. /\ f \in ToSet(r) \/ (r # <<>> /\ Parent[r[1]] = f)
          /\ f \in Blocks
      BY <1>1, <1>7, <2>1, <2>2, <2>3 DEF Continues, PeerTypes, r
    <3>2. r # <<>> /\ Len(r) >= 1
      BY <1>1, <3>1, EmptySeq, NewestOf DEF ToSet
    <3>3. f \in ToSet(u) \/ (u # <<>> /\ Parent[u[1]] = f)
      <4>1. 1 \in 1..Len(r) /\ 1 \in 1..Len(u) /\ all[1] = r[1] /\ o \in {0, 1}
        BY <1>2, <1>8, <1>10, <3>2 DEF o
      <4>2. u[1] = all[o + 1]
        BY <1>10, <4>1
      <4>3. CASE o = 0
        <5>1. \A i \in 1..Len(r) : i \in 1..Len(u) /\ o + i = i
          BY <1>2, <1>10, <4>3
        <5>2. \A i \in 1..Len(r) : u[i] = r[i]
          BY <1>2, <1>10, <5>1
        <5>3. f \in ToSet(r) => f \in ToSet(u)
          BY <1>11, <5>1, <5>2 DEF ToSet
        <5> QED
          BY <1>10, <3>1, <4>1, <5>2, <5>3
      <4>4. CASE o = 1
        <5>1. ~(SlotOf(r[1]) > SlotOf(f))
          BY <1>6, <2>1, <2>3, <4>1, <4>4
        <5>2. r[1] \in Blocks /\ SlotOf(Parent[r[1]]) < SlotOf(r[1])
          BY <1>1, <4>1, ElementOfSeq, PointSlots
        <5>3. Parent[r[1]] # f
          BY <5>1, <5>2, PointSlots DEF Points
        <5>4. PICK i \in 1..Len(r) : f = r[i]
          BY <1>11, <3>1, <5>3 DEF ToSet
        <5>5. CASE i = 1
          <6>1. u[1] = all[2]
            BY <4>2, <4>4
          <6>2. Parent[all[2]] = r[1]
            <7>1. CASE Len(r) = 1
              <8>1. Newest(r) = r[1] /\ all[2] = b
                BY <1>1, <1>2, <3>2, <7>1, NewestOf
              <8> QED
                BY <1>9, <3>2, <8>1
            <7>2. CASE Len(r) # 1
              <8>1. 2 \in 2..Len(r) /\ 2 \in 1..Len(r) /\ 2 - 1 = 1
                <9>1. Len(r) \in Nat /\ Len(r) >= 1 /\ Len(r) # 1
                  BY <1>2, <3>2, <7>2
                <9> QED
                  BY <9>1
              <8>2. Parent[r[2]] = r[2 - 1]
                BY <1>1, <1>9, <3>2, <8>1, TailFacts
              <8> QED
                BY <1>2, <8>1, <8>2
            <7> QED
              BY <7>1, <7>2
          <6> QED
            BY <1>10, <5>4, <5>5, <6>1, <6>2
        <5>6. CASE i # 1
          <6>1. i - 1 \in 1..Len(u) /\ o + (i - 1) = i
            BY <1>2, <1>10, <4>4, <5>4, <5>6
          <6>2. u[i - 1] = r[i]
            BY <1>2, <1>10, <5>4, <6>1
          <6> QED
            BY <1>11, <5>4, <6>1, <6>2 DEF ToSet
        <5> QED
          BY <5>5, <5>6
      <4> QED
        BY <4>1, <4>3, <4>4
    <3> QED
      BY <1>5, <2>1, <3>3 DEF Continues
  <2> QED
    BY <2>1, <2>2, <2>3
<1>15. ViewInv'
  BY <1>3 DEF PeerInv, ViewInv, connVars
<1>16. StreamInv'
  <2>1. /\ \A x \in NodePoints : Fits(x, BlockItem(b))
        /\ BlockItem(b).block = b
    BY DEF Fits, BlockItem
  <2>2. ASSUME NEW p \in subs, NEW x \in NodePoints,
               SlotOf(intersection[p]) <= SlotOf(x)
        PROVE  SlotOf(intersection[p]) < SlotOf(b)
    <3>1. intersection[p] \in Points
      BY <1>1 DEF PeerTypes
    <3>2. SlotOf(Parent[b]) < SlotOf(b) /\ SlotOf(Parent[b]) \in Nat
          /\ SlotOf(b) \in Nat /\ SlotOf(intersection[p]) \in Nat
      BY <3>1, PointSlots DEF Points
    <3> QED
      BY <2>2, <3>2
  <2> QED
    BY <1>3, <2>1, <2>2, PublishStreams
<1>17. DownInv' /\ LockInv'
  BY DEF DownInv, LockInv
<1>18. CutOffOnlyByDeepRollback'
  BY <1>3, <1>7 DEF PeerInv, CutOffOnlyByDeepRollback
<1> QED
  BY <1>12, <1>13, <1>14, <1>15, <1>16, <1>17, <1>18 DEF PeerInv

\* The node rolls back.
LEMMA RollbackStep ==
    ASSUME PeerInv, NEW b \in Points, Rollback(b),
           NodePoints = {x \in Points : Anc(b, x)}, NodePoints' = {b},
           up, up', queue' # <<>>, stage' = "spectrum"
    PROVE  PeerInv'
<1> DEFINE r == recentBlocks
           u == UpTo(SlotOf(b), r)
<1>1. /\ r \in Seq(Blocks) /\ Len(r) <= MaxRecent /\ PeerTypes /\ Len(r) \in Nat
  BY LenProperties DEF PeerInv, PeerTypes
<1>2. /\ Unlocked /\ Publish(RollbackItem(b)) /\ recentBlocks' = u
      /\ UNCHANGED <<subs, connVars, view, cutOff, outrun>>
      /\ RollbackItem(b) \in Item /\ deep \subseteq deep'
  BY DEF Rollback, RollbackItem, Item
<1>3. deep' = deep \cup
         {p \in Peers : \/ p \in subs /\ SlotOf(b) <= SlotOf(intersection[p])
                        \/ found[p] # None /\ SlotOf(b) <= SlotOf(found[p])}
  BY DEF Rollback
<1>4. SlotOf(b) \in Nat
  BY PointSlots
<1>5. r # <<>> => IsTail(r, Path(Newest(r))) /\ Anc(b, Newest(r))
  BY DEF PeerInv, RecentInv
<1>6. PICK k \in 0..Len(r) :
              /\ u = SubSeq(r, 1, k)
              /\ \A i \in 1..Len(r) : SlotOf(r[i]) <= SlotOf(b) => i <= k
              /\ k > 0 => r[k] = b /\ IsTail(SubSeq(r, 1, k), Path(b))
              /\ r # <<>> /\ SlotOf(Parent[r[1]]) < SlotOf(b) => k > 0
  <2>1. CASE r # <<>>
    <3> HIDE DEF r
    <3> QED
      BY <1>1, <1>5, <2>1, TailUpTo
  <2>2. CASE r = <<>>
    <3>1. PICK k \in 0..Len(r) : u = SubSeq(r, 1, k)
      <4> HIDE DEF r
      <4> QED
        BY <1>1, <1>4, UpToPrefix
    <3>2. Len(r) = 0
      BY <2>2
    <3> QED
      BY <2>2, <3>1, <3>2
  <2> QED
    BY <2>1, <2>2
<1> HIDE DEF r
<1>7. u \in Seq(Blocks) /\ Len(u) = k /\ \A i \in 1..k : u[i] = r[i]
  <2>1. \A i \in 1..k : r[i] \in Blocks
    BY <1>1, ElementOfSeq
  <2> QED
    BY <1>1, <1>6, <2>1, SubSeqProperties
<1>8. DOMAIN u = 1..k /\ DOMAIN r = 1..Len(r)
  BY <1>1, <1>7, LenProperties
<1> HIDE DEF u
<1>9. PeerTypes'
  <2>1. publishing' = NotPublishing \/ publishing' \in Sending'
    BY <1>2, PublishTypes
  <2>2. Len(u) <= MaxRecent
    BY <1>1, <1>6, <1>7, BufferAssumption
  <2> QED
    BY <1>1, <1>2, <1>7, <2>1, <2>2 DEF PeerTypes, connVars
<1>10. RecentInv'
  <2>1. u # <<>> => k > 0 /\ Newest(u) = r[k]
    <3>1. u # <<>> => Len(u) >= 1 /\ Newest(u) = u[Len(u)]
      BY <1>7, NewestOf
    <3>2. k >= 1 => k > 0 /\ k \in 1..k
      BY <1>6
    <3> QED
      BY <1>7, <3>1, <3>2
  <2> QED
    BY <1>2, <1>6, <2>1 DEF RecentInv
<1>11. FoundInv'
  <2> SUFFICES ASSUME NEW p \in Peers, found'[p] # None
               PROVE  /\ p \notin subs'
                      /\ p \in conns' => view'[p] = Path(found'[p])
                      /\ p \notin deep' \cup outrun' => Continues(found[p])'
    BY DEF FoundInv
  <2>1. found' = found /\ conns' = conns /\ subs' = subs /\ view' = view /\ outrun' = outrun
    BY <1>2 DEF connVars
  <2>2. /\ p \notin subs /\ (p \in conns => view[p] = Path(found[p]))
        /\ p \notin deep \cup outrun => Continues(found[p])
    BY <2>1 DEF PeerInv, FoundInv
  <2>3. ASSUME p \notin deep' \cup outrun' PROVE Continues(found[p])'
    <3> DEFINE f == found[p]
    <3>1. /\ f \in ToSet(r) \/ (r # <<>> /\ Parent[r[1]] = f)
          /\ f \in Blocks
      BY <1>1, <1>2, <2>1, <2>2, <2>3 DEF Continues, PeerTypes, r
    <3>2. ~(SlotOf(b) <= SlotOf(f)) /\ SlotOf(f) \in Nat
      BY <1>3, <2>1, <2>3, <3>1, PointSlots DEF Points
    <3>3. SlotOf(f) < SlotOf(b)
      BY <1>4, <3>2
    <3> HIDE DEF f
    <3>4. CASE f \in ToSet(r)
      <4>1. PICK i \in 1..Len(r) : f = r[i]
        BY <1>8, <3>4 DEF ToSet
      <4>2. i <= k
        BY <1>4, <1>6, <3>2, <3>3, <4>1
      <4>3. i \in 1..k
        BY <1>1, <4>1, <4>2
      <4>4. f \in ToSet(u)
        BY <1>7, <1>8, <4>1, <4>3 DEF ToSet
      <4> QED
        BY <1>2, <2>1, <4>4 DEF Continues, f
    <3>5. CASE r # <<>> /\ Parent[r[1]] = f
      <4>1. k > 0
        BY <1>6, <3>3, <3>5
      <4>2. 1 \in 1..k /\ u # <<>>
        BY <1>7, <4>1, EmptySeq
      <4>3. u[1] = r[1]
        BY <1>7, <4>2
      <4> QED
        BY <1>2, <2>1, <3>5, <4>2, <4>3 DEF Continues, f
    <3> QED
      BY <3>1, <3>4, <3>5
  <2> QED
    BY <2>1, <2>2, <2>3
<1>12. ViewInv'
  BY <1>2 DEF PeerInv, ViewInv, connVars
<1>13. StreamInv'
  <2>1. /\ \A x \in NodePoints : Fits(x, RollbackItem(b))
        /\ RollbackItem(b).block = b
    BY DEF Fits, RollbackItem
  <2>2. ASSUME NEW p \in subs, p \notin deep'
        PROVE  SlotOf(intersection[p]) < SlotOf(b)
    <3>1. p \in Peers /\ intersection[p] \in Points
      BY <1>1 DEF PeerTypes
    <3>2. ~(SlotOf(b) <= SlotOf(intersection[p]))
      BY <1>3, <2>2, <3>1
    <3> QED
      BY <1>4, <3>1, <3>2, PointSlots
  <2> QED
    BY <1>2, <2>1, <2>2, PublishStreams
<1>14. DownInv' /\ LockInv'
  BY DEF DownInv, LockInv
<1>15. CutOffOnlyByDeepRollback'
  BY <1>2 DEF PeerInv, CutOffOnlyByDeepRollback
<1> QED
  BY <1>9, <1>10, <1>11, <1>12, <1>13, <1>14, <1>15 DEF PeerInv

-----------------------------------------------------------------------------
(* Peers: a client asks for the next item                                  *)

\* The last items of a sequence.
LEMMA Dropped ==
    ASSUME NEW S, NEW c \in Seq(S), NEW n \in 0..Len(c)
    PROVE  /\ SubSeq(c, n + 1, Len(c)) \in Seq(S)
           /\ Len(SubSeq(c, n + 1, Len(c))) = Len(c) - n
           /\ \A i \in 1..(Len(c) - n) : SubSeq(c, n + 1, Len(c))[i] = c[n + i]
<1> DEFINE u == SubSeq(c, n + 1, Len(c))
<1>1. Len(c) \in Nat /\ n \in Nat
  BY LenProperties
<1>2. CASE n = Len(c)
  <2>1. u = <<>>
    BY <1>1, <1>2, SubSeqEmpty
  <2> QED
    BY <1>1, <1>2, <2>1
<1>3. CASE n # Len(c)
  <2>1. /\ \A i \in (n + 1)..Len(c) : c[i] \in S
        /\ n + 1 \in 1..(Len(c) + 1) /\ n + 1 <= Len(c) /\ n + 1 \in Nat
    BY <1>1, <1>3, ElementOfSeq
  <2>2. u \in Seq(S) /\ Len(u) = Len(c) - (n + 1) + 1
        /\ \A i \in 1..(Len(c) - (n + 1) + 1) : u[i] = c[(n + 1) + i - 1]
    BY <1>1, <2>1, SubSeqProperties
  <2> HIDE DEF u
  <2>3. Len(c) - (n + 1) + 1 = Len(c) - n
    BY <1>1
  <2>4. \A i \in 1..(Len(c) - n) : (n + 1) + i - 1 = n + i
    BY <1>1
  <2> QED
    BY <2>2, <2>3, <2>4 DEF u
<1> QED
  BY <1>2, <1>3

\* And with one more at the end.
LEMMA DropAppend ==
    ASSUME NEW S, NEW c \in Seq(S), NEW x \in S, NEW n \in 0..Len(c)
    PROVE  SubSeq(Append(c, x), n + 1, Len(Append(c, x)))
             = Append(SubSeq(c, n + 1, Len(c)), x)
<1> DEFINE d == Append(c, x)
           e == SubSeq(c, n + 1, Len(c))
           u == SubSeq(d, n + 1, Len(d))
           w == Append(e, x)
<1>1. Len(c) \in Nat /\ n \in Nat
  BY LenProperties
<1>2. /\ d \in Seq(S) /\ Len(d) = Len(c) + 1 /\ d[Len(c) + 1] = x
      /\ \A i \in 1..Len(c) : d[i] = c[i]
  BY AppendProperties
<1> HIDE DEF d
<1>3. /\ e \in Seq(S) /\ Len(e) = Len(c) - n
      /\ \A i \in 1..(Len(c) - n) : e[i] = c[n + i]
  BY Dropped
<1> HIDE DEF e
<1>4. n \in 0..Len(d)
  BY <1>1, <1>2
<1>5. /\ u \in Seq(S) /\ Len(u) = Len(d) - n
      /\ \A i \in 1..(Len(d) - n) : u[i] = d[n + i]
  BY <1>2, <1>4, Dropped
<1>6. /\ w \in Seq(S) /\ Len(w) = Len(e) + 1 /\ w[Len(e) + 1] = x
      /\ \A i \in 1..Len(e) : w[i] = e[i]
  BY <1>3, AppendProperties
<1> HIDE DEF u, w
<1>7. Len(u) = Len(w) /\ Len(u) = (Len(c) - n) + 1
  BY <1>1, <1>2, <1>3, <1>5, <1>6
<1>8. ASSUME NEW i \in 1..Len(u) PROVE u[i] = w[i]
  <2>1. u[i] = d[n + i] /\ i \in Nat
    BY <1>1, <1>2, <1>5
  <2>2. CASE i = (Len(c) - n) + 1
    <3>1. n + i = Len(c) + 1
      BY <1>1, <2>2
    <3> QED
      BY <1>2, <1>3, <1>6, <2>1, <2>2, <3>1
  <2>3. CASE i # (Len(c) - n) + 1
    <3>1. i \in 1..(Len(c) - n) /\ n + i \in 1..Len(c)
      BY <1>1, <1>7, <2>3
    <3> QED
      BY <1>2, <1>3, <1>6, <2>1, <3>1
  <2> QED
    BY <2>2, <2>3
<1>9. u = w
  BY <1>5, <1>6, <1>7, <1>8, SeqEqual
<1> QED
  BY <1>9 DEF d, e, u, w

\* What RequestNext skips.
LEMMA SkippedOf ==
    ASSUME NEW p \in Peers, PeerTypes
    PROVE  /\ Skipped(p) \in 0..Len(blockChan[p])
           /\ \A i \in 1..Skipped(p) :
                 ~(SlotOf(blockChan[p][i].block) > SlotOf(intersection[p]))
           /\ Skipped(p) < Len(blockChan[p]) =>
                 SlotOf(blockChan[p][Skipped(p) + 1].block) > SlotOf(intersection[p])
<1> DEFINE s == blockChan[p]
           newer == {i \in 1..Len(s) : SlotOf(s[i].block) > SlotOf(intersection[p])}
<1>1. Len(s) \in Nat
  BY NoneSending
<1>2. CASE newer = {}
  <2>1. Skipped(p) = Len(s)
    BY <1>2 DEF Skipped
  <2>2. Len(s) \in 0..Len(s) /\ ~(Len(s) < Len(s))
    BY <1>1
  <2>3. \A i \in 1..Len(s) : i \notin newer
    BY <1>2
  <2> QED
    BY <2>1, <2>2, <2>3
<1>3. CASE newer # {}
  <2>1. newer \in SUBSET Nat
    BY <1>1
  <2> DEFINE m == Min(newer)
  <2>2. PICK x \in newer : \A y \in newer : ~(y < x)
    <3> HIDE DEF newer
    <3> QED
      BY <1>3, <2>1, LeastNatural
  <2>3. m \in newer /\ \A y \in newer : m <= y
    <3>1. x \in newer /\ \A y \in newer : x <= y
      BY <2>1, <2>2
    <3> HIDE DEF newer
    <3> QED
      BY <3>1 DEF Min
  <2>4. Skipped(p) = m - 1
    BY <1>3 DEF Skipped
  <2> HIDE DEF m
  <2>5. m \in 1..Len(s) /\ m - 1 \in 0..Len(s) /\ (m - 1) + 1 = m
        /\ SlotOf(s[m].block) > SlotOf(intersection[p])
    BY <1>1, <2>3
  <2>6. ASSUME NEW i \in 1..(m - 1)
        PROVE  ~(SlotOf(s[i].block) > SlotOf(intersection[p]))
    <3>1. i \in 1..Len(s) /\ ~(m <= i)
      BY <1>1, <2>5
    <3> QED
      BY <2>3, <3>1
  <2> QED
    BY <2>4, <2>5, <2>6
<1> QED
  BY <1>2, <1>3

\* What a client keeps of its chain is made of blocks.
LEMMA ApplyType ==
    ASSUME NEW v \in Seq(Blocks), NEW it \in Item
    PROVE  Apply(v, it) \in Seq(Blocks)
<1>1. CASE it.rollback
  <2>1. SlotOf(it.block) \in Nat
    BY PointSlots DEF Item
  <2>2. PICK k \in 0..Len(v) : UpTo(SlotOf(it.block), v) = SubSeq(v, 1, k)
    BY <2>1, UpToPrefix
  <2>3. \A i \in 1..k : v[i] \in Blocks
    BY LenProperties, ElementOfSeq
  <2>4. SubSeq(v, 1, k) \in Seq(Blocks)
    BY <2>3, LenProperties, SubSeqProperties
  <2> QED
    BY <1>1, <2>2, <2>4 DEF Apply
<1>2. CASE ~it.rollback
  BY <1>2, AppendProperties DEF Apply, Item
<1> QED
  BY <1>1, <1>2

\* The items a client still needs follow its newest block; a client is lost
\* only after a deep rollback.
LEMMA RequestStream ==
    ASSUME PeerInv, NEW p \in (conns \cap subs) \ cutOff
    PROVE  LET s == Stream(p)
               n == Skipped(p)
               u == SubSeq(s, n + 1, Len(s))
           IN  /\ p \notin deep => ~Missed(p)
               /\ ~Missed(p) =>
                    /\ u \in Seq(Item) /\ Flow(u, view[p], 0)
                    /\ TipOf(u, view[p], Len(u)) \in NodePoints
                    /\ p \notin deep => Ahead(u, view[p], intersection[p], 0)
<1> DEFINE c == blockChan[p]
           s == Stream(p)
           n == Skipped(p)
           v == view[p]
           t == intersection[p]
           u == SubSeq(s, n + 1, Len(s))
<1>1. /\ p \in Peers /\ PeerTypes /\ StreamFine(p) /\ IsPath(v)
      /\ v \in Seq(Blocks) /\ t \in Points
  BY DEF PeerInv, PeerTypes, StreamInv, ViewInv
<1>2. /\ s \in Seq(Item) /\ Len(s) \in Nat /\ Len(c) <= Len(s)
      /\ \A j \in 1..Len(c) : s[j] = c[j]
  BY <1>1, StreamType
<1>3. c \in Seq(Item) /\ Len(c) \in Nat
  BY <1>1, NoneSending
<1>4. /\ n \in 0..Len(c)
      /\ \A i \in 1..n : ~(SlotOf(c[i].block) > SlotOf(t))
      /\ n < Len(c) => SlotOf(c[n + 1].block) > SlotOf(t)
  BY <1>1, SkippedOf
<1>5. PICK m \in 0..Len(c) : StreamOK(p, m)
  BY <1>1 DEF StreamFine
<1>6. /\ Flow(s, v, m) /\ TipOf(s, v, Len(s)) \in NodePoints
      /\ p \notin deep => Ahead(s, v, t, m)
      /\ m > 0 => Newest(v) = t
  BY <1>5 DEF StreamOK
<1>7. ~Missed(p) => \A i \in 1..n : Needless(v, c[i])
  BY DEF Missed, Needless, Apply
<1>8. (\A i \in 1..n : ~c[i].rollback /\ c[i].block \in ToSet(v)) => ~Missed(p)
  BY DEF Missed
<1> HIDE DEF c, s, n, v, t
<1>9. m <= n
  <2> SUFFICES ASSUME n < m PROVE FALSE
    BY <1>3, <1>4, <1>5
  <2>1. n < Len(c) /\ n + 1 \in 1..m /\ n + 1 \in 1..Len(c) /\ m > 0
    BY <1>3, <1>4, <1>5
  <2>2. s[n + 1].block \in ToSet(v) /\ s[n + 1] = c[n + 1]
    BY <1>2, <1>6, <2>1 DEF Flow
  <2>3. Anc(c[n + 1].block, Newest(v)) /\ Newest(v) \in Points
    BY <1>1, <2>2, AncOnPath
  <2>4. SlotOf(c[n + 1].block) <= SlotOf(t) /\ SlotOf(c[n + 1].block) \in Nat
        /\ SlotOf(t) \in Nat
    BY <1>6, <2>1, <2>3, AncSlots
  <2> QED
    BY <1>4, <2>1, <2>4
<1>10. ASSUME p \notin deep PROVE ~Missed(p) /\ n = m
  <2>1. n = m
    <3> SUFFICES ASSUME n # m PROVE FALSE
      OBVIOUS
    <3>1. m + 1 \in 1..n /\ m + 1 \in 1..Len(c) /\ m + 1 \in (m + 1)..Len(s)
      BY <1>2, <1>3, <1>4, <1>5, <1>9
    <3>2. SlotOf(t) < SlotOf(s[m + 1].block) /\ s[m + 1] = c[m + 1]
      BY <1>2, <1>6, <1>10, <3>1 DEF Ahead
    <3>3. c[m + 1].block \in Points
      BY <1>3, <3>1, ElementOfSeq DEF Item
    <3>4. SlotOf(t) \in Nat /\ SlotOf(c[m + 1].block) \in Nat
      BY <1>1, <3>3, PointSlots
    <3> QED
      BY <1>4, <3>1, <3>2, <3>4
  <2>2. \A i \in 1..n : i \in 1..Len(c)
    BY <1>3, <1>4
  <2>3. \A i \in 1..n : ~c[i].rollback /\ c[i].block \in ToSet(v)
    BY <1>2, <1>6, <2>1, <2>2 DEF Flow
  <2> QED
    BY <1>8, <2>1, <2>3
<1>11. ASSUME ~Missed(p)
       PROVE  /\ u \in Seq(Item) /\ Flow(u, v, 0)
              /\ TipOf(u, v, Len(u)) \in NodePoints
              /\ p \notin deep => Ahead(u, v, t, 0)
  <2>1. m \in 0..Len(s) /\ n \in m..Len(s) /\ \A j \in 1..n : j \in 1..Len(c)
    BY <1>2, <1>3, <1>4, <1>5, <1>9
  <2>2. \A j \in 1..n : Needless(v, s[j])
    BY <1>2, <1>7, <1>11, <2>1
  <2>3. /\ u \in Seq(Item) /\ Len(u) = Len(s) - n
        /\ \A j \in 1..Len(u) : u[j] = s[n + j]
        /\ Flow(u, v, 0)
        /\ TipOf(u, v, Len(u)) = TipOf(s, v, Len(s))
    BY <1>1, <1>2, <1>6, <2>1, <2>2, FlowDrop
  <2> HIDE DEF u
  <2>4. ASSUME p \notin deep PROVE Ahead(u, v, t, 0)
    <3>1. Ahead(s, v, t, m) /\ n = m
      BY <1>6, <1>10, <2>4
    <3>2. ASSUME NEW j \in (0 + 1)..Len(u) PROVE SlotOf(t) < SlotOf(u[j].block)
      <4>1. j \in 1..Len(u) /\ n + j \in (m + 1)..Len(s)
        BY <1>2, <1>4, <2>3, <3>1
      <4> QED
        BY <2>3, <3>1, <4>1 DEF Ahead
    <3> QED
      BY <3>1, <3>2 DEF Ahead
  <2> QED
    BY <1>6, <2>3, <2>4
<1> QED
  BY <1>10, <1>11 DEF c, s, n, v, t, u

\* A client takes the first of the items.
LEMMA TakeItem ==
    ASSUME NEW p \in Peers, NEW u \in Seq(Item), u # <<>>, IsPath(view[p]),
           Flow(u, view[p], 0), TipOf(u, view[p], Len(u)) \in NodePoints,
           p \notin deep => Ahead(u, view[p], intersection[p], 0),
           Len(blockChan'[p]) \in Nat, Stream(p)' = Tail(u),
           view'[p] = Apply(view[p], Head(u)), intersection[p] \in Points,
           NodePoints' = NodePoints, deep' = deep,
           intersection' = intersection, p \notin needsInitialRollback'
    PROVE  /\ StreamFine(p)' /\ IsPath(view'[p])
           /\ Head(u) \in Item /\ Fits(Newest(view[p]), Head(u))
<1> DEFINE v == view[p]
           t == intersection[p]
           w == Apply(v, Head(u))
           x == Tail(u)
<1>1. /\ Fits(Newest(v), Head(u)) /\ Head(u) \in Item /\ Head(u) = u[1]
      /\ x \in Seq(Item) /\ Len(x) = Len(u) - 1
      /\ \A j \in 1..Len(x) : x[j] = u[j + 1]
      /\ Flow(x, w, 0)
      /\ TipOf(x, w, Len(x)) = TipOf(u, v, Len(u))
  BY FlowTail
<1>2. IsPath(w) /\ Newest(w) = u[1].block
  BY <1>1, ApplyFits
<1>3. Len(u) \in Nat /\ Len(u) >= 1
  BY EmptySeq, LenProperties
<1>4. ASSUME p \notin deep PROVE Ahead(x, w, t, 0)
  <2> HIDE DEF w, x
  <2>1. Ahead(u, v, t, 0)
    BY <1>4
  <2>2. 1 \in (0 + 1)..Len(u)
    BY <1>3
  <2>3. SlotOf(t) < SlotOf(Newest(w))
    BY <1>2, <2>1, <2>2 DEF Ahead
  <2>4. Newest(w) \in Points
    BY <1>1, <1>2 DEF Item
  <2>5. SlotOf(t) <= SlotOf(Newest(w))
    BY <2>3, <2>4, PointSlots
  <2>6. ASSUME NEW j \in (0 + 1)..Len(x) PROVE SlotOf(t) < SlotOf(x[j].block)
    <3>1. j \in 1..Len(x) /\ j + 1 \in (0 + 1)..Len(u)
      BY <1>1, <1>3
    <3> QED
      BY <1>1, <2>1, <3>1 DEF Ahead
  <2> QED
    BY <2>5, <2>6 DEF Ahead
<1>5. 0 \in 0..Len(blockChan'[p])
  OBVIOUS
<1>6. /\ Flow(Stream(p)', view'[p], 0)
      /\ TipOf(Stream(p)', view'[p], Len(Stream(p)')) \in NodePoints'
      /\ p \notin deep' => Ahead(Stream(p)', view'[p], intersection'[p], 0)
      /\ 0 > 0 \/ p \in needsInitialRollback' =>
            Newest(view'[p]) = intersection'[p] /\ p \notin awaiting'
  BY <1>1, <1>4
<1>7. StreamFine(p)'
  BY <1>5, <1>6 DEF StreamFine, StreamOK
<1> QED
  BY <1>1, <1>2, <1>7

-----------------------------------------------------------------------------
(* Peers: their steps                                                      *)

\* The indexer's goroutine does nothing.
Serving == up /\ UNCHANGED <<up, followed, queue, stage>>

\* A client's chain is left alone, or changed by an item that fits.
Moved(p) ==
    p \notin cutOff' =>
        \/ view'[p] = view[p]
        \/ /\ IsPath(view[p])
           /\ \E it \in Item :
                 Fits(Newest(view[p]), it) /\ view'[p] = Apply(view[p], it)

\* Peers are served where the node is.
LEMMA ServingNode ==
    ASSUME Serving
    PROVE  NodePoints' = NodePoints /\ up'
BY DEF Serving, NodePoints, NodePending, Event

\* Items for p do not concern another peer.
LEMMA OtherStream ==
    ASSUME PeerInv, Serving, NEW p \in Peers, NEW q \in Peers, q # p,
           q \in conns \cap subs, q \notin cutOff,
           publishing' = publishing, deep' = deep,
           blockChan'[q] = blockChan[q], view'[q] = view[q],
           intersection'[q] = intersection[q],
           q \in needsInitialRollback' => q \in needsInitialRollback,
           q \in awaiting' => q \in awaiting
    PROVE  StreamFine(q)'
<1>1. StreamFine(q) /\ PeerTypes
  BY DEF PeerInv, StreamInv
<1>2. Len(blockChan[q]) \in Nat /\ Len(blockChan[q]) <= Len(blockChan[q])
  BY <1>1, NoneSending
<1>3. Stream(q)' = Stream(q)
  BY DEF Stream
<1>4. NodePoints \subseteq NodePoints'
  BY ServingNode
<1> QED
  BY <1>1, <1>2, <1>3, <1>4, SameStream

\* A client takes the item that is next.
LEMMA SendAwaitedStep ==
    ASSUME PeerInv, Serving, NEW p \in Peers, SendAwaited(p)
    PROVE  PeerInv' /\ Moved(p)
<1> DEFINE c == blockChan[p]
           s == Stream(p)
<1>1. /\ p \in awaiting /\ c # <<>> /\ awaiting' = awaiting \ {p}
      /\ blockChan' = [blockChan EXCEPT ![p] = Tail(c)]
      /\ view' = [view EXCEPT ![p] = Apply(view[p], Head(c))]
      /\ UNCHANGED <<recentBlocks, subs, publishing, intersection,
                     needsInitialRollback, conns, found, cutOff, deep, outrun>>
  BY DEF SendAwaited, serverVars
<1>2. PeerTypes /\ p \in conns /\ p \in subs
  BY <1>1 DEF PeerInv, PeerTypes
<1>3. c \in Seq(Item) /\ Head(c) \in Item /\ Tail(c) \in Seq(Item) /\ Len(Tail(c)) \in Nat
  BY <1>1, <1>2, NoneSending, HeadTailProperties, LenProperties
<1>4. Apply(view[p], Head(c)) \in Seq(Blocks)
  BY <1>2, <1>3, ApplyType DEF PeerTypes
<1>5. PeerTypes'
  <2>1. /\ blockChan' \in [Peers -> Seq(Item)] /\ view' \in [Peers -> Seq(Blocks)]
    BY <1>1, <1>2, <1>3, <1>4 DEF PeerTypes
  <2> QED
    BY <1>1, <1>2, <2>1 DEF PeerTypes, Sending
<1>6. blockChan'[p] = Tail(c) /\ view'[p] = Apply(view[p], Head(c))
  BY <1>1, <1>2 DEF PeerTypes
<1>7. \A q \in Peers : q # p => blockChan'[q] = blockChan[q] /\ view'[q] = view[q]
  BY <1>1, <1>2 DEF PeerTypes
<1>8. ASSUME p \notin cutOff
      PROVE  /\ StreamFine(p)' /\ IsPath(view'[p])
             /\ Head(s) \in Item /\ Fits(Newest(view[p]), Head(s))
             /\ view'[p] = Apply(view[p], Head(s)) /\ IsPath(view[p])
  <2>1. StreamFine(p) /\ IsPath(view[p])
    BY <1>2, <1>8 DEF PeerInv, StreamInv, ViewInv
  <2>2. PICK m \in 0..Len(c) : StreamOK(p, m)
    BY <2>1 DEF StreamFine
  <2>3. m = 0 /\ p \notin needsInitialRollback
    <3>1. ~(m > 0 \/ p \in needsInitialRollback)
      BY <1>1, <2>2 DEF StreamOK
    <3> QED
      BY <2>2, <3>1
  <2>4. /\ Flow(s, view[p], 0) /\ TipOf(s, view[p], Len(s)) \in NodePoints
        /\ p \notin deep => Ahead(s, view[p], intersection[p], 0)
    BY <2>2, <2>3 DEF StreamOK
  <2>5. Head(s) = Head(c) /\ Stream(p)' = Tail(s) /\ s # <<>> /\ s \in Seq(Item)
    <3>1. CASE p \in publishing.todo
      <4>1. s = Append(c, publishing.item) /\ publishing.item \in Item
        BY <1>2, <3>1, NoneSending DEF Stream
      <4>2. Stream(p)' = Append(Tail(c), publishing.item)
        BY <1>1, <1>6, <3>1 DEF Stream
      <4>3. Head(s) = Head(c) /\ Tail(s) = Append(Tail(c), publishing.item)
        BY <1>1, <1>3, <4>1, HeadTailAppend
      <4>4. s # <<>> /\ s \in Seq(Item)
        BY <1>3, <4>1, AppendProperties
      <4> QED
        BY <4>2, <4>3, <4>4
    <3>2. CASE p \notin publishing.todo
      BY <1>1, <1>3, <1>6, <3>2 DEF Stream
    <3> QED
      BY <3>1, <3>2
  <2>6. /\ Len(blockChan'[p]) \in Nat /\ view'[p] = Apply(view[p], Head(s))
        /\ intersection[p] \in Points
    BY <1>2, <1>3, <1>6, <2>5 DEF PeerTypes
  <2>7. /\ NodePoints' = NodePoints /\ deep' = deep /\ intersection' = intersection
        /\ p \notin needsInitialRollback'
    BY <1>1, <2>3, ServingNode
  <2> HIDE DEF s
  <2>8. /\ StreamFine(p)' /\ IsPath(view'[p])
        /\ Head(s) \in Item /\ Fits(Newest(view[p]), Head(s))
    BY <2>1, <2>4, <2>5, <2>6, <2>7, TakeItem
  <2> QED
    BY <2>1, <2>6, <2>8
<1>9. RecentInv'
  BY <1>1, ServingNode DEF PeerInv, RecentInv
<1>10. FoundInv'
  <2>1. found[p] = None
    BY <1>2 DEF PeerInv, FoundInv
  <2> QED
    BY <1>1, <1>7, <2>1 DEF PeerInv, FoundInv, Continues
<1>11. ViewInv'
  BY <1>1, <1>2, <1>7, <1>8 DEF PeerInv, ViewInv
<1>12. StreamInv'
  <2> SUFFICES ASSUME NEW q \in ((conns \cap subs) \ cutOff)' PROVE StreamFine(q)'
    BY DEF StreamInv
  <2>1. q \in Peers /\ q \in conns \cap subs /\ q \notin cutOff
    BY <1>1, <1>2 DEF PeerTypes
  <2>2. CASE q = p
    BY <1>8, <2>1, <2>2
  <2>3. CASE q # p
    BY <1>1, <1>7, <2>1, <2>3, OtherStream
  <2> QED
    BY <2>2, <2>3
<1>13. DownInv' /\ LockInv' /\ CutOffOnlyByDeepRollback'
  BY <1>1, ServingNode
     DEF PeerInv, DownInv, LockInv, CutOffOnlyByDeepRollback, Serving
<1>14. Moved(p)
  BY <1>1, <1>8 DEF Moved
<1> QED
  BY <1>5, <1>9, <1>10, <1>11, <1>12, <1>13, <1>14 DEF PeerInv

\* A client asks for the next item for the first time.
LEMMA InitialRollbackStep ==
    ASSUME PeerInv, Serving, NEW p \in Peers, RequestNext(p),
           p \in needsInitialRollback
    PROVE  PeerInv' /\ Moved(p)
<1> DEFINE t == intersection[p]
           w == UpTo(SlotOf(t), view[p])
<1>1. /\ p \in conns \cap subs /\ needsInitialRollback' = needsInitialRollback \ {p}
      /\ view' = [view EXCEPT ![p] = w]
      /\ UNCHANGED <<recentBlocks, subs, publishing, intersection, blockChan,
                     awaiting, conns, found, cutOff, deep, outrun>>
  BY DEF RequestNext, serverVars
<1>2. PeerTypes /\ t \in Points /\ view[p] \in Seq(Blocks)
  BY DEF PeerInv, PeerTypes
<1>3. w \in Seq(Blocks)
  <2>1. RollbackItem(t) \in Item /\ Apply(view[p], RollbackItem(t)) = w
    BY <1>2 DEF RollbackItem, Item, Apply
  <2> QED
    BY <1>2, <2>1, ApplyType
<1>4. PeerTypes'
  <2>1. view' \in [Peers -> Seq(Blocks)]
    BY <1>1, <1>2, <1>3 DEF PeerTypes
  <2> QED
    BY <1>1, <1>2, <2>1 DEF PeerTypes, Sending
<1>5. view'[p] = w /\ \A q \in Peers : q # p => view'[q] = view[q]
  BY <1>1, <1>2 DEF PeerTypes
<1>6. ASSUME p \notin cutOff PROVE w = view[p] /\ StreamFine(p) /\ IsPath(view[p])
  <2>1. StreamFine(p) /\ IsPath(view[p])
    BY <1>1, <1>6 DEF PeerInv, StreamInv, ViewInv
  <2>2. Newest(view[p]) = t
    BY <2>1 DEF StreamFine, StreamOK
  <2>3. Anc(t, Newest(view[p]))
    BY <1>2, <2>2, AncSelf
  <2> QED
    BY <2>1, <2>2, <2>3, UpToPath, PathOfNewest
<1>7. ASSUME p \notin cutOff PROVE StreamFine(p)'
  <2>1. Stream(p)' = Stream(p)
    BY <1>1 DEF Stream
  <2>2. Len(blockChan[p]) \in Nat /\ Len(blockChan[p]) <= Len(blockChan[p])
    BY <1>2, NoneSending
  <2>3. /\ view'[p] = view[p] /\ intersection'[p] = intersection[p]
        /\ NodePoints \subseteq NodePoints' /\ blockChan'[p] = blockChan[p]
        /\ p \in deep => p \in deep'
        /\ p \in needsInitialRollback' => p \in needsInitialRollback
        /\ p \in awaiting' => p \in awaiting
    BY <1>1, <1>5, <1>6, <1>7, ServingNode
  <2> QED
    BY <1>6, <1>7, <2>1, <2>2, <2>3, SameStream
<1>8. RecentInv'
  BY <1>1, ServingNode DEF PeerInv, RecentInv
<1>9. FoundInv'
  <2>1. found[p] = None
    BY <1>1 DEF PeerInv, FoundInv
  <2> QED
    BY <1>1, <1>5, <2>1 DEF PeerInv, FoundInv, Continues
<1>10. ViewInv'
  <2> HIDE DEF w
  <2> QED
    BY <1>1, <1>5, <1>6 DEF PeerInv, ViewInv
<1>11. StreamInv'
  <2> SUFFICES ASSUME NEW q \in ((conns \cap subs) \ cutOff)' PROVE StreamFine(q)'
    BY DEF StreamInv
  <2>1. q \in Peers /\ q \in conns \cap subs /\ q \notin cutOff
    BY <1>1, <1>2 DEF PeerTypes
  <2>2. CASE q = p
    BY <1>7, <2>1, <2>2
  <2>3. CASE q # p
    <3>1. /\ publishing' = publishing /\ deep' = deep
          /\ blockChan'[q] = blockChan[q] /\ view'[q] = view[q]
          /\ intersection'[q] = intersection[q]
          /\ q \in needsInitialRollback' => q \in needsInitialRollback
          /\ q \in awaiting' => q \in awaiting
      BY <1>1, <1>5, <2>1, <2>3
    <3> QED
      BY <2>1, <2>3, <3>1, OtherStream
  <2> QED
    BY <2>2, <2>3
<1>12. DownInv' /\ LockInv' /\ CutOffOnlyByDeepRollback'
  BY <1>1, ServingNode
     DEF PeerInv, DownInv, LockInv, CutOffOnlyByDeepRollback, Serving
<1>13. Moved(p)
  BY <1>1, <1>5, <1>6 DEF Moved
<1> QED
  BY <1>4, <1>8, <1>9, <1>10, <1>11, <1>12, <1>13 DEF PeerInv

\* A client asks for the next item.
LEMMA RequestNextStep ==
    ASSUME PeerInv, Serving, NEW p \in Peers, RequestNext(p),
           p \notin needsInitialRollback
    PROVE  PeerInv' /\ Moved(p)
<1> DEFINE c == blockChan[p]
           n == Skipped(p)
           s == Stream(p)
           rest == SubSeq(c, n + 1, Len(c))
           u == SubSeq(s, n + 1, Len(s))
<1>1. /\ p \in conns /\ p \in subs
      /\ cutOff' = IF Missed(p) THEN cutOff \cup {p} ELSE cutOff
      /\ UNCHANGED <<recentBlocks, subs, publishing, intersection,
                     needsInitialRollback, conns, found, deep, outrun>>
  BY DEF RequestNext, serverVars
<1>2. \/ /\ rest = <<>> /\ awaiting' = awaiting \cup {p}
         /\ blockChan' = [blockChan EXCEPT ![p] = <<>>] /\ view' = view
      \/ /\ rest # <<>> /\ awaiting' = awaiting
         /\ blockChan' = [blockChan EXCEPT ![p] = Tail(rest)]
         /\ view' = [view EXCEPT ![p] = Apply(view[p], Head(rest))]
  BY DEF RequestNext
<1>3. PeerTypes /\ c \in Seq(Item) /\ Len(c) \in Nat /\ n \in 0..Len(c)
      /\ view[p] \in Seq(Blocks) /\ intersection[p] \in Points
  BY NoneSending, SkippedOf DEF PeerInv, PeerTypes
<1> HIDE DEF n
<1>4. rest \in Seq(Item)
  BY <1>3, Dropped
<1>5. u = IF p \in publishing.todo THEN Append(rest, publishing.item) ELSE rest
  <2>1. CASE p \in publishing.todo
    BY <1>3, <2>1, NoneSending, DropAppend DEF Stream
  <2>2. CASE p \notin publishing.todo
    BY <2>2 DEF Stream
  <2> QED
    BY <2>1, <2>2
<1>6. p \in publishing.todo => publishing.item \in Item
  BY <1>3, NoneSending
<1>7. ASSUME p \notin cutOff, ~Missed(p)
      PROVE  /\ u \in Seq(Item) /\ Flow(u, view[p], 0)
             /\ TipOf(u, view[p], Len(u)) \in NodePoints
             /\ p \notin deep => Ahead(u, view[p], intersection[p], 0)
  BY <1>1, <1>7, RequestStream DEF n
<1>8. ASSUME p \notin cutOff, p \notin deep PROVE ~Missed(p)
  BY <1>1, <1>8, RequestStream
<1> HIDE DEF rest, u, c
<1>9. /\ blockChan' \in [Peers -> Seq(Item)] /\ view' \in [Peers -> Seq(Blocks)]
      /\ \A q \in Peers : q # p => blockChan'[q] = blockChan[q] /\ view'[q] = view[q]
      /\ awaiting' \subseteq conns \cap subs
      /\ \A q \in Peers : q # p /\ q \in awaiting' => q \in awaiting
  <2>1. CASE rest = <<>>
    <3>1. <<>> \in Seq(Item)
      OBVIOUS
    <3>2. /\ awaiting' = awaiting \cup {p} /\ view' = view
          /\ blockChan' = [blockChan EXCEPT ![p] = <<>>]
      BY <1>2, <2>1
    <3> QED
      BY <1>1, <1>3, <3>1, <3>2 DEF PeerTypes
  <2>2. CASE rest # <<>>
    <3>1. Tail(rest) \in Seq(Item) /\ Head(rest) \in Item
      BY <1>4, <2>2, HeadTailProperties
    <3>2. Apply(view[p], Head(rest)) \in Seq(Blocks)
      BY <1>3, <3>1, ApplyType
    <3> QED
      BY <1>1, <1>2, <1>3, <2>2, <3>1, <3>2 DEF PeerTypes
  <2> QED
    BY <2>1, <2>2
<1>10. PeerTypes'
  BY <1>1, <1>3, <1>9 DEF PeerTypes, Sending
<1>11. ASSUME p \notin cutOff'
       PROVE  /\ StreamFine(p)' /\ IsPath(view'[p]) /\ IsPath(view[p])
              /\ \/ view'[p] = view[p]
                 \/ \E it \in Item : /\ Fits(Newest(view[p]), it)
                                     /\ view'[p] = Apply(view[p], it)
  <2>1. p \notin cutOff /\ ~Missed(p)
    BY <1>1, <1>11
  <2>2. IsPath(view[p])
    BY <2>1 DEF PeerInv, ViewInv
  <2>3. /\ u \in Seq(Item) /\ Flow(u, view[p], 0)
        /\ TipOf(u, view[p], Len(u)) \in NodePoints
        /\ p \notin deep => Ahead(u, view[p], intersection[p], 0)
    BY <1>7, <2>1
  <2>4. /\ NodePoints' = NodePoints /\ deep' = deep /\ intersection' = intersection
        /\ p \notin needsInitialRollback' /\ Len(blockChan'[p]) \in Nat
    <3>1. blockChan'[p] \in Seq(Item)
      BY <1>9
    <3>2. Len(blockChan'[p]) \in Nat
      BY <3>1, LenProperties
    <3> QED
      BY <1>1, <3>2, ServingNode
  <2>5. CASE rest = <<>>
    <3>1. blockChan'[p] = <<>> /\ view'[p] = view[p]
      BY <1>2, <1>3, <2>5 DEF PeerTypes
    <3>2. Stream(p)' = u
      BY <1>1, <1>5, <2>5, <3>1 DEF Stream
    <3>3. 0 \in 0..Len(blockChan'[p])
      BY <2>4
    <3>4. /\ Flow(Stream(p)', view'[p], 0)
          /\ TipOf(Stream(p)', view'[p], Len(Stream(p)')) \in NodePoints'
          /\ p \notin deep' => Ahead(Stream(p)', view'[p], intersection'[p], 0)
          /\ 0 > 0 \/ p \in needsInitialRollback' =>
                Newest(view'[p]) = intersection'[p] /\ p \notin awaiting'
      BY <2>3, <2>4, <3>1, <3>2
    <3>5. StreamFine(p)'
      BY <3>3, <3>4 DEF StreamFine, StreamOK
    <3> QED
      BY <2>2, <3>1, <3>5
  <2>6. CASE rest # <<>>
    <3>1. blockChan'[p] = Tail(rest) /\ view'[p] = Apply(view[p], Head(rest))
      BY <1>2, <1>3, <2>6 DEF PeerTypes
    <3>2. Stream(p)' = Tail(u) /\ Head(u) = Head(rest) /\ u # <<>>
      <4>1. CASE p \in publishing.todo
        <5>1. u = Append(rest, publishing.item)
          BY <1>5, <4>1
        <5>2. /\ Head(u) = Head(rest) /\ Tail(u) = Append(Tail(rest), publishing.item)
              /\ u # <<>>
          BY <1>4, <1>6, <2>6, <4>1, <5>1, HeadTailAppend, AppendProperties
        <5> QED
          BY <1>1, <3>1, <4>1, <5>2 DEF Stream
      <4>2. CASE p \notin publishing.todo
        BY <1>1, <1>5, <2>6, <3>1, <4>2 DEF Stream
      <4> QED
        BY <4>1, <4>2
    <3>3. view'[p] = Apply(view[p], Head(u))
      BY <3>1, <3>2
    <3>4. /\ StreamFine(p)' /\ IsPath(view'[p])
          /\ Head(u) \in Item /\ Fits(Newest(view[p]), Head(u))
      BY <1>3, <2>2, <2>3, <2>4, <3>2, <3>3, TakeItem
    <3> QED
      BY <2>2, <3>3, <3>4
  <2> QED
    BY <2>5, <2>6
<1>12. RecentInv'
  BY <1>1, ServingNode DEF PeerInv, RecentInv
<1>13. FoundInv'
  <2>1. found[p] = None
    BY <1>1 DEF PeerInv, FoundInv
  <2> QED
    BY <1>1, <1>9, <2>1 DEF PeerInv, FoundInv, Continues
<1>14. ViewInv'
  <2> SUFFICES ASSUME NEW q \in Peers
               PROVE  /\ q \notin cutOff' => IsPath(view'[q])
                      /\ q \notin conns' => view'[q] = <<>>
                      /\ q \notin subs' /\ found'[q] = None => view'[q] = <<>>
    BY DEF ViewInv
  <2>1. CASE q = p
    BY <1>1, <1>11, <2>1
  <2>2. CASE q # p
    <3>1. /\ q \notin cutOff => IsPath(view[q])
          /\ q \notin conns => view[q] = <<>>
          /\ q \notin subs /\ found[q] = None => view[q] = <<>>
      BY DEF PeerInv, ViewInv
    <3>2. view'[q] = view[q] /\ (q \notin cutOff' => q \notin cutOff)
      BY <1>1, <1>9, <2>2
    <3> QED
      BY <1>1, <3>1, <3>2
  <2> QED
    BY <2>1, <2>2
<1>15. StreamInv'
  <2> SUFFICES ASSUME NEW q \in ((conns \cap subs) \ cutOff)' PROVE StreamFine(q)'
    BY DEF StreamInv
  <2>1. q \in Peers /\ q \in conns \cap subs /\ q \notin cutOff /\ q \notin cutOff'
    BY <1>1, <1>3 DEF PeerTypes
  <2>2. CASE q = p
    BY <1>11, <2>1, <2>2
  <2>3. CASE q # p
    <3>1. /\ publishing' = publishing /\ deep' = deep
          /\ blockChan'[q] = blockChan[q] /\ view'[q] = view[q]
          /\ intersection'[q] = intersection[q]
          /\ q \in needsInitialRollback' => q \in needsInitialRollback
          /\ q \in awaiting' => q \in awaiting
      BY <1>1, <1>9, <2>1, <2>3
    <3> QED
      BY <2>1, <2>3, <3>1, OtherStream
  <2> QED
    BY <2>2, <2>3
<1>16. DownInv' /\ LockInv'
  BY <1>1, ServingNode DEF PeerInv, DownInv, LockInv, Serving
<1>17. CutOffOnlyByDeepRollback'
  <2>1. p \notin cutOff /\ Missed(p) => p \in deep
    BY <1>8
  <2> QED
    BY <1>1, <2>1 DEF PeerInv, CutOffOnlyByDeepRollback
<1>18. Moved(p)
  BY <1>11 DEF Moved
<1> QED
  BY <1>10, <1>12, <1>13, <1>14, <1>15, <1>16, <1>17, <1>18 DEF PeerInv

\* A connection is accepted.
LEMMA AcceptStep ==
    ASSUME PeerInv, Serving, NEW p \in Peers, Accept(p)
    PROVE  PeerInv' /\ view' = view /\ view[p] = <<>> /\ cutOff' = cutOff \ {p}
<1>1. /\ p \notin conns /\ p \notin subs /\ found[p] = None
      /\ conns' = conns \cup {p}
      /\ cutOff' = cutOff \ {p} /\ deep' = deep \ {p} /\ outrun' = outrun \ {p}
      /\ UNCHANGED <<recentBlocks, subs, publishing, blockChan, intersection,
                     needsInitialRollback, found, awaiting, view>>
  BY DEF Accept, serverVars
<1>2. PeerTypes /\ view[p] = <<>> /\ IsPath(<<>>)
  BY <1>1 DEF PeerInv, ViewInv, IsPath
<1>3. PeerTypes'
  BY <1>1, <1>2 DEF PeerTypes, Sending
<1>4. RecentInv'
  BY <1>1, ServingNode DEF PeerInv, RecentInv
<1>5. FoundInv'
  BY <1>1 DEF PeerInv, FoundInv, Continues
<1>6. ViewInv'
  BY <1>1, <1>2 DEF PeerInv, ViewInv
<1>7. StreamInv'
  <2> SUFFICES ASSUME NEW q \in ((conns \cap subs) \ cutOff)' PROVE StreamFine(q)'
    BY DEF StreamInv
  <2>1. q \in Peers /\ q \in conns \cap subs /\ q \notin cutOff /\ q # p
    BY <1>1, <1>2 DEF PeerTypes
  <2>2. StreamFine(q)
    BY <2>1 DEF PeerInv, StreamInv
  <2>3. Len(blockChan[q]) \in Nat /\ Len(blockChan[q]) <= Len(blockChan[q])
    BY <1>2, <2>1, NoneSending
  <2>4. Stream(q)' = Stream(q)
    BY <1>1 DEF Stream
  <2>5. /\ view'[q] = view[q] /\ intersection'[q] = intersection[q]
        /\ NodePoints \subseteq NodePoints' /\ blockChan'[q] = blockChan[q]
        /\ q \in deep => q \in deep'
        /\ q \in needsInitialRollback' => q \in needsInitialRollback
        /\ q \in awaiting' => q \in awaiting
    BY <1>1, <2>1, ServingNode
  <2> QED
    BY <2>1, <2>2, <2>3, <2>4, <2>5, SameStream
<1>8. DownInv' /\ LockInv' /\ CutOffOnlyByDeepRollback'
  BY <1>1, ServingNode
     DEF PeerInv, DownInv, LockInv, CutOffOnlyByDeepRollback, Serving
<1> QED
  BY <1>1, <1>2, <1>3, <1>4, <1>5, <1>6, <1>7, <1>8 DEF PeerInv

\* A client intersects at a recent block.
LEMMA FindIntersectStep ==
    ASSUME PeerInv, Serving, NEW p \in Peers, NEW b \in Blocks, FindIntersect(p, b)
    PROVE  /\ PeerInv' /\ cutOff' = cutOff /\ view[p] = <<>>
           /\ view' = [view EXCEPT ![p] = Path(b)]
           /\ IsPath(Path(b)) /\ Path(b) # <<>>
<1>1. /\ p \in conns /\ p \notin subs /\ found[p] = None /\ b \in ToSet(recentBlocks)
      /\ found' = [found EXCEPT ![p] = b]
      /\ view' = [view EXCEPT ![p] = Path(b)]
      /\ UNCHANGED <<recentBlocks, subs, publishing, blockChan, intersection,
                     needsInitialRollback, conns, awaiting, cutOff, deep, outrun>>
  BY DEF FindIntersect, serverVars
<1>2. PeerTypes /\ view[p] = <<>>
  BY <1>1 DEF PeerInv, ViewInv
<1>3. IsPath(Path(b)) /\ Newest(Path(b)) = b /\ Path(b) \in Seq(Blocks) /\ Path(b) # <<>>
  <2>1. IsPath(Path(b)) /\ Newest(Path(b)) = b
    BY PathOf DEF Points
  <2>2. Path(b) \in Seq(Blocks) /\ b # Genesis
    BY <2>1, PointSlots DEF IsPath
  <2> QED
    BY <2>1, <2>2, NewestOf
<1>4. /\ found'[p] = b /\ view'[p] = Path(b) /\ b # None
      /\ \A q \in Peers : q # p => found'[q] = found[q] /\ view'[q] = view[q]
      /\ found' \in [Peers -> Blocks \cup {None}] /\ view' \in [Peers -> Seq(Blocks)]
  BY <1>1, <1>2, <1>3, PointSlots DEF PeerTypes
<1>5. PeerTypes'
  BY <1>1, <1>2, <1>4 DEF PeerTypes, Sending
<1>6. RecentInv'
  BY <1>1, ServingNode DEF PeerInv, RecentInv
<1>7. FoundInv'
  <2> SUFFICES ASSUME NEW q \in Peers, found'[q] # None
               PROVE  /\ q \notin subs'
                      /\ q \in conns' => view'[q] = Path(found'[q])
                      /\ q \notin deep' \cup outrun' => Continues(found[q])'
    BY DEF FoundInv
  <2>1. CASE q = p
    BY <1>1, <1>4, <2>1 DEF Continues
  <2>2. CASE q # p
    BY <1>1, <1>4, <2>2 DEF PeerInv, FoundInv, Continues
  <2> QED
    BY <2>1, <2>2
<1>8. ViewInv'
  BY <1>1, <1>3, <1>4 DEF PeerInv, ViewInv
<1>9. StreamInv'
  <2> SUFFICES ASSUME NEW q \in ((conns \cap subs) \ cutOff)' PROVE StreamFine(q)'
    BY DEF StreamInv
  <2>1. q \in Peers /\ q \in conns \cap subs /\ q \notin cutOff /\ q # p
    BY <1>1, <1>2 DEF PeerTypes
  <2>2. /\ publishing' = publishing /\ deep' = deep
        /\ blockChan'[q] = blockChan[q] /\ view'[q] = view[q]
        /\ intersection'[q] = intersection[q]
        /\ q \in needsInitialRollback' => q \in needsInitialRollback
        /\ q \in awaiting' => q \in awaiting
    BY <1>1, <1>4, <2>1
  <2> QED
    BY <2>1, <2>2, OtherStream
<1>10. DownInv' /\ LockInv' /\ CutOffOnlyByDeepRollback'
  BY <1>1, ServingNode
     DEF PeerInv, DownInv, LockInv, CutOffOnlyByDeepRollback, Serving
<1> QED
  BY <1>1, <1>2, <1>3, <1>5, <1>6, <1>7, <1>8, <1>9, <1>10 DEF PeerInv

\* A new subscriber gets the recent blocks.
LEMMA StateInitStep ==
    ASSUME PeerInv, Serving, NEW p \in Peers, StateInit(p)
    PROVE  /\ PeerInv' /\ view' = view
           /\ cutOff' = cutOff \/ cutOff' = cutOff \cup {p}
<1> DEFINE f == found[p]
           r == recentBlocks
           u == [i \in 1..Len(r) |-> BlockItem(r[i])]
<1>1. /\ f # None /\ publishing = NotPublishing /\ subs' = subs \cup {p}
      /\ blockChan' = [blockChan EXCEPT ![p] = u]
      /\ intersection' = [intersection EXCEPT ![p] = f]
      /\ needsInitialRollback' = needsInitialRollback \cup {p}
      /\ found' = [found EXCEPT ![p] = None]
      /\ cutOff' = IF Continues(f) THEN cutOff ELSE cutOff \cup {p}
      /\ UNCHANGED <<recentBlocks, publishing, conns, awaiting, view, deep, outrun>>
  BY DEF StateInit, Unlocked
<1>2. /\ PeerTypes /\ f \in Blocks /\ r \in Seq(Blocks) /\ Len(r) \in Nat
      /\ p \notin subs /\ (p \in conns => view[p] = Path(f))
      /\ p \notin deep \cup outrun => Continues(f)
  BY <1>1, LenProperties DEF PeerInv, PeerTypes, FoundInv
<1>3. \A i \in 1..Len(r) : BlockItem(r[i]) \in Item
  BY <1>2, ElementOfSeq DEF BlockItem, Item, Points
<1>4. /\ u \in Seq(Item) /\ Len(u) = Len(r) /\ Len(u) \in Nat
      /\ \A i \in 1..Len(r) : u[i].block = r[i] /\ ~u[i].rollback
  <2>1. u \in Seq(Item)
    <3> DEFINE e(i) == BlockItem(r[i])
    <3>1. \A i \in 1..Len(r) : e(i) \in Item
      BY <1>3
    <3>2. u = [i \in 1..Len(r) |-> e(i)]
      OBVIOUS
    <3> HIDE DEF e
    <3>3. [i \in 1..Len(r) |-> e(i)] \in Seq(Item)
      BY <1>2, <3>1, IsASeq
    <3> QED
      BY <3>2, <3>3
  <2>2. Len(u) = Len(r)
    <3>1. DOMAIN u = 1..Len(r)
      OBVIOUS
    <3> HIDE DEF u
    <3> QED
      BY <1>2, <2>1, <3>1, LenProperties
  <2> QED
    BY <1>2, <2>1, <2>2 DEF BlockItem
<1> HIDE DEF u
<1>5. /\ blockChan'[p] = u /\ intersection'[p] = f /\ found'[p] = None
      /\ \A q \in Peers : q # p => /\ blockChan'[q] = blockChan[q]
                                   /\ intersection'[q] = intersection[q]
                                   /\ found'[q] = found[q]
      /\ blockChan' \in [Peers -> Seq(Item)] /\ intersection' \in [Peers -> Points]
      /\ found' \in [Peers -> Blocks \cup {None}]
  BY <1>1, <1>2, <1>4 DEF PeerTypes, Points
<1>6. PeerTypes'
  BY <1>1, <1>2, <1>5 DEF PeerTypes, Sending
<1>7. RecentInv'
  BY <1>1, ServingNode DEF PeerInv, RecentInv
<1>8. FoundInv'
  BY <1>1, <1>2, <1>5 DEF PeerInv, FoundInv, Continues
<1>9. ViewInv'
  BY <1>1, <1>2, <1>5 DEF PeerInv, ViewInv
<1>10. ASSUME p \in conns, Continues(f), p \notin cutOff PROVE StreamFine(p)'
  <2>1. r # <<>>
    BY <1>2, <1>10 DEF Continues, ToSet
  <2>2. IsTail(r, Path(Newest(r))) /\ Newest(r) \in NodePoints
    BY <2>1 DEF PeerInv, RecentInv
  <2>3. /\ Len(r) >= 1 /\ Newest(r) = r[Len(r)] /\ DOMAIN r = 1..Len(r)
        /\ \A i \in 1..Len(r) : r[i] \in Blocks /\ Anc(r[i], Newest(r))
        /\ \A i \in 2..Len(r) : Parent[r[i]] = r[i - 1]
        /\ \A i, j \in 1..Len(r) : i < j => SlotOf(r[i]) < SlotOf(r[j])
        /\ Newest(r) \in Points
    BY <1>2, <2>1, <2>2, TailFacts, LenProperties DEF Points
  <2>4. view[p] = Path(f) /\ IsPath(Path(f)) /\ Newest(Path(f)) = f /\ f \in Points
    BY <1>2, <1>10, PathOf DEF Points
  <2>5. SlotOf(f) \in Nat /\ \A i \in 1..Len(r) : SlotOf(r[i]) \in Nat
    BY <2>3, <2>4, PointSlots DEF Points
  <2>6. PICK m \in 0..Len(r) :
           /\ \A j \in 1..m : r[j] \in ToSet(Path(f))
           /\ m > 0 => r[m] = f
           /\ m = 0 => Parent[r[1]] = f
           /\ \A j \in (m + 1)..Len(r) : SlotOf(f) < SlotOf(r[j])
    <3>1. CASE f \in ToSet(r)
      <4>1. PICK m \in 1..Len(r) : r[m] = f
        BY <2>3, <3>1 DEF ToSet
      <4>2. ASSUME NEW j \in 1..m PROVE r[j] \in ToSet(Path(f))
        <5>1. j \in 1..Len(r) /\ (j = m \/ j < m)
          BY <1>2, <4>1
        <5>2. CASE j = m
          BY <2>3, <2>4, <4>1, <5>1, <5>2, AncSelf, AncOnPath, PointSlots DEF Anc
        <5>3. CASE j < m
          <6>1. Anc(r[j], Newest(r)) /\ Anc(f, Newest(r)) /\ SlotOf(r[j]) < SlotOf(f)
            BY <2>3, <4>1, <5>1, <5>3
          <6>2. Anc(r[j], f)
            <7> DEFINE c == Path(Newest(r))
            <7>1. IsPath(c) /\ Newest(c) = Newest(r)
              BY <2>3, PathOf
            <7>2. UpTo(SlotOf(f), c) = Path(f)
              BY <6>1, <7>1, UpToPath
            <7>3. c \in Seq(Blocks) /\ Len(c) \in Nat
                  /\ \A i \in 1..Len(c) : SlotOf(c[i]) \in Nat
              BY <7>1, LenProperties, ElementOfSeq, PointSlots DEF IsPath, Points
            <7>4. PICK k \in 0..Len(c) :
                     /\ UpTo(SlotOf(f), c) = SubSeq(c, 1, k)
                     /\ k < Len(c) => SlotOf(c[k + 1]) > SlotOf(f)
              BY <2>5, <7>3, UpToPrefix
            <7>5. PICK i \in 1..Len(c) : r[j] = c[i]
              BY <2>3, <5>1, <6>1, AncAt, PointSlots
            <7> HIDE DEF c
            <7>6. i <= k
              <8> SUFFICES ASSUME k < i PROVE FALSE
                BY <7>3, <7>4, <7>5
              <8>1. k + 1 \in 1..Len(c) /\ k < Len(c) /\ (k + 1 = i \/ k + 1 < i)
                BY <7>3, <7>4, <7>5
              <8>2. k + 1 < i => SlotOf(c[k + 1]) < SlotOf(c[i])
                BY <7>1, <7>5, <8>1, PathSlots
              <8> QED
                BY <2>5, <6>1, <7>3, <7>4, <7>5, <8>1, <8>2
            <7>7. i \in 1..k
              BY <7>3, <7>4, <7>5, <7>6
            <7>8. Len(SubSeq(c, 1, k)) = k /\ SubSeq(c, 1, k)[i] = c[i]
              BY <7>1, <7>4, <7>7, PrefixPath
            <7>9. \E l \in 1..Len(Path(f)) : r[j] = Path(f)[l]
              BY <7>2, <7>4, <7>5, <7>7, <7>8
            <7> QED
              BY <2>4, <7>9, AncAt
          <6> QED
            BY <2>3, <5>1, <6>2, PointSlots DEF Anc
        <5> QED
          BY <5>1, <5>2, <5>3
      <4>3. ASSUME NEW j \in (m + 1)..Len(r) PROVE SlotOf(f) < SlotOf(r[j])
        <5>1. j \in 1..Len(r) /\ m < j
          BY <1>2, <4>1
        <5> QED
          BY <2>3, <4>1, <5>1
      <4>4. m \in 0..Len(r) /\ m # 0
        BY <1>2, <4>1
      <4> QED
        BY <4>1, <4>2, <4>3, <4>4
    <3>2. CASE Parent[r[1]] = f
      <4>1. 1 \in 1..Len(r)
        BY <1>2, <2>3
      <4>2. SlotOf(f) < SlotOf(r[1])
        BY <2>3, <3>2, <4>1, PointSlots
      <4>3. ASSUME NEW j \in (0 + 1)..Len(r) PROVE SlotOf(f) < SlotOf(r[j])
        <5>1. j \in 1..Len(r) /\ (j = 1 \/ 1 < j)
          BY <1>2
        <5>2. 1 < j => SlotOf(r[1]) < SlotOf(r[j])
          BY <2>3, <4>1, <5>1
        <5> QED
          BY <2>5, <4>1, <4>2, <5>1, <5>2
      <4>4. 0 \in 0..Len(r) /\ (\A j \in 1..0 : FALSE)
        BY <1>2
      <4> QED
        BY <3>2, <4>3, <4>4
    <3> QED
      BY <1>10, <3>1, <3>2 DEF Continues
  <2> DEFINE v == Path(f)
  <2>7. TipOf(u, v, m) = f
    BY <1>2, <1>4, <2>4, <2>6 DEF TipOf
  <2>8. \A j \in 1..m : ~u[j].rollback /\ u[j].block \in ToSet(v)
    <3>1. \A j \in 1..m : j \in 1..Len(r)
      BY <1>2, <2>6
    <3> QED
      BY <1>4, <2>6, <3>1
  <2>9. ASSUME NEW j \in (m + 1)..Len(u) PROVE Fits(TipOf(u, v, j - 1), u[j])
    <3>1. j \in 1..Len(r) /\ j \in Nat
      BY <1>2, <1>4, <2>6
    <3>2. Parent[u[j].block] = TipOf(u, v, j - 1)
      <4>1. CASE j = m + 1
        <5>1. j - 1 = m
          BY <2>6, <4>1
        <5>2. Parent[r[j]] = f
          <6>1. CASE m = 0
            <7>1. j = 1
              BY <4>1, <6>1
            <7> QED
              BY <2>6, <6>1, <7>1
          <6>2. CASE m # 0
            <7>1. j \in 2..Len(r) /\ m > 0
              BY <1>2, <2>6, <3>1, <4>1, <6>2
            <7> QED
              BY <2>3, <2>6, <5>1, <7>1
          <6> QED
            BY <6>1, <6>2
        <5> QED
          BY <1>4, <2>7, <3>1, <5>1, <5>2
      <4>2. CASE j # m + 1
        <5>1. j \in 2..Len(r) /\ j - 1 \in 1..Len(r) /\ j - 1 # 0
          BY <1>2, <1>4, <2>6, <3>1, <4>2
        <5> QED
          BY <1>4, <2>3, <3>1, <5>1 DEF TipOf
      <4> QED
        BY <4>1, <4>2
    <3> QED
      BY <1>4, <3>1, <3>2 DEF Fits
  <2>10. Flow(u, v, m)
    BY <2>4, <2>7, <2>8, <2>9 DEF Flow
  <2>11. TipOf(u, v, Len(u)) = Newest(r)
    <3>1. Len(u) # 0 /\ Len(r) \in 1..Len(r)
      BY <1>2, <1>4, <2>3
    <3> QED
      BY <1>4, <2>3, <3>1 DEF TipOf
  <2>12. Ahead(u, v, f, m)
    <3>1. SlotOf(f) <= SlotOf(Newest(v))
      BY <2>4, <2>5
    <3>2. \A j \in (m + 1)..Len(u) : j \in 1..Len(r)
      BY <1>2, <1>4, <2>6
    <3> QED
      BY <1>4, <2>6, <3>1, <3>2 DEF Ahead
  <2>13. Stream(p)' = u
    BY <1>1, <1>5 DEF Stream, NotPublishing
  <2>14. p \notin awaiting'
    BY <1>1, <1>2 DEF PeerTypes
  <2>15. m \in 0..Len(blockChan'[p])
    BY <1>4, <1>5, <2>6
  <2> HIDE DEF v
  <2>16. /\ Flow(Stream(p)', view'[p], m)
         /\ TipOf(Stream(p)', view'[p], Len(Stream(p)')) \in NodePoints'
         /\ p \notin deep' => Ahead(Stream(p)', view'[p], intersection'[p], m)
         /\ m > 0 \/ p \in needsInitialRollback' =>
               Newest(view'[p]) = intersection'[p] /\ p \notin awaiting'
    BY <1>1, <1>5, <2>2, <2>4, <2>10, <2>11, <2>12, <2>13, <2>14, ServingNode DEF v
  <2> QED
    BY <2>15, <2>16 DEF StreamFine, StreamOK
<1>11. StreamInv'
  <2> SUFFICES ASSUME NEW q \in ((conns \cap subs) \ cutOff)' PROVE StreamFine(q)'
    BY DEF StreamInv
  <2>1. q \in Peers /\ q \in conns /\ q \notin cutOff /\ (q = p => Continues(f))
    BY <1>1, <1>2 DEF PeerTypes
  <2>2. CASE q = p
    BY <1>10, <2>1, <2>2
  <2>3. CASE q # p
    <3>1. /\ publishing' = publishing /\ deep' = deep /\ q \in conns \cap subs
          /\ blockChan'[q] = blockChan[q] /\ view'[q] = view[q]
          /\ intersection'[q] = intersection[q]
          /\ q \in needsInitialRollback' => q \in needsInitialRollback
          /\ q \in awaiting' => q \in awaiting
      BY <1>1, <1>5, <2>1, <2>3
    <3> QED
      BY <2>1, <2>3, <3>1, OtherStream
  <2> QED
    BY <2>2, <2>3
<1>12. DownInv' /\ LockInv'
  BY <1>1, ServingNode DEF PeerInv, DownInv, LockInv, Serving
<1>13. CutOffOnlyByDeepRollback'
  BY <1>1, <1>2 DEF PeerInv, CutOffOnlyByDeepRollback
<1> QED
  BY <1>1, <1>6, <1>7, <1>8, <1>9, <1>11, <1>12, <1>13 DEF PeerInv

\* A connection is closed.
LEMMA DisconnectStep ==
    ASSUME PeerInv, Serving, NEW p \in Peers, Disconnect(p)
    PROVE  PeerInv' /\ cutOff' = cutOff /\ view' = [view EXCEPT ![p] = <<>>]
<1>1. /\ p \in conns /\ (p \in subs => publishing = NotPublishing)
      /\ conns' = conns \ {p} /\ subs' = subs \ {p}
      /\ blockChan' = [blockChan EXCEPT ![p] = <<>>]
      /\ intersection' = [intersection EXCEPT ![p] = Genesis]
      /\ needsInitialRollback' = needsInitialRollback \ {p}
      /\ awaiting' = awaiting \ {p}
      /\ view' = [view EXCEPT ![p] = <<>>]
      /\ UNCHANGED <<recentBlocks, publishing, found, cutOff, deep, outrun>>
  BY DEF Disconnect, Unlocked
<1>2. PeerTypes /\ <<>> \in Seq(Item) /\ <<>> \in Seq(Blocks) /\ IsPath(<<>>)
  BY DEF PeerInv, IsPath
<1>3. /\ blockChan' \in [Peers -> Seq(Item)] /\ view' \in [Peers -> Seq(Blocks)]
      /\ intersection' \in [Peers -> Points] /\ view'[p] = <<>>
      /\ \A q \in Peers : q # p => /\ blockChan'[q] = blockChan[q]
                                   /\ intersection'[q] = intersection[q]
                                   /\ view'[q] = view[q]
  BY <1>1, <1>2 DEF PeerTypes, Points
<1>4. PeerTypes'
  <2>1. publishing' = NotPublishing \/ publishing' \in Sending'
    <3>1. CASE publishing = NotPublishing
      BY <1>1, <3>1
    <3>2. CASE publishing # NotPublishing
      <4>1. subs' = subs
        BY <1>1, <3>2
      <4> QED
        BY <1>1, <1>2, <4>1 DEF PeerTypes, Sending
    <3> QED
      BY <3>1, <3>2
  <2>2. /\ subs' \subseteq Peers /\ conns' \subseteq Peers
        /\ needsInitialRollback' \subseteq Peers
        /\ awaiting' \subseteq conns' \cap subs'
    BY <1>1, <1>2 DEF PeerTypes
  <2> QED
    BY <1>1, <1>2, <1>3, <2>1, <2>2 DEF PeerTypes
<1>5. RecentInv'
  BY <1>1, ServingNode DEF PeerInv, RecentInv
<1>6. FoundInv'
  BY <1>1, <1>3 DEF PeerInv, FoundInv, Continues
<1>7. ViewInv'
  <2> SUFFICES ASSUME NEW q \in Peers
               PROVE  /\ q \notin cutOff' => IsPath(view'[q])
                      /\ q \notin conns' => view'[q] = <<>>
                      /\ q \notin subs' /\ found'[q] = None => view'[q] = <<>>
    BY DEF ViewInv
  <2>1. CASE q = p
    BY <1>2, <1>3, <2>1
  <2>2. CASE q # p
    BY <1>1, <1>3, <2>2 DEF PeerInv, ViewInv
  <2> QED
    BY <2>1, <2>2
<1>8. StreamInv'
  <2> SUFFICES ASSUME NEW q \in ((conns \cap subs) \ cutOff)' PROVE StreamFine(q)'
    BY DEF StreamInv
  <2>1. q \in Peers /\ q \in conns \cap subs /\ q \notin cutOff /\ q # p
    BY <1>1, <1>2 DEF PeerTypes
  <2>2. /\ publishing' = publishing /\ deep' = deep
        /\ blockChan'[q] = blockChan[q] /\ view'[q] = view[q]
        /\ intersection'[q] = intersection[q]
        /\ q \in needsInitialRollback' => q \in needsInitialRollback
        /\ q \in awaiting' => q \in awaiting
    BY <1>1, <1>3, <2>1
  <2> QED
    BY <2>1, <2>2, OtherStream
<1>9. DownInv' /\ LockInv' /\ CutOffOnlyByDeepRollback'
  BY <1>1, ServingNode
     DEF PeerInv, DownInv, LockInv, CutOffOnlyByDeepRollback, Serving
<1> QED
  BY <1>1, <1>4, <1>5, <1>6, <1>7, <1>8, <1>9 DEF PeerInv

\* A subscriber's channel takes the item.
LEMMA PublishToStep ==
    ASSUME PeerInv, Serving, NEW p \in Peers, PublishTo(p)
    PROVE  PeerInv' /\ view' = view /\ cutOff' = cutOff
<1> DEFINE it == publishing.item
           todo == publishing.todo
<1>1. /\ p \in todo
      /\ blockChan' = [blockChan EXCEPT ![p] = Append(@, it)]
      /\ publishing' = IF todo = {p} THEN NotPublishing
                       ELSE [publishing EXCEPT !.todo = @ \ {p}]
      /\ UNCHANGED <<recentBlocks, subs, intersection, needsInitialRollback,
                     conns, found, awaiting, view, cutOff, deep, outrun>>
  BY DEF PublishTo
<1>2. /\ PeerTypes /\ publishing \in Sending /\ it \in Item /\ todo \subseteq subs
      /\ publishing # NotPublishing
      /\ \A q \in Peers : blockChan[q] \in Seq(Item) /\ Len(blockChan[q]) \in Nat
  <2>1. PeerTypes
    BY DEF PeerInv
  <2>2. publishing # NotPublishing
    BY <1>1, <2>1, NoneSending
  <2> QED
    BY <1>1, <2>1, <2>2, NoneSending
<1>3. /\ Append(blockChan[p], it) \in Seq(Item)
      /\ Len(Append(blockChan[p], it)) = Len(blockChan[p]) + 1
  BY <1>2, AppendProperties
<1>4. /\ blockChan' \in [Peers -> Seq(Item)]
      /\ blockChan'[p] = Append(blockChan[p], it)
      /\ \A q \in Peers : q # p => blockChan'[q] = blockChan[q]
  BY <1>1, <1>2, <1>3 DEF PeerTypes
<1>5. /\ publishing'.todo = todo \ {p}
      /\ publishing'.todo # {} => publishing'.item = it
      /\ publishing' = NotPublishing \/ publishing' \in Sending'
  <2>1. CASE todo = {p}
    BY <1>1, <2>1 DEF NotPublishing
  <2>2. CASE todo # {p}
    <3>1. publishing' = [publishing EXCEPT !.todo = @ \ {p}]
      BY <1>1, <2>2
    <3>2. publishing' = [item |-> it, todo |-> todo \ {p}]
      BY <1>2, <3>1 DEF Sending
    <3>3. todo \ {p} # {} /\ todo \ {p} \subseteq subs'
      BY <1>1, <1>2, <2>2
    <3> QED
      BY <1>2, <3>2, <3>3 DEF Sending
  <2> QED
    BY <2>1, <2>2
<1> HIDE DEF it, todo
<1>6. PeerTypes'
  BY <1>1, <1>2, <1>4, <1>5 DEF PeerTypes
<1>7. RecentInv'
  BY <1>1, ServingNode DEF PeerInv, RecentInv
<1>8. FoundInv' /\ ViewInv'
  BY <1>1 DEF PeerInv, FoundInv, ViewInv, Continues
<1>9. StreamInv'
  <2> SUFFICES ASSUME NEW q \in ((conns \cap subs) \ cutOff)' PROVE StreamFine(q)'
    BY DEF StreamInv
  <2>1. q \in Peers /\ StreamFine(q)
    BY <1>1, <1>2 DEF PeerInv, PeerTypes, StreamInv
  <2>2. Stream(q)' = Stream(q)
    <3>1. CASE q = p
      BY <1>1, <1>4, <1>5, <3>1 DEF Stream, it, todo
    <3>2. CASE q # p
      BY <1>1, <1>4, <1>5, <2>1, <3>2 DEF Stream, it, todo
    <3> QED
      BY <3>1, <3>2
  <2>3. /\ Len(blockChan[q]) \in Nat /\ Len(blockChan'[q]) \in Nat
        /\ Len(blockChan[q]) <= Len(blockChan'[q])
    BY <1>2, <1>3, <1>4, <2>1
  <2>4. /\ view'[q] = view[q] /\ intersection'[q] = intersection[q]
        /\ NodePoints \subseteq NodePoints'
        /\ q \in deep => q \in deep'
        /\ q \in needsInitialRollback' => q \in needsInitialRollback
        /\ q \in awaiting' => q \in awaiting
    BY <1>1, ServingNode
  <2> QED
    BY <2>1, <2>2, <2>3, <2>4, SameStream
<1>10. DownInv' /\ CutOffOnlyByDeepRollback'
  BY <1>1, ServingNode DEF PeerInv, DownInv, CutOffOnlyByDeepRollback
<1>11. LockInv'
  BY <1>2 DEF PeerInv, LockInv, Serving
<1> QED
  BY <1>1, <1>6, <1>7, <1>8, <1>9, <1>10, <1>11 DEF PeerInv

-----------------------------------------------------------------------------
(* Peers: every step, and what they are promised                           *)

\* What a step means for the peers.
PeerStep ==
    \/ UNCHANGED peerVars
    \/ PeersGone
    \/ UNCHANGED <<view, cutOff>>
    \/ Serving /\ \E p \in Peers :
          \/ Accept(p) \/ StateInit(p) \/ RequestNext(p)
          \/ SendAwaited(p) \/ Disconnect(p)
          \/ \E b \in Blocks : FindIntersect(p, b)

\* A step that serves a peer keeps the invariant.
LEMMA ServePeersStep ==
    ASSUME PeerInv, ServePeers
    PROVE  PeerInv' /\ PeerStep
<1>1. Serving
  BY DEF ServePeers, Serving, chainVars
<1>2. PICK p \in Peers :
         \/ Accept(p) \/ (\E b \in Blocks : FindIntersect(p, b))
         \/ StateInit(p) \/ RequestNext(p) \/ SendAwaited(p) \/ Disconnect(p)
         \/ PublishTo(p)
  BY DEF ServePeers, PeerNext
<1>3. CASE PublishTo(p)
  BY <1>1, <1>3, PublishToStep DEF PeerStep
<1>4. CASE RequestNext(p)
  <2>1. PeerInv'
    BY <1>1, <1>4, InitialRollbackStep, RequestNextStep
  <2> QED
    BY <1>1, <1>4, <2>1 DEF PeerStep
<1>5. CASE Accept(p) \/ StateInit(p) \/ SendAwaited(p) \/ Disconnect(p)
  <2>1. PeerInv'
    BY <1>1, <1>5, AcceptStep, StateInitStep, SendAwaitedStep, DisconnectStep
  <2> QED
    BY <1>1, <1>5, <2>1 DEF PeerStep
<1>6. CASE \E b \in Blocks : FindIntersect(p, b)
  <2>1. PeerInv'
    BY <1>1, <1>6, FindIntersectStep
  <2> QED
    BY <1>1, <1>6, <2>1 DEF PeerStep
<1> QED
  BY <1>2, <1>3, <1>4, <1>5, <1>6

\* The node's handler keeps it.
LEMMA NodeHandlerStep ==
    ASSUME PipelineInv, PeerInv, NodeHandler
    PROVE  PeerInv' /\ PeerStep
<1> DEFINE b == Newest(followed)
<1>1. /\ up /\ queue # <<>> /\ stage = "node" /\ stage' = "spectrum"
      /\ up' = up /\ followed' = followed /\ queue' = queue
  BY DEF NodeHandler, AtStage, Continue
<1>2. Event.block = b /\ b \in Points
  BY <1>1, EventOf
<1>3. NodePoints' = {b}
  BY <1>1 DEF NodePoints, NodePending
<1>4. CASE Event.type = "block"
  <2>1. AddBlock(b)
    BY <1>2, <1>4 DEF NodeHandler, IsRollback
  <2>2. b \in Blocks
    BY <1>1, <1>4, EventOf DEF IsRollback, IsTx
  <2>3. NodePoints = {Parent[b]}
    BY <1>1, <1>4 DEF NodePoints, NodePending
  <2>4. PeerInv'
    BY <1>1, <1>3, <2>1, <2>2, <2>3, AddBlockStep
  <2> QED
    BY <2>1, <2>4 DEF PeerStep, AddBlock
<1>5. CASE Event.type = "rollback"
  <2>1. Rollback(b)
    BY <1>2, <1>5 DEF NodeHandler, IsRollback
  <2>2. NodePoints = {x \in Points : Anc(b, x)}
    BY <1>1, <1>5 DEF NodePoints, NodePending
  <2>3. PeerInv'
    BY <1>1, <1>2, <1>3, <2>1, <2>2, RollbackStep
  <2> QED
    BY <2>1, <2>3 DEF PeerStep, Rollback
<1>6. CASE Event.type # "block" /\ Event.type # "rollback"
  <2>1. UNCHANGED peerVars
    BY <1>6 DEF NodeHandler, IsRollback
  <2>2. NodePoints = {b}
    BY <1>6 DEF NodePoints, NodePending
  <2>3. publishing = NotPublishing
    BY <1>1 DEF PeerInv, LockInv
  <2> QED
    BY <1>1, <1>3, <2>1, <2>2, <2>3, QuietStep DEF PeerStep
<1> QED
  BY <1>4, <1>5, <1>6

\* The pipeline goes on: where the node is stays the same.
LEMMA QuietNode ==
    ASSUME PipelineInv, PeerInv,
           \/ UNCHANGED vars
           \/ \E it \in Item : Arrives(it)
           \/ \E b \in Blocks : RollForward(b)
           \/ \E k \in 0..Len(followed) : RollBackward(k)
           \/ UpdateCursor
           \/ SpectrumHandler \/ IndexerHandler
           \/ OracleHandler("synthetics", "lending")
           \/ OracleHandler("lending", "indexer")
           \/ OracleWriteFails("synthetics", "lending")
           \/ OracleWriteFails("lending", "indexer")
    PROVE  /\ UNCHANGED peerVars /\ up' = up /\ NodePoints \subseteq NodePoints'
           /\ publishing # NotPublishing => queue' # <<>> /\ stage' = "spectrum"
<1>1. CASE UNCHANGED vars
  <2>1. UNCHANGED <<up, followed, queue, stage, peerVars>>
    BY <1>1 DEF vars, chainVars
  <2> QED
    BY <2>1 DEF NodePoints, NodePending, Event, PeerInv, LockInv, peerVars, serverVars
<1>2. ASSUME NEW b \in Blocks, RollForward(b)
      PROVE  /\ UNCHANGED peerVars /\ up' = up /\ NodePoints \subseteq NodePoints'
             /\ publishing = NotPublishing
  <2>1. /\ queue = <<>> /\ stage = "node" /\ stage' = stage /\ up' = up /\ up
        /\ UNCHANGED peerVars /\ Parent[b] = Newest(followed)
        /\ queue' = BlockEvents(b) /\ followed' = Append(followed, b)
        /\ publishing = NotPublishing
    BY <1>2, ForwardParent DEF RollForward, Delivers, Idle, Unlocked, PipelineInv
  <2>2. Newest(followed') = b
    BY <2>1, AppendPath DEF PipelineInv
  <2>3. Event'.type = "block" /\ queue' # <<>>
    BY <2>1, BlockEventsOf DEF Event, BlockEvent
  <2>4. NodePoints' = {Parent[b]}
    BY <2>1, <2>2, <2>3 DEF NodePoints, NodePending
  <2>5. NodePoints = {Newest(followed)}
    BY <2>1 DEF NodePoints, NodePending
  <2> QED
    BY <2>1, <2>4, <2>5
<1>3. ASSUME NEW k \in 0..Len(followed), RollBackward(k)
      PROVE  /\ UNCHANGED peerVars /\ up' = up /\ NodePoints \subseteq NodePoints'
             /\ publishing = NotPublishing
  <2>1. /\ queue = <<>> /\ stage = "node" /\ stage' = stage /\ up' = up /\ up
        /\ UNCHANGED peerVars /\ followed' = SubSeq(followed, 1, k)
        /\ queue' = <<RollbackTo(Newest(followed'))>>
        /\ publishing = NotPublishing /\ IsPath(followed)
    BY <1>3 DEF RollBackward, Delivers, Idle, Unlocked, PipelineInv
  <2>2. queue' # <<>> /\ Event'.type = "rollback"
    BY <2>1 DEF Event, RollbackTo
  <2>3. Newest(followed') = IF k = 0 THEN Genesis ELSE followed[k]
    BY <2>1, PrefixPath
  <2>4. Anc(Newest(followed'), Newest(followed)) /\ Newest(followed) \in Points
    <3>1. k # 0 => followed[k] \in ToSet(followed)
      BY <2>1, LenProperties DEF IsPath, ToSet
    <3> QED
      BY <2>1, <2>3, <3>1, AncOnPath
  <2>5. NodePoints' = {x \in Points : Anc(Newest(followed'), x)}
    BY <2>1, <2>2 DEF NodePoints, NodePending
  <2>6. NodePoints = {Newest(followed)}
    BY <2>1 DEF NodePoints, NodePending
  <2> QED
    BY <2>1, <2>4, <2>5, <2>6
<1>4. CASE UpdateCursor \/ \E it \in Item : Arrives(it)
  <2>1. UNCHANGED <<up, followed, queue, stage, peerVars>>
    BY <1>4 DEF UpdateCursor, Arrives, Receive
  <2> QED
    BY <2>1 DEF NodePoints, NodePending, Event, PeerInv, LockInv, peerVars, serverVars
<1>5. ASSUME UNCHANGED <<up, followed, peerVars>>, stage # "node", stage' # "node",
             publishing = NotPublishing
      PROVE  NodePoints \subseteq NodePoints'
  BY <1>5 DEF NodePoints, NodePending
<1>6. CASE SpectrumHandler
  <2>1. /\ UNCHANGED <<up, followed, peerVars>> /\ stage # "node" /\ stage' # "node"
        /\ publishing = NotPublishing
    BY <1>6 DEF SpectrumHandler, AtStage, Continue, Unlocked
  <2> QED
    BY <1>5, <2>1
<1>7. CASE OracleHandler("synthetics", "lending") \/ OracleHandler("lending", "indexer")
  <2>1. /\ UNCHANGED <<up, followed, peerVars>> /\ stage # "node" /\ stage' # "node"
        /\ stage # "spectrum"
    BY <1>7 DEF OracleHandler, AtStage, Continue
  <2> QED
    BY <1>5, <2>1 DEF PeerInv, LockInv
<1>8. CASE OracleWriteFails("synthetics", "lending")
             \/ OracleWriteFails("lending", "indexer")
  <2>1. /\ UNCHANGED <<up, followed, peerVars>> /\ stage # "node" /\ stage' # "node"
        /\ stage # "spectrum"
    BY <1>8 DEF OracleWriteFails, AtStage, Continue
  <2> QED
    BY <1>5, <2>1 DEF PeerInv, LockInv
<1>9. CASE IndexerHandler
  <2>1. /\ UNCHANGED <<up, followed, peerVars>> /\ stage = "indexer"
        /\ stage' = "node" /\ queue' = Tail(queue) /\ queue # <<>>
    BY <1>9 DEF IndexerHandler, AtStage, EventDone
  <2>2. NodePoints = {Newest(followed)} /\ publishing = NotPublishing
    BY <2>1 DEF NodePoints, NodePending, PeerInv, LockInv
  <2>3. PipelineInv'
    BY <1>9, PipelineNext DEF Next
  <2>4. queue' # <<>> => Event'.type = "transaction"
    <3> DEFINE b == Newest(followed)
    <3>1. b \in Blocks => \A n \in 1..Len(TxsOf[b]) : n \in 0..Len(TxsOf[b])
      BY TxsAssumption, LenProperties
    <3>2. \/ Tail(queue) = <<>>
          \/ b \in Blocks /\ \E n \in 0..Len(TxsOf[b]) : Tail(queue) = TxsFrom(b, n)
      BY <2>1, <3>1, EventOf
    <3>3. ASSUME b \in Blocks, NEW n \in 0..Len(TxsOf[b]), Tail(queue) = TxsFrom(b, n),
                 Tail(queue) # <<>>
          PROVE  Head(Tail(queue)).type = "transaction"
      <4>1. Head(Tail(queue)) = TxEvent(b, n + 1)
        BY <3>3, TxsFromTail
      <4>2. TxEvent(b, n + 1).type = "transaction"
        BY DEF TxEvent
      <4> HIDE DEF b
      <4> QED
        BY <4>1, <4>2
    <3> QED
      BY <2>1, <3>2, <3>3 DEF Event
  <2>5. NodePoints' = {Newest(followed)}
    BY <2>1, <2>4 DEF NodePoints, NodePending
  <2> QED
    BY <2>1, <2>2, <2>5
<1> QED
  BY <1>1, <1>2, <1>3, <1>4, <1>6, <1>7, <1>8, <1>9

\* Every step keeps the invariant.
LEMMA PeerInvNext ==
    ASSUME PipelineInv, PeerInv, [Next]_vars
    PROVE  PeerInv' /\ PeerStep
<1>1. CASE \/ UNCHANGED vars
           \/ \E it \in Item : Arrives(it)
           \/ \E b \in Blocks : RollForward(b)
           \/ \E k \in 0..Len(followed) : RollBackward(k)
           \/ UpdateCursor
           \/ SpectrumHandler \/ IndexerHandler
           \/ OracleHandler("synthetics", "lending")
           \/ OracleHandler("lending", "indexer")
           \/ OracleWriteFails("synthetics", "lending")
           \/ OracleWriteFails("lending", "indexer")
  BY <1>1, QuietNode, QuietStep DEF PeerStep
<1>2. CASE NodeHandler
  BY <1>2, NodeHandlerStep
<1>3. CASE RollbackFails("synthetics") \/ RollbackFails("lending") \/ Crash
  <2>1. PeersGone
    BY <1>3 DEF RollbackFails, Crash, ProcessEnds
  <2> QED
    BY <2>1, PeersGoneStep DEF PeerStep
<1>4. ASSUME NEW loaded \in BOOLEAN, Restart(loaded) PROVE PeerInv' /\ PeerStep
  <2>1. ~up /\ UNCHANGED peerVars
    BY <1>4 DEF Restart
  <2> QED
    BY <2>1, RestartPeers DEF PeerStep
<1>5. CASE ServePeers
  BY <1>5, ServePeersStep
<1> QED
  BY <1>1, <1>2, <1>3, <1>4, <1>5, ArrivesIf DEF Next

\* The invariant holds at the start.
LEMMA PeerInvInit ==
    ASSUME Init
    PROVE  PipelineInv /\ PeerInv
<1>1. /\ up = TRUE /\ followed = <<>> /\ backlog = <<>> /\ cursor = Genesis
      /\ queue = <<RollbackTo(Genesis)>> /\ stage = "node" /\ PeerInit
  BY DEF Init
<1>2. <<>> \in Seq(Blocks) /\ <<>> \in Seq(Item) /\ Len(<<>>) = 0 /\ IsPath(<<>>)
      /\ Newest(<<>>) = Genesis
  BY DEF IsPath, Newest
<1>3. PipelineInv
  <2>1. BacklogInv
    BY <1>1, <1>2 DEF BacklogInv, Flow, TipOf
  <2> QED
    BY <1>1, <1>2, <2>1 DEF PipelineInv, RollbackQueued, Points
<1>4. /\ recentBlocks = <<>> /\ subs = {} /\ publishing = NotPublishing
      /\ blockChan = [p \in Peers |-> <<>>]
      /\ intersection = [p \in Peers |-> Genesis]
      /\ needsInitialRollback = {} /\ awaiting = {} /\ conns = {}
      /\ found = [p \in Peers |-> None]
      /\ view = [p \in Peers |-> <<>>]
      /\ cutOff = {} /\ deep = {} /\ outrun = {}
  BY <1>1 DEF PeerInit
<1>5. PeerTypes
  <2>1. /\ blockChan \in [Peers -> Seq(Item)] /\ view \in [Peers -> Seq(Blocks)]
        /\ intersection \in [Peers -> Points]
        /\ found \in [Peers -> Blocks \cup {None}]
    BY <1>2, <1>4 DEF Points
  <2> QED
    BY <1>2, <1>4, <2>1, BufferAssumption DEF PeerTypes
<1>6. RecentInv /\ FoundInv /\ ViewInv /\ StreamInv
  BY <1>2, <1>4 DEF RecentInv, FoundInv, ViewInv, StreamInv
<1>7. DownInv /\ LockInv /\ CutOffOnlyByDeepRollback
  BY <1>1, <1>4 DEF DownInv, LockInv, CutOffOnlyByDeepRollback
<1> QED
  BY <1>3, <1>5, <1>6, <1>7 DEF PeerInv

\* The pipeline's queue is always about the newest followed block, and what is
\* on its way to a peer always fits the peer's chain and ends where the
\* node's handler is, through reorgs, crashes and restarts.
THEOREM FollowersInvariant == Spec => [](PipelineInv /\ PeerInv)
<1>1. Init => PipelineInv /\ PeerInv
  BY PeerInvInit
<1>2. PipelineInv /\ PeerInv /\ [Next]_vars => (PipelineInv /\ PeerInv)'
  BY PipelineNext, PeerInvNext
<1> QED
  BY <1>1, <1>2, PTL DEF Spec

\* A peer misses something only after a rollback to or behind its
\* intersection, or when it was outrun between FindIntersect and Sub.
THEOREM CutOffOnlyByDeepRollbackHolds == Spec => []CutOffOnlyByDeepRollback
<1>1. PeerInv => CutOffOnlyByDeepRollback
  BY DEF PeerInv
<1> QED
  BY <1>1, FollowersInvariant, PTL

\* A chain is one in the sense of the client's specification.
LEMMA ClientChain ==
    ASSUME NEW c, IsPath(c)
    PROVE  Client!IsChain(c) /\ Client!LastOf(c) = Newest(c)
<1>1. ASSUME NEW i \in 1..Len(c)
      PROVE  Parent[c[i]] = Client!LastOf(SubSeq(c, 1, i - 1))
  <2>1. i - 1 \in 0..Len(c) /\ (i - 1 = 0 <=> i = 1)
    BY LenProperties DEF IsPath
  <2>2. Newest(SubSeq(c, 1, i - 1)) = IF i - 1 = 0 THEN Genesis ELSE c[i - 1]
    BY <2>1, PrefixPath
  <2>3. Client!LastOf(SubSeq(c, 1, i - 1)) = Newest(SubSeq(c, 1, i - 1))
    BY DEF Client!LastOf, Newest
  <2> QED
    BY <2>1, <2>2, <2>3 DEF IsPath, BeforeIn
<1> QED
  BY <1>1 DEF Client!IsChain, Client!LastOf, Newest

\* An item that fits takes the client one step on.
LEMMA ClientApplies ==
    ASSUME NEW it \in Item, IsPath(view[Observed]),
           Fits(Newest(view[Observed]), it),
           view'[Observed] = Apply(view[Observed], it),
           Observed \notin cutOff, Observed \notin cutOff'
    PROVE  Client!Next \/ view'[Observed] = view[Observed]
<1> DEFINE v == view[Observed]
           w == view'[Observed]
<1>1. IsPath(w) /\ Newest(w) = it.block
  BY ApplyFits
<1>2. Client!LastOf(v) = Newest(v) /\ Client!IsChain(w)
  BY <1>1, ClientChain
<1>3. (Observed \in cutOff)' = (Observed \in cutOff)
  OBVIOUS
<1>4. CASE it.rollback
  <2>1. Anc(it.block, Newest(v)) /\ w = UpTo(SlotOf(it.block), v)
    BY <1>4 DEF Fits, Apply
  <2>2. PICK k \in 0..Len(v) : w = SubSeq(v, 1, k)
    BY <2>1, UpToPath
  <2>3. Len(v) \in Nat /\ v \in Seq(Blocks)
    BY LenProperties DEF IsPath
  <2>4. CASE k = Len(v)
    <3>1. SubSeq(v, 1, Len(v)) = v
      BY <2>3, SubSeqFull
    <3> QED
      BY <2>2, <2>4, <3>1
  <2>5. CASE k # Len(v)
    <3>1. k < Len(v)
      BY <2>2, <2>3, <2>5
    <3>2. Client!RollBackward(k)
      BY <1>3, <2>2, <3>1 DEF Client!RollBackward
    <3> QED
      BY <2>2, <3>2 DEF Client!Next
  <2> QED
    BY <2>4, <2>5
<1>5. CASE ~it.rollback
  <2>1. /\ it.block \in Blocks /\ Parent[it.block] = Newest(v)
        /\ w = Append(v, it.block)
    BY <1>5 DEF Fits, Apply, Item
  <2>2. CASE v # <<>>
    <3>1. Client!RollForward(it.block)
      BY <1>2, <1>3, <2>1, <2>2 DEF Client!RollForward
    <3> QED
      BY <2>1, <3>1 DEF Client!Next
  <2>3. CASE v = <<>>
    <3>1. w # <<>>
      BY <1>1, <2>1, TreeAssumption DEF Newest
    <3>2. Client!Intersect
      BY <1>2, <1>3, <2>3, <3>1 DEF Client!Intersect
    <3> QED
      BY <3>2 DEF Client!Next
  <2> QED
    BY <2>2, <2>3
<1> QED
  BY <1>4, <1>5

\* Every step is one of the client's specification, or none.
LEMMA ClientStep ==
    ASSUME PeerInv, PeerStep
    PROVE  [Client!Next]_<<view[Observed], Observed \in cutOff>>
<1> DEFINE o == Observed
           v == view[o]
<1>1. o \in Peers /\ PeerTypes
  BY ObservedAssumption DEF PeerInv
<1>2. CASE UNCHANGED peerVars \/ UNCHANGED <<view, cutOff>>
  BY <1>2 DEF peerVars
<1>3. CASE o \in cutOff'
  BY <1>3 DEF Client!Next, Client!Lose
<1>4. CASE o \notin cutOff' /\ view'[o] = <<>>
  BY <1>4 DEF Client!Next, Client!Disconnect
<1>5. CASE PeersGone
  BY <1>1, <1>4, <1>5 DEF PeersGone
<1>6. ASSUME view'[o] = v, o \in cutOff' <=> o \in cutOff
      PROVE  [Client!Next]_<<view[Observed], Observed \in cutOff>>
  BY <1>6
<1>7. ASSUME Serving, NEW p \in Peers, o \notin cutOff',
             \/ Accept(p) \/ StateInit(p) \/ RequestNext(p)
             \/ SendAwaited(p) \/ Disconnect(p)
             \/ \E b \in Blocks : FindIntersect(p, b)
      PROVE  [Client!Next]_<<view[Observed], Observed \in cutOff>>
  <2>1. CASE Accept(p)
    <3>1. view' = view /\ view[p] = <<>> /\ cutOff' = cutOff \ {p}
      BY <1>7, <2>1, AcceptStep
    <3>2. CASE p = o
      BY <1>4, <1>7, <3>1, <3>2
    <3>3. CASE p # o
      BY <1>6, <3>1, <3>3
    <3> QED
      BY <3>2, <3>3
  <2>2. CASE StateInit(p)
    <3>1. view' = view /\ (cutOff' = cutOff \/ cutOff' = cutOff \cup {p})
      BY <1>7, <2>2, StateInitStep
    <3>2. o \notin cutOff
      BY <1>7, <3>1
    <3> QED
      BY <1>6, <1>7, <3>1, <3>2
  <2>3. CASE Disconnect(p)
    <3>1. cutOff' = cutOff /\ view' = [view EXCEPT ![p] = <<>>]
      BY <1>7, <2>3, DisconnectStep
    <3>2. CASE p = o
      BY <1>1, <1>4, <1>7, <3>1, <3>2 DEF PeerTypes
    <3>3. CASE p # o
      BY <1>1, <1>6, <3>1, <3>3 DEF PeerTypes
    <3> QED
      BY <3>2, <3>3
  <2>4. ASSUME NEW b \in Blocks, FindIntersect(p, b)
        PROVE  [Client!Next]_<<view[Observed], Observed \in cutOff>>
    <3>1. /\ cutOff' = cutOff /\ view[p] = <<>>
          /\ view' = [view EXCEPT ![p] = Path(b)]
          /\ IsPath(Path(b)) /\ Path(b) # <<>>
      BY <1>7, <2>4, FindIntersectStep
    <3>2. CASE p = o
      <4>1. view'[o] = Path(b)
        BY <1>1, <3>1, <3>2 DEF PeerTypes
      <4>2. Client!IsChain(view'[o])
        BY <3>1, <4>1, ClientChain
      <4>3. Client!Intersect
        BY <3>1, <3>2, <4>1, <4>2 DEF Client!Intersect
      <4> QED
        BY <4>3 DEF Client!Next
    <3>3. CASE p # o
      BY <1>1, <1>6, <3>1, <3>3 DEF PeerTypes
    <3> QED
      BY <3>2, <3>3
  <2>5. CASE RequestNext(p) \/ SendAwaited(p)
    <3>1. Moved(p)
      BY <1>7, <2>5, SendAwaitedStep, InitialRollbackStep, RequestNextStep
    <3>2. o \notin cutOff
      BY <1>7, <2>5 DEF RequestNext, SendAwaited
    <3>3. CASE p # o
      <4>1. view'[o] = v
        BY <1>1, <2>5, <3>3 DEF RequestNext, SendAwaited, PeerTypes
      <4> QED
        BY <1>6, <1>7, <3>2, <4>1
    <3>4. CASE p = o
      <4>1. \/ view'[o] = v
            \/ /\ IsPath(v)
               /\ \E it \in Item : Fits(Newest(v), it) /\ view'[o] = Apply(v, it)
        BY <1>7, <3>1, <3>4 DEF Moved
      <4>2. CASE view'[o] = v
        BY <1>6, <1>7, <3>2, <4>2
      <4>3. ASSUME IsPath(v), NEW it \in Item, Fits(Newest(v), it),
                   view'[o] = Apply(v, it)
            PROVE  [Client!Next]_<<view[Observed], Observed \in cutOff>>
        <5>1. Client!Next \/ view'[o] = v
          BY <1>7, <3>2, <4>3, ClientApplies
        <5> QED
          BY <1>6, <1>7, <3>2, <5>1
      <4> QED
        BY <4>1, <4>2, <4>3
    <3> QED
      BY <3>3, <3>4
  <2> QED
    BY <1>7, <2>1, <2>2, <2>3, <2>4, <2>5
<1> QED
  BY <1>2, <1>3, <1>5, <1>7 DEF PeerStep

\* Refinement: whatever the pipeline does, the messages a peer is sent by
\* chainsyncServerRequestNext and its goroutine are those of a chain-sync
\* server, from its intersection on, unless the peer is cut off.
THEOREM PeersAreServed == Spec => ServesChainClient
<1>1. Init => Client!Init
  <2> SUFFICES ASSUME Init PROVE Client!Init
    OBVIOUS
  <2>1. view[Observed] = <<>> /\ Observed \notin cutOff
    BY ObservedAssumption DEF Init, PeerInit
  <2> QED
    BY <2>1 DEF Client!Init
<1>2. PipelineInv /\ PeerInv /\ [Next]_vars
        => [Client!Next]_<<view[Observed], Observed \in cutOff>>
  BY PeerInvNext, ClientStep
<1> QED
  BY <1>1, <1>2, FollowersInvariant, PTL DEF Spec, ServesChainClient, Client!Spec

-----------------------------------------------------------------------------
(* The oracles: what has been spent                                        *)

\* A transaction of a block, its inputs and its outputs.
LEMMA TxOf ==
    ASSUME NEW b \in Blocks
    PROVE  /\ Len(TxsOf[b]) \in Nat /\ DOMAIN TxsOf[b] = 1..Len(TxsOf[b])
           /\ ToSet(TxsOf[b]) = {TxsOf[b][j] : j \in 1..Len(TxsOf[b])}
           /\ \A n \in 1..Len(TxsOf[b]) :
                 LET tx == TxsOf[b][n]
                 IN  /\ Len(tx.outs) \in Nat /\ DOMAIN tx.outs = 1..Len(tx.outs)
                     /\ Len(tx.ins) \in Nat /\ DOMAIN tx.ins = 1..Len(tx.ins)
<1>1. /\ TxsOf[b] \in Seq(Range(TxsOf[b]))
      /\ \A tx \in Range(TxsOf[b]) :
              tx.ins \in Seq(Range(tx.ins)) /\ tx.outs \in Seq(Range(tx.outs))
  BY TxsAssumption
<1>2. Len(TxsOf[b]) \in Nat /\ DOMAIN TxsOf[b] = 1..Len(TxsOf[b])
  BY <1>1, LenProperties
<1>3. ASSUME NEW n \in 1..Len(TxsOf[b])
      PROVE  LET tx == TxsOf[b][n]
             IN  /\ Len(tx.outs) \in Nat /\ DOMAIN tx.outs = 1..Len(tx.outs)
                 /\ Len(tx.ins) \in Nat /\ DOMAIN tx.ins = 1..Len(tx.ins)
  <2>1. TxsOf[b][n] \in Range(TxsOf[b])
    BY <1>2 DEF Range
  <2> DEFINE tx == TxsOf[b][n]
  <2>2. tx.ins \in Seq(Range(tx.ins)) /\ tx.outs \in Seq(Range(tx.outs))
    BY <1>1, <2>1
  <2> QED
    BY <2>2, LenProperties
<1>4. ToSet(TxsOf[b]) = {TxsOf[b][j] : j \in 1..Len(TxsOf[b])}
  BY <1>2 DEF ToSet
<1> QED
  BY <1>2, <1>3, <1>4

\* The members of a list that grows.
LEMMA AppendToSet ==
    ASSUME NEW S, NEW c \in Seq(S), NEW b \in S
    PROVE  Append(c, b) \in Seq(S) /\ ToSet(Append(c, b)) = ToSet(c) \cup {b}
<1>1. Len(c) \in Nat /\ DOMAIN c = 1..Len(c)
  BY LenProperties
<1>2. /\ Append(c, b) \in Seq(S) /\ Len(Append(c, b)) = Len(c) + 1
      /\ \A i \in 1..Len(c) : Append(c, b)[i] = c[i]
      /\ Append(c, b)[Len(c) + 1] = b
  BY AppendProperties
<1> DEFINE d == Append(c, b)
<1>3. DOMAIN d = 1..(Len(c) + 1)
  BY <1>2, LenProperties
<1> HIDE DEF d
<1>4. ToSet(d) = {d[i] : i \in 1..(Len(c) + 1)} /\ ToSet(c) = {c[i] : i \in 1..Len(c)}
  BY <1>1, <1>3 DEF ToSet
<1>5. \A i \in 1..Len(c) : d[i] = c[i] /\ i \in 1..(Len(c) + 1)
  BY <1>1, <1>2 DEF d
<1>6. d[Len(c) + 1] = b /\ Len(c) + 1 \in 1..(Len(c) + 1)
  BY <1>1, <1>2 DEF d
<1>7. \A i \in 1..(Len(c) + 1) : i \in 1..Len(c) \/ i = Len(c) + 1
  BY <1>1
<1> QED
  BY <1>2, <1>4, <1>5, <1>6, <1>7 DEF d

\* The blocks of a chain are those of its parent, and the newest one.
LEMMA PathSet ==
    ASSUME NEW b \in Blocks
    PROVE  ToSet(Path(b)) = ToSet(Path(Parent[b])) \cup {b}
<1>1. Parent[b] \in Points
  BY PointSlots
<1>2. Path(Parent[b]) \in Seq(Blocks)
  BY <1>1, PathOf DEF IsPath
<1>3. ToSet(Append(Path(Parent[b]), b)) = ToSet(Path(Parent[b])) \cup {b}
  BY <1>2, AppendToSet
<1> QED
  BY <1>3, PathOfChild

\* What a longer chain spends.
LEMMA SpentMore ==
    ASSUME NEW c, NEW d, ToSet(c) \subseteq ToSet(d)
    PROVE  SpentOn(c) \subseteq SpentOn(d)
<1>1. TxsOn(c) \subseteq TxsOn(d)
  BY DEF TxsOn
<1> QED
  BY <1>1 DEF SpentOn

\* Transaction by transaction.
LEMMA SpentSteps ==
    ASSUME NEW b \in Blocks
    PROVE  /\ SpentTo(b, 0) = SpentOn(Path(Parent[b]))
           /\ SpentTo(b, Len(TxsOf[b])) = SpentOn(Path(b))
           /\ \A n \in 1..Len(TxsOf[b]) :
                 SpentTo(b, n) = SpentTo(b, n - 1) \cup Range(TxsOf[b][n].ins)
           /\ \A n \in 0..Len(TxsOf[b]) :
                 /\ SpentOn(Path(Parent[b])) \subseteq SpentTo(b, n)
<1>1. Len(TxsOf[b]) \in Nat /\ ToSet(TxsOf[b]) = {TxsOf[b][j] : j \in 1..Len(TxsOf[b])}
  BY TxOf
<1>2. SpentTo(b, 0) = SpentOn(Path(Parent[b]))
  BY DEF SpentTo
<1>3. SpentTo(b, Len(TxsOf[b])) = SpentOn(Path(b))
  <2>1. ToSet(Path(b)) = ToSet(Path(Parent[b])) \cup {b}
    BY PathSet
  <2>2. TxsOn(Path(b)) = TxsOn(Path(Parent[b])) \cup ToSet(TxsOf[b])
    BY <2>1 DEF TxsOn
  <2>3. SpentOn(Path(b)) = SpentOn(Path(Parent[b]))
                             \cup UNION {ToSet(tx.ins) : tx \in ToSet(TxsOf[b])}
    BY <2>2 DEF SpentOn
  <2>4. UNION {ToSet(tx.ins) : tx \in ToSet(TxsOf[b])}
          = UNION {Range(TxsOf[b][j].ins) : j \in 1..Len(TxsOf[b])}
    BY <1>1 DEF ToSet, Range
  <2> QED
    BY <2>3, <2>4 DEF SpentTo
<1>4. ASSUME NEW n \in 1..Len(TxsOf[b])
      PROVE  SpentTo(b, n) = SpentTo(b, n - 1) \cup Range(TxsOf[b][n].ins)
  <2>1. 1..n = 1..(n - 1) \cup {n}
    BY <1>1
  <2> QED
    BY <2>1 DEF SpentTo
<1> QED
  BY <1>2, <1>3, <1>4 DEF SpentTo

\* The number of transactions that are left tells how many are done.
LEMMA SpentInTxs ==
    ASSUME NEW b \in Blocks, NEW n \in 1..Len(TxsOf[b]), NEW f, Newest(f) = b, NEW st
    PROVE  SpentAt(TxsFrom(b, n - 1), st, f)
             = SpentTo(b, IF st \in {"lending", "indexer"} THEN n ELSE n - 1)
<1> DEFINE q == TxsFrom(b, n - 1)
           l == Len(TxsOf[b])
           f2(i) == TxEvent(b, (n - 1) + i)
           E == {f2(i) : i \in 1..(l - (n - 1))}
<1>1. l \in Nat /\ n - 1 \in 0..l /\ n - 1 # l /\ l - (n - 1) \in Nat /\ (n - 1) + 1 = n
  BY TxOf
<1>2. q # <<>> /\ Head(q) = TxEvent(b, n)
  BY <1>1, TxsFromTail
<1>3. Head(q).type = "transaction"
  BY <1>2 DEF TxEvent
<1>4. Len(q) = l - (n - 1)
  <2>1. q = [i \in 1..(l - (n - 1)) |-> f2(i)]
    BY DEF TxsFrom
  <2>2. \A i \in 1..(l - (n - 1)) : f2(i) \in E
    OBVIOUS
  <2>3. DOMAIN q = 1..(l - (n - 1))
    BY <2>1
  <2> HIDE DEF f2, E, l, q
  <2>4. q \in Seq(E)
    BY <1>1, <2>1, <2>2, IsASeq
  <2> QED
    BY <1>1, <2>3, <2>4, LenProperties
<1> HIDE DEF q, l
<1>5. l - (l - (n - 1)) = n - 1 /\ (n - 1) + 0 = n - 1
  BY <1>1
<1>6. DoneOf(q, st, b) = IF st \in {"lending", "indexer"} THEN n ELSE n - 1
  BY <1>1, <1>3, <1>4, <1>5 DEF DoneOf, l
<1> QED
  BY <1>2, <1>3, <1>6 DEF SpentAt, q

\* After a block's event, or after its last transaction.
LEMMA SpentInBlock ==
    ASSUME NEW b \in Blocks, NEW f, Newest(f) = b, f = Path(b), NEW st
    PROVE  /\ SpentAt(BlockEvents(b), st, f) = SpentTo(b, 0)
           /\ \A n \in 0..Len(TxsOf[b]) : st \notin {"lending", "indexer"} =>
                 SpentAt(TxsFrom(b, n), st, f) = SpentTo(b, n)
<1>1. BlockEvents(b) # <<>> /\ Head(BlockEvents(b)) = BlockEvent(b)
  BY BlockEventsOf
<1>2. SpentAt(BlockEvents(b), st, f) = SpentTo(b, 0)
  <2>1. Head(BlockEvents(b)).type = "block"
    BY <1>1 DEF BlockEvent
  <2>2. DoneOf(BlockEvents(b), st, b) = 0
    BY <2>1 DEF DoneOf
  <2> QED
    BY <1>1, <2>1, <2>2 DEF SpentAt
<1>3. ASSUME NEW n \in 0..Len(TxsOf[b]), st \notin {"lending", "indexer"}
      PROVE  SpentAt(TxsFrom(b, n), st, f) = SpentTo(b, n)
  <2>1. CASE n = Len(TxsOf[b])
    <3>1. TxsFrom(b, n) = <<>>
      BY <2>1, TxsFromTail
    <3> QED
      BY <2>1, <3>1, SpentSteps DEF SpentAt
  <2>2. CASE n # Len(TxsOf[b])
    <3>1. n + 1 \in 1..Len(TxsOf[b]) /\ (n + 1) - 1 = n
      BY <2>2, TxOf
    <3> QED
      BY <1>3, <3>1, SpentInTxs
  <2> QED
    BY <2>1, <2>2
<1> QED
  BY <1>2, <1>3

\* Two blocks of a chain, by their slots.
LEMMA PathOrder ==
    ASSUME NEW c, IsPath(c), NEW a \in ToSet(c), NEW b,
           b = Genesis \/ b \in ToSet(c), SlotOf(a) <= SlotOf(b)
    PROVE  a \in ToSet(Path(b)) /\ b \in ToSet(c) /\ b \in Blocks
<1>1. c \in Seq(Blocks) /\ Len(c) \in Nat /\ DOMAIN c = 1..Len(c)
      /\ \A i \in 1..Len(c) : c[i] \in Blocks
  BY LenProperties, ElementOfSeq DEF IsPath
<1>2. PICK i \in 1..Len(c) : a = c[i]
  BY <1>1 DEF ToSet
<1>3. a \in Blocks /\ SlotOf(a) \in Nat /\ 0 < SlotOf(a)
  BY <1>1, <1>2, PointSlots DEF Points
<1>4. b # Genesis
  BY <1>3, PointSlots
<1>5. PICK j \in 1..Len(c) : b = c[j]
  BY <1>1, <1>4 DEF ToSet
<1>6. SlotOf(b) \in Nat /\ b \in Blocks
  BY <1>1, <1>5, PointSlots DEF Points
<1>7. i <= j
  <2>1. j < i => SlotOf(c[j]) < SlotOf(c[i])
    BY PathSlots
  <2> QED
    BY <1>1, <1>2, <1>3, <1>5, <1>6, <2>1
<1> DEFINE d == SubSeq(c, 1, j)
<1>8. IsPath(d) /\ Len(d) = j /\ (\A k \in 1..j : d[k] = c[k]) /\ Newest(d) = b
  <2>1. j \in 0..Len(c) /\ j # 0
    BY <1>1
  <2> QED
    BY <1>5, <2>1, PrefixPath
<1> HIDE DEF d
<1>9. Path(b) = d
  BY <1>8, PathOfNewest
<1>10. DOMAIN d = 1..j /\ i \in 1..j /\ d[i] = a
  <2>1. d \in Seq(Blocks)
    BY <1>8 DEF IsPath
  <2> QED
    BY <1>1, <1>2, <1>7, <1>8, <2>1, LenProperties
<1> QED
  BY <1>4, <1>6, <1>9, <1>10 DEF ToSet

\* The blocks of a chain are no newer than its newest.
LEMMA PathNewest ==
    ASSUME NEW c, IsPath(c), NEW a \in ToSet(c)
    PROVE  /\ a \in Blocks /\ SlotOf(a) \in Nat /\ SlotOf(Newest(c)) \in Nat
           /\ SlotOf(a) <= SlotOf(Newest(c)) /\ Newest(c) \in Blocks
           /\ Newest(c) \in ToSet(c)
           /\ a # Newest(c) => SlotOf(a) < SlotOf(Newest(c))
<1>1. Anc(a, Newest(c)) /\ Newest(c) \in Points
  BY AncOnPath
<1>2. /\ SlotOf(a) \in Nat /\ SlotOf(Newest(c)) \in Nat
      /\ SlotOf(a) <= SlotOf(Newest(c))
      /\ a # Newest(c) => SlotOf(a) < SlotOf(Newest(c))
  BY <1>1, AncSlots
<1>3. c \in Seq(Blocks) /\ DOMAIN c = 1..Len(c) /\ \A i \in 1..Len(c) : c[i] \in Blocks
  BY LenProperties, ElementOfSeq DEF IsPath
<1>4. a \in Blocks /\ c # <<>>
  BY <1>3 DEF ToSet
<1> QED
  BY <1>2, <1>3, <1>4, NewestOf

\* What the synthetics oracle has seen spent.
LEMMA SpentNow ==
    ASSUME PipelineInv
    PROVE  /\ queue = <<>> \/ IsRollback =>
                SpentAt(queue, stage, followed) = SpentOn(followed)
           /\ queue # <<>> /\ ~IsRollback =>
                /\ Newest(followed) \in Blocks /\ followed = Path(Newest(followed))
                /\ SpentOn(Path(Parent[Newest(followed)]))
                     \subseteq SpentAt(queue, stage, followed)
           /\ queue # <<>> /\ IsTx => \A n \in 1..Len(TxsOf[Newest(followed)]) :
                TxsQueued(n - 1) =>
                  SpentAt(queue, stage, followed) =
                    SpentTo(Newest(followed),
                            IF stage \in {"lending", "indexer"} THEN n ELSE n - 1)
<1> DEFINE b == Newest(followed)
<1>1. queue = <<>> \/ IsRollback => SpentAt(queue, stage, followed) = SpentOn(followed)
  BY DEF SpentAt, IsRollback, Event
<1>2. ASSUME queue # <<>>, ~IsRollback
      PROVE  /\ b \in Blocks /\ followed = Path(b)
             /\ SpentOn(Path(Parent[b])) \subseteq SpentAt(queue, stage, followed)
  <2>1. b \in Blocks
    BY <1>2, EventOf
  <2>2. followed = Path(b)
    BY PathOfNewest DEF PipelineInv
  <2>3. SpentAt(queue, stage, followed) = SpentTo(b, DoneOf(queue, stage, b))
    BY <1>2 DEF SpentAt, IsRollback, Event
  <2> QED
    BY <2>1, <2>2, <2>3 DEF SpentTo
<1>3. ASSUME queue # <<>>, IsTx, NEW n \in 1..Len(TxsOf[b]), TxsQueued(n - 1)
      PROVE  SpentAt(queue, stage, followed)
               = SpentTo(b, IF stage \in {"lending", "indexer"} THEN n ELSE n - 1)
  <2>1. ~IsRollback
    BY <1>3 DEF IsTx, IsRollback
  <2>2. b \in Blocks
    BY <1>2, <1>3, <2>1
  <2> QED
    BY <1>3, <2>2, SpentInTxs DEF TxsQueued
<1> QED
  BY <1>1, <1>2, <1>3

-----------------------------------------------------------------------------
(* The oracles: steps that leave the states alone                          *)

\* A block arrives.
LEMMA ForwardStates ==
    ASSUME PipelineInv, NEW b \in Blocks, RollForward(b), NEW s, WellFormed(s), OnChain(s)
    PROVE  OnChain(s)'
<1>1. /\ queue = <<>> /\ Parent[b] = Newest(followed) /\ stage' = stage
      /\ followed' = Append(followed, b) /\ queue' = BlockEvents(b) /\ IsPath(followed)
  BY ForwardParent DEF RollForward, Delivers, Idle, PipelineInv
<1>2. IsPath(followed') /\ Newest(followed') = b
  BY <1>1, AppendPath
<1>3. followed' = Path(b) /\ Path(Parent[b]) = followed
  BY <1>1, <1>2, PathOfNewest
<1>4. SpentAt(queue', stage', followed') = SpentOn(followed)
  <2>1. SpentAt(queue', stage', followed') = SpentTo(b, 0)
    BY <1>1, <1>2, <1>3, SpentInBlock
  <2> QED
    BY <1>3, <2>1, SpentSteps
<1>5. s.block \in ToSet(followed) /\ (s.address = Cdp => s.utxo \notin SpentOn(followed))
  BY <1>1 DEF OnChain, OnChainAt, PendingAt, SpentAt
<1>6. ToSet(followed') = ToSet(followed) \cup {b}
  BY <1>1, AppendToSet DEF IsPath
<1> QED
  BY <1>4, <1>5, <1>6 DEF OnChain, OnChainAt

\* A rollback arrives: what comes from a later block has yet to go.
LEMMA BackwardStates ==
    ASSUME PipelineInv, NEW k \in 0..Len(followed), RollBackward(k),
           NEW s, WellFormed(s), OnChain(s)
    PROVE  OnChain(s)'
<1>1. /\ queue = <<>> /\ stage' = stage /\ stage = "node" /\ IsPath(followed)
      /\ followed' = SubSeq(followed, 1, k)
      /\ queue' = <<RollbackTo(Newest(followed'))>>
  BY DEF RollBackward, Delivers, Idle, PipelineInv
<1>2. queue' # <<>> /\ Head(queue').type = "rollback"
  BY <1>1 DEF RollbackTo
<1>3. /\ IsPath(followed') /\ Len(followed') = k
      /\ \A i \in 1..k : followed'[i] = followed[i]
      /\ Newest(followed') = IF k = 0 THEN Genesis ELSE followed[k]
  BY <1>1, PrefixPath
<1>4. /\ Len(followed) \in Nat /\ DOMAIN followed = 1..Len(followed)
      /\ DOMAIN followed' = 1..k /\ \A i \in 1..Len(followed) : followed[i] \in Blocks
  BY <1>1, <1>3, LenProperties, ElementOfSeq DEF IsPath
<1>5. s.block \in ToSet(followed) /\ (s.address = Cdp => s.utxo \notin SpentOn(followed))
  BY <1>1 DEF OnChain, OnChainAt, PendingAt, SpentAt
<1>6. PICK i \in 1..Len(followed) : s.block = followed[i]
  BY <1>4, <1>5 DEF ToSet
<1>7. CASE i <= k
  <2>1. s.block \in ToSet(followed')
    BY <1>3, <1>4, <1>6, <1>7 DEF ToSet
  <2>2. ToSet(followed') \subseteq ToSet(followed)
    BY <1>3, <1>4 DEF ToSet
  <2>3. SpentAt(queue', stage', followed') = SpentOn(followed')
    BY <1>2 DEF SpentAt
  <2> QED
    BY <1>5, <2>1, <2>2, <2>3, SpentMore DEF OnChain, OnChainAt
<1>8. CASE k < i
  <2>1. SlotOf(Newest(followed')) < SlotOf(s.block)
    <3>1. CASE k = 0
      BY <1>3, <1>4, <1>6, <3>1, PointSlots
    <3>2. CASE k # 0
      <4>1. k \in 1..Len(followed)
        BY <1>4, <3>2
      <4> QED
        BY <1>1, <1>3, <1>6, <1>8, <3>2, <4>1, PathSlots
    <3> QED
      BY <3>1, <3>2
  <2>2. PendingAt(queue', stage', s.address)
    BY <1>1, <1>2 DEF PendingAt
  <2> QED
    BY <2>1, <2>2 DEF OnChain, OnChainAt
<1> QED
  BY <1>4, <1>7, <1>8

\* The handlers before the oracles.
LEMMA EarlyStates ==
    ASSUME PipelineInv, UNCHANGED <<followed, queue>>, queue # <<>>,
           stage \in {"node", "spectrum"}, stage' \in {"node", "spectrum", "synthetics"},
           NEW s, WellFormed(s), OnChain(s)
    PROVE  OnChain(s)'
<1>1. SpentAt(queue', stage', followed') = SpentAt(queue, stage, followed)
  BY DEF SpentAt, DoneOf
<1>2. PendingAt(queue, stage, s.address) => PendingAt(queue', stage', s.address)
  BY DEF PendingAt
<1> QED
  BY <1>1, <1>2 DEF OnChain, OnChainAt

\* The handler after them: the event is done.
LEMMA DoneStates ==
    ASSUME PipelineInv, IndexerHandler, NEW s, WellFormed(s), OnChain(s)
    PROVE  OnChain(s)'
<1> DEFINE b == Newest(followed)
<1>1. /\ queue # <<>> /\ stage = "indexer" /\ stage' = "node"
      /\ queue' = Tail(queue) /\ followed' = followed
  BY DEF IndexerHandler, AtStage, EventDone
<1>2. ~PendingAt(queue, stage, s.address)
  BY <1>1 DEF PendingAt
<1>3. SpentAt(queue', stage', followed') = SpentAt(queue, stage, followed)
  <2>1. CASE IsRollback
    <3>1. Tail(queue) = <<>>
      BY <1>1, <2>1, EventOf
    <3>2. SpentAt(queue, stage, followed) = SpentOn(followed)
      BY <2>1, SpentNow
    <3> QED
      BY <1>1, <3>1, <3>2 DEF SpentAt
  <2>2. CASE Event.type = "block"
    <3>1. /\ b \in Blocks /\ queue = BlockEvents(b) /\ Tail(queue) = TxsFrom(b, 0)
          /\ 0 \in 0..Len(TxsOf[b])
      BY <1>1, <2>2, EventOf DEF BlockQueued, IsTx, IsRollback
    <3>2. followed = Path(b)
      BY PathOfNewest DEF PipelineInv
    <3>3. SpentAt(queue, stage, followed) = SpentTo(b, 0)
      BY <3>1, <3>2, SpentInBlock
    <3>4. SpentAt(TxsFrom(b, 0), "node", followed) = SpentTo(b, 0)
      BY <3>1, <3>2, SpentInBlock
    <3> QED
      BY <1>1, <3>1, <3>3, <3>4
  <2>3. CASE IsTx
    <3>1. PICK n \in 1..Len(TxsOf[b]) : TxsQueued(n - 1) /\ Tail(queue) = TxsFrom(b, n)
      BY <1>1, <2>3, EventOf DEF IsTx, IsRollback
    <3>2. b \in Blocks /\ followed = Path(b)
      BY <1>1, <2>3, SpentNow DEF IsTx, IsRollback
    <3>3. n \in 0..Len(TxsOf[b])
      BY <3>2, TxOf
    <3>4. SpentAt(queue, stage, followed) = SpentTo(b, n)
      BY <1>1, <2>3, <3>1, SpentNow
    <3>5. SpentAt(TxsFrom(b, n), "node", followed) = SpentTo(b, n)
      BY <3>2, <3>3, SpentInBlock
    <3> QED
      BY <1>1, <3>1, <3>4, <3>5
  <2> QED
    BY <1>1, <2>1, <2>2, <2>3, EventOf
<1> QED
  BY <1>1, <1>2, <1>3 DEF OnChain, OnChainAt

\* None of these steps changes the states, and no state leaves the chain.
LEMMA QuietStates ==
    ASSUME PipelineInv, TrackedInv,
           \/ UNCHANGED vars
           \/ \E it \in Item : Arrives(it)
           \/ \E b \in Blocks : RollForward(b)
           \/ \E k \in 0..Len(followed) : RollBackward(k)
           \/ UpdateCursor
           \/ NodeHandler \/ SpectrumHandler \/ IndexerHandler
           \/ ServePeers
    PROVE  TrackedInv'
<1>1. /\ UNCHANGED <<up, states, dstates, undeleted, unloaded, stranded>>
      /\ up \/ UNCHANGED cursor
  BY DEF vars, chainVars, storeVars, pastVars, RollForward, RollBackward, UpdateCursor,
         NodeHandler, SpectrumHandler, IndexerHandler, ServePeers, Idle, AtStage,
         Arrives, Receive, Delivers
<1>2. ASSUME NEW s, WellFormed(s), OnChain(s) PROVE OnChain(s)'
  <2>1. CASE UNCHANGED <<followed, queue, stage>>
    BY <1>2, <2>1 DEF OnChain, OnChainAt, PendingAt, SpentAt, DoneOf
  <2>2. CASE NodeHandler \/ SpectrumHandler
    <3>1. /\ UNCHANGED <<followed, queue>> /\ queue # <<>>
          /\ stage \in {"node", "spectrum"} /\ stage' \in {"node", "spectrum", "synthetics"}
      BY <2>2 DEF NodeHandler, SpectrumHandler, AtStage, Continue
    <3> QED
      BY <1>2, <3>1, EarlyStates
  <2>3. CASE UNCHANGED vars \/ UpdateCursor \/ ServePeers \/ \E it \in Item : Arrives(it)
    BY <2>1, <2>3 DEF vars, chainVars, UpdateCursor, ServePeers, Arrives, Receive
  <2> QED
    BY <1>2, <2>2, <2>3, ForwardStates, BackwardStates, DoneStates
<1>3. FormInv'
  BY <1>1 DEF TrackedInv, FormInv, WellFormed
<1>4. RunInv'
  <2>1. \A s \in states : WellFormed(s)
    BY DEF TrackedInv, FormInv
  <2>2. \A s \in dstates : WellFormed(s)
    BY DEF TrackedInv, FormInv
  <2>3. \A s : Excepted(s) => Excepted(s)'
    BY <1>1 DEF Excepted
  <2>4. \A s : Backed(s) => Backed(s)'
    BY <1>1 DEF Backed
  <2> QED
    BY <1>1, <1>2, <2>1, <2>2, <2>3, <2>4 DEF TrackedInv, RunInv
<1>5. RestInv'
  BY <1>1 DEF TrackedInv, RestInv, Excepted, Durable
<1> QED
  BY <1>3, <1>4, <1>5 DEF TrackedInv

-----------------------------------------------------------------------------
(* The oracles: writes                                                     *)

\* A state after some writes was there and not deleted, or was saved.
LEMMA CommitFrom ==
    ASSUME NEW S, NEW w, NEW s \in Tracked!CommitStates(S, w)
    PROVE  \/ /\ s \in S
              /\ \A t \in w.deletes : Tracked!KeyOf(t) # Tracked!KeyOf(s)
           \/ \E i \in DOMAIN w.saves : s = w.saves[i]
BY DEF Tracked!CommitStates

\* A state that is neither deleted nor replaced stays.
LEMMA CommitKeeps ==
    ASSUME NEW S, NEW w, NEW s \in S,
           \A t \in w.deletes : Tracked!KeyOf(t) # Tracked!KeyOf(s),
           \A i \in DOMAIN w.saves : Tracked!KeyOf(w.saves[i]) # Tracked!KeyOf(s)
    PROVE  s \in Tracked!CommitStates(S, w)
BY DEF Tracked!CommitStates

\* The last save of a key is there afterwards.
LEMMA CommitSaves ==
    ASSUME NEW S, NEW w, NEW n \in Nat, DOMAIN w.saves \subseteq 1..n,
           NEW i \in DOMAIN w.saves
    PROVE  \E j \in DOMAIN w.saves :
              /\ Tracked!KeyOf(w.saves[j]) = Tracked!KeyOf(w.saves[i])
              /\ w.saves[j] \in Tracked!CommitStates(S, w)
<1> DEFINE Same == {j \in DOMAIN w.saves :
                      Tracked!KeyOf(w.saves[j]) = Tracked!KeyOf(w.saves[i])}
           After == {n - j : j \in Same}
<1>1. \A j \in Same : n - j \in Nat /\ j \in Nat
  OBVIOUS
<1>2. After \in SUBSET Nat /\ After # {}
  BY <1>1
<1>3. PICK x \in After : \A y \in After : ~(y < x)
  <2> HIDE DEF After
  <2> QED
    BY <1>2, LeastNatural
<1>4. PICK j \in Same : x = n - j
  BY <1>3
<1>5. \A k \in Same : k <= j
  <2> TAKE k \in Same
  <2>1. n - k \in After
    OBVIOUS
  <2>2. ~(n - k < n - j)
    BY <1>3, <1>4, <2>1
  <2> HIDE DEF Same
  <2> QED
    BY <1>1, <2>2
<1>6. w.saves[j] \in Tracked!CommitStates(S, w)
  BY <1>5 DEF Tracked!CommitStates
<1> QED
  BY <1>6

\* What one failed write, or a crash, leaves of some writes.
LEMMA MadeOf ==
    ASSUME NEW D, NEW F, NEW w, w = [deletes |-> D, saves |-> F], NEW made,
           made \in Tracked!OneFails(w) \/ made \in Tracked!Interrupted(w)
    PROVE  /\ DOMAIN made.saves \subseteq DOMAIN F
           /\ \A i \in DOMAIN made.saves : made.saves[i] = F[i]
           /\ made.deletes \subseteq D
           /\ made \in Tracked!OneFails(w) =>
                \/ made.deletes = D
                \/ \E t \in D : made.deletes = D \ {t}
<1>1. \A is \in SUBSET DOMAIN F :
         Tracked!SavesOnly(w, is) = [deletes |-> D, saves |-> [i \in is |-> F[i]]]
  BY DEF Tracked!SavesOnly, Tracked!Restrict
<1>2. CASE \E t \in D : made = [w EXCEPT !.deletes = @ \ {t}]
  <2>1. PICK t \in D : made = [w EXCEPT !.deletes = @ \ {t}]
    BY <1>2
  <2>2. made = [deletes |-> D \ {t}, saves |-> F]
    BY <2>1
  <2> QED
    BY <2>2
<1>3. CASE \E is \in SUBSET DOMAIN F : made = Tracked!SavesOnly(w, is)
  <2>1. PICK is \in SUBSET DOMAIN F :
          made = [deletes |-> D, saves |-> [i \in is |-> F[i]]]
    BY <1>1, <1>3
  <2> QED
    BY <2>1
<1>4. CASE made \notin Tracked!OneFails(w) /\ \E gone \in SUBSET D : made = Tracked!Deletes(gone)
  <2>1. PICK gone \in SUBSET D : made = [deletes |-> gone, saves |-> <<>>]
    BY <1>4 DEF Tracked!Deletes
  <2>2. DOMAIN made.saves = {} /\ made.deletes = gone
    BY <2>1
  <2> QED
    BY <1>4, <2>2
<1>5. ASSUME made \in Tracked!OneFails(w)
      PROVE  \/ \E t \in D : made = [w EXCEPT !.deletes = @ \ {t}]
             \/ \E is \in SUBSET DOMAIN F : made = Tracked!SavesOnly(w, is)
  <2>1. w.deletes = D /\ w.saves = F
    OBVIOUS
  <2>2. \/ \E t \in D : made = [w EXCEPT !.deletes = @ \ {t}]
        \/ \E i \in DOMAIN F : made = Tracked!SavesOnly(w, DOMAIN F \ {i})
    BY <1>5, <2>1 DEF Tracked!OneFails
  <2>3. \A i \in DOMAIN F : DOMAIN F \ {i} \in SUBSET DOMAIN F
    OBVIOUS
  <2> QED
    BY <2>2, <2>3
<1>6. ASSUME made \in Tracked!Interrupted(w)
      PROVE  \/ \E gone \in SUBSET D : made = Tracked!Deletes(gone)
             \/ \E is \in SUBSET DOMAIN F : made = Tracked!SavesOnly(w, is)
  <2>1. w.deletes = D /\ w.saves = F
    OBVIOUS
  <2>2. \/ \E gone \in SUBSET D : made = Tracked!Deletes(gone)
        \/ \E i \in DOMAIN F : made = Tracked!SavesOnly(w, {j \in DOMAIN F : j <= i})
    BY <1>6, <2>1 DEF Tracked!Interrupted
  <2>3. \A i \in DOMAIN F : {j \in DOMAIN F : j <= i} \in SUBSET DOMAIN F
    OBVIOUS
  <2> QED
    BY <2>2, <2>3
<1> QED
  BY <1>2, <1>3, <1>4, <1>5, <1>6

\* The states that are saved for the n-th transaction of block b.
SavesOK(F, a, b, n) ==
    /\ Len(TxsOf[b][n].outs) \in Nat
    /\ DOMAIN F \subseteq 1..Len(TxsOf[b][n].outs)
    /\ \A i \in DOMAIN F :
          /\ WellFormed(F[i]) /\ F[i].address = a /\ F[i].block = b
          /\ F[i].utxo \notin SpentTo(b, n)

\* The states that a transaction's outputs at an address become.
LEMMA ProducedOf ==
    ASSUME NEW b \in Blocks, NEW n \in 1..Len(TxsOf[b]), NEW a \in {Cdp, Lending},
           NEW F, F = Tracked!Produced(TxsOf[b][n], a, b)
    PROVE  SavesOK(F, a, b, n)
<1> DEFINE tx == TxsOf[b][n]
           l == Len(tx.outs)
<1>1. l \in Nat /\ DOMAIN tx.outs = 1..l
  BY TxOf
<1>2. /\ DOMAIN F = {j \in 1..l : tx.outs[j].address = a}
      /\ \A i \in DOMAIN F : F[i] = Tracked!StateOf(tx.outs[i], b)
  BY <1>1 DEF Tracked!Produced
<1>3. ASSUME NEW i \in DOMAIN F
      PROVE  /\ WellFormed(F[i]) /\ F[i].address = a /\ F[i].block = b
             /\ F[i].utxo \notin SpentTo(b, n)
  <2>1. i \in 1..l /\ tx.outs[i].address = a
    BY <1>2
  <2>2. F[i] = Tracked!StateOf(tx.outs[i], b)
    BY <1>2
  <2> DEFINE o == tx.outs[i]
  <2>3. F[i] = [address |-> o.address, utxo |-> o.utxo, block |-> b,
                key |-> IF o.address = Cdp THEN o.utxo ELSE o.key]
    BY <2>2 DEF Tracked!StateOf
  <2>4. o \in Range(tx.outs)
    BY <1>1, <2>1 DEF Range
  <2>5. /\ F[i].address = a /\ F[i].utxo = o.utxo /\ F[i].block = b
        /\ a = Cdp => F[i].key = o.utxo
    BY <2>1, <2>3
  <2>7. o.utxo \notin SpentTo(b, n)
    BY <2>4, LedgerAssumption
  <2> HIDE DEF o
  <2> QED
    BY <2>5, <2>7 DEF WellFormed
<1> QED
  BY <1>1, <1>2, <1>3 DEF SavesOK

\* What the two oracles write for a transaction, for a rollback and for a
\* block.
AddressOf(s) == IF s = "lending" THEN Lending ELSE Cdp
OracleStages == {"synthetics", "lending"}
LEMMA WritesAre ==
    ASSUME PipelineInv, NEW s \in OracleStages, AtStage(s)
    PROVE  LET b == Newest(followed)
               w == OracleWrites(s)
           IN  /\ IsTx => \E n \in 1..Len(TxsOf[b]) :
                     /\ b \in Blocks /\ b \in ToSet(followed) /\ TxsQueued(n - 1)
                     /\ w = [deletes |-> IF s = "synthetics"
                                         THEN {t \in states : t.address = Cdp
                                                 /\ t.utxo \in Range(TxsOf[b][n].ins)}
                                         ELSE {},
                             saves |-> Tracked!Produced(TxsOf[b][n], AddressOf(s), b)]
               /\ IsRollback =>
                     w = [deletes |-> {t \in states : t.address = AddressOf(s)
                                         /\ SlotOf(t.block) > SlotOf(b)},
                          saves |-> <<>>]
               /\ ~IsTx /\ ~IsRollback => w = [deletes |-> {}, saves |-> <<>>]
<1> DEFINE b == Newest(followed)
           w == OracleWrites(s)
<1>1. queue # <<>> /\ Event.block = b
  BY EventOf DEF AtStage
<1>2. ASSUME IsTx
      PROVE  \E n \in 1..Len(TxsOf[b]) :
                     /\ b \in Blocks /\ b \in ToSet(followed) /\ TxsQueued(n - 1)
                     /\ w = [deletes |-> IF s = "synthetics"
                                         THEN {t \in states : t.address = Cdp
                                                 /\ t.utxo \in Range(TxsOf[b][n].ins)}
                                         ELSE {},
                             saves |-> Tracked!Produced(TxsOf[b][n], AddressOf(s), b)]
  <2>1. ~IsRollback
    BY <1>2 DEF IsTx, IsRollback
  <2>2. PICK n \in 1..Len(TxsOf[b]) : TxsQueued(n - 1) /\ Event.tx = TxsOf[b][n]
    BY <1>1, <1>2, <2>1, EventOf
  <2>3. b \in Blocks
    BY <1>1, <1>2, <2>1, EventOf
  <2>4. b \in ToSet(followed)
    BY <2>3, NewestOf, TreeAssumption DEF PipelineInv, IsPath
  <2>5. w = [deletes |-> IF s = "synthetics"
                         THEN {t \in states : t.address = Cdp
                                                 /\ t.utxo \in Range(TxsOf[b][n].ins)}
                         ELSE {},
             saves |-> Tracked!Produced(TxsOf[b][n], AddressOf(s), b)]
    <3>1. CASE s = "synthetics"
      BY <1>1, <1>2, <2>1, <2>2, <3>1
         DEF OracleWrites, Tracked!SyntheticsWrites, Tracked!SpentCdps, AddressOf,
             Tracked!Range, Range
    <3>2. CASE s = "lending"
      BY <1>1, <1>2, <2>1, <2>2, <3>2
         DEF OracleWrites, Tracked!LendingWrites, AddressOf
    <3> QED
      BY <3>1, <3>2 DEF OracleStages
  <2> QED
    BY <2>2, <2>3, <2>4, <2>5
<1>3. ASSUME IsRollback
      PROVE  w = [deletes |-> {t \in states : t.address = AddressOf(s)
                                         /\ SlotOf(t.block) > SlotOf(b)},
                  saves |-> <<>>]
  <2>1. ~IsTx
    BY <1>3 DEF IsTx, IsRollback
  <2> QED
    BY <1>1, <1>3, <2>1
       DEF OracleWrites, RolledBackBy, Tracked!RolledBack, Tracked!Deletes, AddressOf
<1>4. ASSUME ~IsTx, ~IsRollback PROVE w = [deletes |-> {}, saves |-> <<>>]
  BY <1>4 DEF OracleWrites, Tracked!Deletes
<1> QED
  BY <1>2, <1>3, <1>4

\* A transaction is handled, in Badger maybe but for one write.
LEMMA TxStates ==
    ASSUME PipelineInv, FormInv, RunInv, NEW s \in OracleStages,
           AtStage(s), IsTx,
           NEW made, made = OracleWrites(s) \/ made \in Tracked!OneFails(OracleWrites(s)),
           states' = Tracked!CommitStates(states, OracleWrites(s)),
           dstates' = Tracked!CommitStates(dstates, made),
           undeleted' = undeleted \cup
               {t.utxo : t \in OracleWrites(s).deletes \ made.deletes},
           stage' = IF s = "synthetics" THEN "lending" ELSE "indexer",
           UNCHANGED <<followed, queue, unloaded, stranded>>
    PROVE  /\ \A x \in states' : Excepted(x)' \/ OnChain(x)'
           /\ \A d \in dstates' : Excepted(d)' \/ (OnChain(d)' /\ Backed(d)')
<1>0. PICK b, w : b = Newest(followed) /\ w = OracleWrites(s)
  OBVIOUS
<1>1. queue # <<>> /\ stage = s /\ up /\ ~IsRollback
  BY DEF AtStage, IsTx, IsRollback
<1>2. PICK n \in 1..Len(TxsOf[b]) :
        /\ b \in Blocks /\ b \in ToSet(followed) /\ TxsQueued(n - 1)
        /\ w = [deletes |-> IF s = "synthetics"
                            THEN {t \in states : t.address = Cdp
                                    /\ t.utxo \in Range(TxsOf[b][n].ins)}
                            ELSE {},
                saves |-> Tracked!Produced(TxsOf[b][n], AddressOf(s), b)]
  BY <1>0, WritesAre
<1> DEFINE D == w.deletes
           F == w.saves
           l == Len(TxsOf[b][n].outs)
<1>3. /\ D = IF s = "synthetics"
             THEN {t \in states : t.address = Cdp /\ t.utxo \in Range(TxsOf[b][n].ins)}
             ELSE {}
      /\ F = Tracked!Produced(TxsOf[b][n], AddressOf(s), b)
      /\ w = [deletes |-> D, saves |-> F]
  BY <1>2
<1>4. /\ l \in Nat /\ DOMAIN F \subseteq 1..l
      /\ \A i \in DOMAIN F :
            /\ WellFormed(F[i]) /\ F[i].address = AddressOf(s) /\ F[i].block = b
            /\ F[i].utxo \notin SpentTo(b, n)
  <2>1. AddressOf(s) \in {Cdp, Lending}
    BY DEF AddressOf
  <2> HIDE DEF F
  <2>2. b \in Blocks /\ F = Tracked!Produced(TxsOf[b][n], AddressOf(s), b)
    BY <1>2, <1>3
  <2>3. SavesOK(F, AddressOf(s), b, n)
    BY <2>1, <2>2, ProducedOf
  <2> QED
    BY <2>3 DEF SavesOK
<1>5. /\ SpentAt(queue, stage, followed)
             = SpentTo(b, IF s = "synthetics" THEN n - 1 ELSE n)
      /\ SpentAt(queue', stage', followed') = SpentTo(b, n)
  <2>1. queue = TxsFrom(b, n - 1) /\ stage' \in {"lending", "indexer"}
    BY <1>0, <1>2 DEF TxsQueued
  <2>2. SpentAt(queue', stage', followed') = SpentTo(b, n)
    BY <1>0, <1>2, <2>1, SpentInTxs
  <2>3. stage \in {"lending", "indexer"} <=> s # "synthetics"
    BY <1>1 DEF OracleStages
  <2> QED
    BY <1>0, <1>2, <2>1, <2>2, <2>3, SpentInTxs
<1>6. SpentTo(b, n) = SpentTo(b, n - 1) \cup Range(TxsOf[b][n].ins)
  BY <1>2, SpentSteps
<1>7. \A a : ~PendingAt(queue, stage, a) /\ ~PendingAt(queue', stage', a)
  BY <1>1 DEF PendingAt, IsRollback, Event
<1>8. \A x : /\ OnChain(x) <=> /\ x.block \in ToSet(followed)
                               /\ x.address = Cdp => x.utxo \notin SpentAt(queue, stage, followed)
             /\ OnChain(x)' <=> /\ x.block \in ToSet(followed)
                                /\ x.address = Cdp => x.utxo \notin SpentTo(b, n)
  BY <1>5, <1>7 DEF OnChain, OnChainAt
<1>9. \A x : Excepted(x) => Excepted(x)'
  BY DEF Excepted
<1>10. made.deletes \subseteq D /\ DOMAIN made.saves \subseteq DOMAIN F
       /\ (\A i \in DOMAIN made.saves : made.saves[i] = F[i])
       /\ (made.deletes = D \/ \E t \in D : made.deletes = D \ {t})
  <2>1. CASE made = w
    BY <2>1
  <2>2. CASE made \in Tracked!OneFails(w)
    <3>1. w = [deletes |-> D, saves |-> F]
      BY <1>3
    <3> HIDE DEF D, F
    <3> QED
      BY <2>2, <3>1, MadeOf
  <2> QED
    BY <1>0, <2>1, <2>2
<1>11. ASSUME NEW x, WellFormed(x), OnChain(x), NEW y \in states,
              Tracked!KeyOf(y) = Tracked!KeyOf(x), WellFormed(y),
              \A t \in D : Tracked!KeyOf(t) # Tracked!KeyOf(x)
       PROVE  OnChain(x)'
  <2>1. x.address = y.address /\ x.key = y.key
    BY <1>11 DEF Tracked!KeyOf
  <2>2. CASE s = "synthetics"
    <3>1. x.address = Cdp => y.address = Cdp /\ y.utxo = x.utxo
      BY <1>11, <2>1 DEF WellFormed
    <3>2. x.address = Cdp => x.utxo \notin Range(TxsOf[b][n].ins)
      BY <1>3, <1>11, <2>2, <3>1
    <3> QED
      BY <1>5, <1>6, <1>8, <1>11, <2>2, <3>2
  <2>3. CASE s = "lending"
    <3> QED
      BY <1>5, <1>8, <1>11, <2>3
  <2> QED
    BY <2>2, <2>3 DEF OracleStages
<1>12. \A i \in DOMAIN F : OnChain(F[i])'
  BY <1>2, <1>4, <1>8
<1>13. \A x \in states \cup dstates : WellFormed(x)
  BY DEF FormInv
<1>14. ASSUME NEW x \in states' PROVE Excepted(x)' \/ OnChain(x)'
  <2>1. \/ x \in states /\ \A t \in D : Tracked!KeyOf(t) # Tracked!KeyOf(x)
        \/ \E i \in DOMAIN F : x = F[i]
    BY <1>0, <1>14, CommitFrom
  <2>2. CASE x \in states /\ \A t \in D : Tracked!KeyOf(t) # Tracked!KeyOf(x)
    <3>1. Excepted(x) \/ OnChain(x)
      BY <1>1, <2>2 DEF RunInv
    <3> HIDE DEF D
    <3> QED
      BY <1>9, <1>11, <1>13, <2>2, <3>1
  <2> HIDE DEF D, F
  <2> QED
    BY <1>12, <2>1, <2>2
<1>15. ASSUME NEW d \in dstates' PROVE Excepted(d)' \/ (OnChain(d)' /\ Backed(d)')
  <2>1. \/ d \in dstates /\ \A t \in made.deletes : Tracked!KeyOf(t) # Tracked!KeyOf(d)
        \/ \E i \in DOMAIN made.saves : d = made.saves[i]
    BY <1>15, CommitFrom
  <2>2. ASSUME NEW i \in DOMAIN F, Tracked!KeyOf(F[i]) = Tracked!KeyOf(d),
               SlotOf(d.block) <= SlotOf(b)
        PROVE  Backed(d)'
    <3>1. PICK j \in DOMAIN F : /\ Tracked!KeyOf(F[j]) = Tracked!KeyOf(F[i])
                                /\ F[j] \in Tracked!CommitStates(states, w)
      BY <1>4, <2>2, CommitSaves
    <3> HIDE DEF F
    <3>2. F[j].block = b /\ F[j] \in states'
      BY <1>0, <1>4, <3>1
    <3>3. Tracked!KeyOf(F[j]) = Tracked!KeyOf(d) /\ SlotOf(d.block) <= SlotOf(F[j].block)
      BY <2>2, <3>1, <3>2
    <3> QED
      BY <3>2, <3>3 DEF Backed
  <2>3. CASE \E i \in DOMAIN made.saves : d = made.saves[i]
    <3>1. PICK i \in DOMAIN F : d = F[i]
      BY <1>10, <2>3
    <3>2. d.block = b /\ OnChain(d)'
      BY <1>4, <1>12, <3>1
    <3>3. SlotOf(d.block) <= SlotOf(b)
      BY <1>2, <3>2, PointSlots DEF Points
    <3> QED
      BY <2>2, <3>1, <3>2, <3>3
  <2>4. CASE d \in dstates /\ \A t \in made.deletes : Tracked!KeyOf(t) # Tracked!KeyOf(d)
    <3>1. Excepted(d) \/ (OnChain(d) /\ Backed(d))
      BY <1>1, <2>4 DEF RunInv
    <3>2. CASE \E t \in D : Tracked!KeyOf(t) = Tracked!KeyOf(d)
      <4>1. PICK t \in D : Tracked!KeyOf(t) = Tracked!KeyOf(d)
        BY <3>2
      <4>2. t \notin made.deletes
        BY <2>4, <4>1
      <4>3. t \in states /\ t.address = Cdp
        BY <1>3, <4>1
      <4>4. t.address = d.address /\ t.key = d.key
        BY <4>1 DEF Tracked!KeyOf
      <4>5. t.utxo = d.utxo
        BY <1>13, <2>4, <4>3, <4>4 DEF WellFormed
      <4>6. d.utxo \in undeleted'
        BY <1>0, <4>1, <4>2, <4>5
      <4> QED
        BY <4>6 DEF Excepted
    <3>3. CASE \A t \in D : Tracked!KeyOf(t) # Tracked!KeyOf(d)
      <4>1. CASE Excepted(d)
        BY <1>9, <4>1
      <4>2. CASE OnChain(d) /\ Backed(d)
        <5>1. PICK y \in states : /\ Tracked!KeyOf(y) = Tracked!KeyOf(d)
                                  /\ SlotOf(d.block) <= SlotOf(y.block)
          BY <4>2 DEF Backed
        <5>2. OnChain(d)'
          <6> HIDE DEF D
          <6> QED
            BY <1>11, <1>13, <2>4, <3>3, <4>2, <5>1
        <5>3. CASE \E i \in DOMAIN F : Tracked!KeyOf(F[i]) = Tracked!KeyOf(d)
          <6>1. SlotOf(d.block) <= SlotOf(b)
            <7>1. d.block \in ToSet(followed)
              BY <1>8, <4>2
            <7> QED
              BY <1>0, <7>1, PathNewest DEF PipelineInv
          <6> HIDE DEF F
          <6> QED
            BY <2>2, <5>2, <5>3, <6>1
        <5>4. CASE \A i \in DOMAIN F : Tracked!KeyOf(F[i]) # Tracked!KeyOf(d)
          <6>1. y \in Tracked!CommitStates(states, w)
            BY <3>3, <5>1, <5>4, CommitKeeps
          <6> QED
            BY <1>0, <5>1, <5>2, <6>1 DEF Backed
        <5> HIDE DEF F
        <5> QED
          BY <5>3, <5>4
      <4> QED
        BY <3>1, <4>1, <4>2
    <3> HIDE DEF D
    <3> QED
      BY <3>2, <3>3
  <2> QED
    BY <2>1, <2>3, <2>4
<1> QED
  BY <1>14, <1>15

\* A rollback is handled: later states go, in memory and in Badger.
LEMMA RollbackStates ==
    ASSUME PipelineInv, FormInv, RunInv, NEW s \in OracleStages,
           AtStage(s), IsRollback,
           states' = Tracked!CommitStates(states, OracleWrites(s)),
           dstates' = Tracked!CommitStates(dstates, OracleWrites(s)),
           stage' = IF s = "synthetics" THEN "lending" ELSE "indexer",
           UNCHANGED <<followed, queue, undeleted, unloaded, stranded>>
    PROVE  /\ \A x \in states' : Excepted(x)' \/ OnChain(x)'
           /\ \A d \in dstates' : Excepted(d)' \/ (OnChain(d)' /\ Backed(d)')
<1>0. PICK b, w : b = Newest(followed) /\ w = OracleWrites(s)
  OBVIOUS
<1>1. queue # <<>> /\ stage = s /\ up
  BY DEF AtStage
<1>2. w = [deletes |-> {t \in states : t.address = AddressOf(s)
                                         /\ SlotOf(t.block) > SlotOf(b)},
           saves |-> <<>>]
  BY <1>0, WritesAre
<1> DEFINE D == w.deletes
<1>3. /\ D = {t \in states : t.address = AddressOf(s) /\ SlotOf(t.block) > SlotOf(b)}
      /\ DOMAIN w.saves = {}
  BY <1>2
<1>4. \A x \in states \cup dstates : WellFormed(x) /\ SlotOf(x.block) \in Nat
  BY PointSlots DEF FormInv, WellFormed, Points
<1>5. b \in Points /\ SlotOf(b) \in Nat
  BY <1>0, <1>1, EventOf, PointSlots
<1>6. /\ SpentAt(queue, stage, followed) = SpentOn(followed)
      /\ SpentAt(queue', stage', followed') = SpentOn(followed)
  BY DEF SpentAt, IsRollback, Event
<1>7. ASSUME NEW x, x.address \in {Cdp, Lending}, x.address # AddressOf(s),
             PendingAt(queue, stage, x.address)
      PROVE  PendingAt(queue', stage', x.address)
  BY <1>1, <1>7, AddressAssumption DEF PendingAt, AddressOf, OracleStages
<1>8. ASSUME NEW x, WellFormed(x), OnChain(x), SlotOf(x.block) \in Nat,
             x.address = AddressOf(s) => ~(SlotOf(b) < SlotOf(x.block))
      PROVE  OnChain(x)'
  <2>1. CASE x.address = AddressOf(s)
    BY <1>0, <1>6, <1>8, <2>1 DEF OnChain, OnChainAt
  <2>2. CASE x.address # AddressOf(s)
    <3>1. PendingAt(queue, stage, x.address) => PendingAt(queue', stage', x.address)
      BY <1>7, <1>8, <2>2 DEF WellFormed
    <3> QED
      BY <1>6, <1>8, <3>1 DEF OnChain, OnChainAt
  <2> QED
    BY <2>1, <2>2
<1>9. \A x : Excepted(x) => Excepted(x)'
  BY DEF Excepted
<1>10. ASSUME NEW x \in states' PROVE Excepted(x)' \/ OnChain(x)'
  <2>1. x \in states /\ \A t \in D : Tracked!KeyOf(t) # Tracked!KeyOf(x)
    BY <1>0, <1>3, <1>10, CommitFrom
  <2>2. x.address = AddressOf(s) => ~(SlotOf(b) < SlotOf(x.block))
    BY <1>3, <1>4, <1>5, <2>1
  <2>3. Excepted(x) \/ OnChain(x)
    BY <1>1, <2>1 DEF RunInv
  <2> QED
    BY <1>4, <1>8, <1>9, <2>1, <2>2, <2>3
<1>11. ASSUME NEW d \in dstates' PROVE Excepted(d)' \/ (OnChain(d)' /\ Backed(d)')
  <2>1. d \in dstates /\ \A t \in D : Tracked!KeyOf(t) # Tracked!KeyOf(d)
    BY <1>0, <1>3, <1>11, CommitFrom
  <2>2. Excepted(d) \/ (OnChain(d) /\ Backed(d))
    BY <1>1, <2>1 DEF RunInv
  <2>3. CASE OnChain(d) /\ Backed(d)
    <3>1. PICK y \in states : /\ Tracked!KeyOf(y) = Tracked!KeyOf(d)
                              /\ SlotOf(d.block) <= SlotOf(y.block)
      BY <2>3 DEF Backed
    <3>2. y.address = d.address
      BY <3>1 DEF Tracked!KeyOf
    <3>3. y \in Tracked!CommitStates(states, w)
      <4>1. \A t \in w.deletes : Tracked!KeyOf(t) # Tracked!KeyOf(y)
        BY <2>1, <3>1
      <4> QED
        BY <1>3, <4>1, CommitKeeps
    <3>4. y \notin D
      BY <2>1, <3>1
    <3>5. d.address = AddressOf(s) => ~(SlotOf(b) < SlotOf(d.block))
      BY <1>3, <1>4, <1>5, <2>1, <3>1, <3>2, <3>4
    <3>6. OnChain(d)'
      BY <1>4, <1>8, <2>1, <2>3, <3>5
    <3> QED
      BY <1>0, <3>1, <3>3, <3>6 DEF Backed
  <2> QED
    BY <1>9, <2>2, <2>3
<1> QED
  BY <1>10, <1>11

\* The event of a block says nothing to an oracle.
LEMMA BlockStates ==
    ASSUME PipelineInv, FormInv, RunInv, NEW s \in OracleStages,
           AtStage(s), ~IsTx, ~IsRollback,
           states' = Tracked!CommitStates(states, OracleWrites(s)),
           dstates' = Tracked!CommitStates(dstates, OracleWrites(s)),
           UNCHANGED <<followed, queue, undeleted, unloaded, stranded>>
    PROVE  /\ \A x \in states' : Excepted(x)' \/ OnChain(x)'
           /\ \A d \in dstates' : Excepted(d)' \/ (OnChain(d)' /\ Backed(d)')
<1>1. queue # <<>> /\ up /\ OracleWrites(s) = [deletes |-> {}, saves |-> <<>>]
  BY WritesAre DEF AtStage
<1>2. states' = states /\ dstates' = dstates
  BY <1>1 DEF Tracked!CommitStates
<1>3. SpentAt(queue', stage', followed') = SpentAt(queue, stage, followed)
  BY DEF SpentAt, DoneOf, IsTx, Event
<1>4. \A a : ~PendingAt(queue, stage, a)
  BY DEF PendingAt, IsRollback, Event
<1>5. \A x : OnChain(x) => OnChain(x)'
  BY <1>3, <1>4 DEF OnChain, OnChainAt
<1>6. \A x : /\ Excepted(x) => Excepted(x)'
             /\ Backed(x) => Backed(x)'
  BY <1>2 DEF Excepted, Backed
<1> QED
  BY <1>1, <1>2, <1>5, <1>6 DEF RunInv

\* What is written has the right form.
LEMMA FormKept ==
    ASSUME PipelineInv, FormInv, NEW s \in OracleStages, AtStage(s), NEW S,
           S = states \/ S = dstates, NEW made,
           \/ made = OracleWrites(s)
           \/ made \in Tracked!OneFails(OracleWrites(s))
           \/ made \in Tracked!Interrupted(OracleWrites(s)),
           NEW x \in Tracked!CommitStates(S, made)
    PROVE  WellFormed(x) /\ (x \in S \/ (IsTx /\ x.block = Newest(followed)))
<1>1. \/ x \in S
      \/ \E i \in DOMAIN made.saves : x = made.saves[i]
  BY CommitFrom
<1>2. CASE x \in S
  BY <1>2 DEF FormInv
<1>3. CASE \E i \in DOMAIN made.saves : x = made.saves[i]
  <2>1. PICK D, F : OracleWrites(s) = [deletes |-> D, saves |-> F]
    BY WritesAre DEF IsTx, IsRollback
  <2>2. DOMAIN made.saves \subseteq DOMAIN F /\ \A i \in DOMAIN made.saves : made.saves[i] = F[i]
    <3>1. CASE made = OracleWrites(s)
      BY <2>1, <3>1
    <3>2. CASE made \in Tracked!OneFails(OracleWrites(s))
                 \/ made \in Tracked!Interrupted(OracleWrites(s))
      BY <2>1, <3>2, MadeOf
    <3> QED
      BY <3>1, <3>2
  <2>3. PICK i \in DOMAIN F : x = F[i]
    BY <1>3, <2>2
  <2>4. IsTx
    <3>1. ASSUME ~IsTx PROVE F = <<>>
      BY <2>1, <3>1, WritesAre
    <3> QED
      BY <2>3, <3>1
  <2> DEFINE b == Newest(followed)
  <2>5. PICK n \in 1..Len(TxsOf[b]) :
           b \in Blocks /\ F = Tracked!Produced(TxsOf[b][n], AddressOf(s), b)
    BY <2>1, <2>4, WritesAre
  <2>6. AddressOf(s) \in {Cdp, Lending}
    BY DEF AddressOf
  <2>7. WellFormed(F[i]) /\ F[i].block = b
    <3> HIDE DEF b
    <3>1. SavesOK(F, AddressOf(s), b, n)
      BY <2>5, <2>6, ProducedOf
    <3> QED
      BY <3>1 DEF SavesOK
  <2> QED
    BY <2>3, <2>4, <2>7
<1> QED
  BY <1>1, <1>2, <1>3

-----------------------------------------------------------------------------
(* The oracles: every step                                                 *)

\* An oracle handles an event.
LEMMA HandlerStates ==
    ASSUME PipelineInv, TrackedInv, NEW s \in OracleStages,
           LET next == IF s = "synthetics" THEN "lending" ELSE "indexer"
           IN  OracleHandler(s, next) \/ OracleWriteFails(s, next)
    PROVE  TrackedInv'
<1> DEFINE next == IF s = "synthetics" THEN "lending" ELSE "indexer"
<1>1. PICK made :
        /\ \/ made = OracleWrites(s)
           \/ IsTx /\ made \in Tracked!OneFails(OracleWrites(s))
        /\ dstates' = Tracked!CommitStates(dstates, made)
        /\ undeleted' = undeleted \cup
               {t.utxo : t \in OracleWrites(s).deletes \ made.deletes}
  <2>1. CASE OracleHandler(s, next)
    <3>1. dstates' = Tracked!CommitStates(dstates, OracleWrites(s)) /\ undeleted' = undeleted
      BY <2>1 DEF OracleHandler, pastVars
    <3> QED
      BY <3>1
  <2>2. CASE OracleWriteFails(s, next)
    BY <2>2 DEF OracleWriteFails
  <2> QED
    BY <2>1, <2>2
<1>2. /\ AtStage(s) /\ states' = Tracked!CommitStates(states, OracleWrites(s))
      /\ stage' = next /\ UNCHANGED <<up, followed, queue, unloaded, stranded>> /\ up
  BY DEF OracleHandler, OracleWriteFails, Continue, AtStage, pastVars
<1>3. FormInv'
  <2>1. \A x \in states' : WellFormed(x)
    BY <1>2, FormKept DEF TrackedInv
  <2>2. \A x \in dstates' : WellFormed(x)
    BY <1>1, <1>2, FormKept DEF TrackedInv
  <2> QED
    BY <2>1, <2>2 DEF FormInv, WellFormed
<1>4. RunInv'
  <2> SUFFICES /\ \A x \in states' : Excepted(x)' \/ OnChain(x)'
               /\ \A d \in dstates' : Excepted(d)' \/ (OnChain(d)' /\ Backed(d)')
    BY <1>2 DEF RunInv
  <2>1. FormInv /\ RunInv
    BY DEF TrackedInv
  <2>2. CASE IsTx
    BY <1>1, <1>2, <2>1, <2>2, TxStates
  <2>3. CASE ~IsTx
    <3>1. dstates' = Tracked!CommitStates(dstates, OracleWrites(s)) /\ undeleted' = undeleted
      BY <1>1, <2>3
    <3>2. CASE IsRollback
      BY <1>2, <2>1, <3>1, <3>2, RollbackStates
    <3>3. CASE ~IsRollback
      BY <1>2, <2>1, <2>3, <3>1, <3>3, BlockStates
    <3> QED
      BY <3>2, <3>3
  <2> QED
    BY <2>2, <2>3
<1>5. RestInv'
  BY <1>2 DEF RestInv
<1> QED
  BY <1>3, <1>4, <1>5 DEF TrackedInv

\* The process ends: with a cursor that was reached, what stays in Badger is
\* on the cursor's chain or newer than the cursor.
LEMMA StatesLeft ==
    ASSUME PipelineInv, cursor = Genesis \/ cursor \in Handled,
           NEW x, WellFormed(x),
           \/ OnChain(x)
           \/ queue # <<>> /\ IsTx /\ x.block = Newest(followed)
    PROVE  Durable(x, cursor)
<1> DEFINE b == Newest(followed)
<1>1. /\ IsPath(followed) /\ followed = Path(b) /\ b \in Points /\ SlotOf(b) \in Nat
      /\ cursor = Genesis \/ cursor \in ToSet(followed)
  BY PathOfNewest, NewestOf, PointSlots DEF PipelineInv, Handled, IsPath
<1>2. SlotOf(cursor) \in Nat /\ SlotOf(x.block) \in Nat /\ SlotOf(cursor) <= SlotOf(b)
  <2>1. cursor # Genesis => SlotOf(cursor) <= SlotOf(b)
    BY <1>1, PathNewest
  <2> QED
    BY <1>1, <2>1, PointSlots DEF PipelineInv, WellFormed, Points
<1>3. CASE PendingAt(queue, stage, x.address) /\ SlotOf(b) < SlotOf(x.block)
  BY <1>1, <1>2, <1>3 DEF Durable
<1>4. CASE queue # <<>> /\ ~IsRollback /\ x.block = b
  <2>1. cursor # b
    <3>1. b \in Blocks /\ Event.block = b
      BY <1>4, EventOf
    <3> QED
      BY <1>4, <3>1, TreeAssumption DEF Handled
  <2>2. SlotOf(cursor) < SlotOf(b)
    <3>1. Anc(cursor, b)
      BY <1>1 DEF Anc
    <3> QED
      BY <1>1, <2>1, <3>1, AncSlots
  <2> QED
    BY <1>4, <2>2 DEF Durable
<1>5. CASE /\ x.block \in ToSet(followed)
           /\ x.address = Cdp => x.utxo \notin SpentAt(queue, stage, followed)
  <2>1. CASE SlotOf(cursor) < SlotOf(x.block)
    BY <2>1 DEF Durable
  <2>2. CASE ~(SlotOf(cursor) < SlotOf(x.block))
    <3>1. SlotOf(x.block) <= SlotOf(cursor)
      BY <1>2, <2>2
    <3>2. x.block \in ToSet(Path(cursor)) /\ cursor \in ToSet(followed) /\ cursor \in Blocks
      BY <1>1, <1>5, <3>1, PathOrder
    <3>3. \A y : Anc(y, cursor) => Anc(y, b)
      BY <1>1, <3>2, AncTrans DEF Anc
    <3>4. IsPath(Path(cursor)) /\ Genesis \notin ToSet(Path(cursor))
      <4>1. IsPath(Path(cursor))
        BY PathOf DEF PipelineInv
      <4> QED
        BY <4>1, PathNewest, TreeAssumption
    <3>5. SpentOn(Path(cursor)) \subseteq SpentAt(queue, stage, followed)
      <4>1. CASE queue = <<>> \/ IsRollback
        <5>1. ToSet(Path(cursor)) \subseteq ToSet(followed)
          BY <1>1, <3>3, <3>4 DEF Anc
        <5> QED
          BY <4>1, <5>1, SpentNow, SpentMore
      <4>2. CASE queue # <<>> /\ ~IsRollback
        <5>1. /\ b \in Blocks /\ cursor # b
              /\ SpentOn(Path(Parent[b])) \subseteq SpentAt(queue, stage, followed)
          <6>1. Event.block = b /\ b \in Blocks
            BY <4>2, EventOf
          <6> QED
            BY <3>2, <4>2, <6>1, SpentNow, TreeAssumption DEF Handled
        <5>2. Anc(cursor, Parent[b]) /\ Parent[b] \in Points
          <6>1. Anc(cursor, b)
            BY <1>1, <3>2 DEF Anc
          <6> QED
            BY <5>1, <6>1, AncChild, PointSlots
        <5>3. \A y : Anc(y, cursor) => Anc(y, Parent[b])
          BY <5>2, AncTrans
        <5>4. ToSet(Path(cursor)) \subseteq ToSet(Path(Parent[b]))
          BY <3>4, <5>3 DEF Anc
        <5> QED
          BY <5>1, <5>4, SpentMore
      <4> QED
        BY <4>1, <4>2
    <3> QED
      BY <1>5, <3>2, <3>5 DEF Durable
  <2> QED
    BY <2>1, <2>2
<1>6. queue # <<>> /\ IsTx => ~IsRollback
  BY DEF IsTx, IsRollback
<1> QED
  BY <1>3, <1>4, <1>5, <1>6 DEF OnChain, OnChainAt

\* A crash, or a rollback that fails.
LEMMA EndStates ==
    ASSUME PipelineInv, TrackedInv,
           RollbackFails("synthetics") \/ RollbackFails("lending") \/ Crash
    PROVE  TrackedInv'
<1>1. /\ up /\ ProcessEnds /\ UNCHANGED <<cursor, undeleted, unloaded>>
  BY DEF RollbackFails, Crash, AtStage
<1>2. /\ up' = FALSE /\ states' = {}
      /\ stranded \subseteq stranded'
      /\ \/ cursor = Genesis \/ cursor \in Handled
         \/ \A x \in dstates' : Durable(x, cursor) \/ x \in stranded'
  BY <1>1 DEF ProcessEnds
<1>3. ASSUME NEW x \in dstates'
      PROVE  /\ WellFormed(x)
             /\ x \in dstates \/ (queue # <<>> /\ IsTx /\ x.block = Newest(followed))
  <2>1. CASE dstates' = dstates
    BY <1>3, <2>1 DEF TrackedInv, FormInv
  <2>2. ASSUME NEW s \in OracleStages, AtStage(s), NEW made,
               dstates' = Tracked!CommitStates(dstates, made),
               \/ made \in Tracked!OneFails(OracleWrites(s))
               \/ made \in Tracked!Interrupted(OracleWrites(s))
        PROVE  /\ WellFormed(x)
               /\ x \in dstates \/ (queue # <<>> /\ IsTx /\ x.block = Newest(followed))
    BY <1>3, <2>2, FormKept DEF TrackedInv, AtStage
  <2>3. ASSUME NEW s \in OracleStages, RollbackFails(s)
        PROVE  \E made : /\ AtStage(s) /\ dstates' = Tracked!CommitStates(dstates, made)
                         /\ made \in Tracked!OneFails(OracleWrites(s))
    BY <2>3 DEF RollbackFails
  <2>4. ASSUME Crash
        PROVE  \/ dstates' = dstates
               \/ \E s \in OracleStages : \E made :
                         /\ AtStage(s) /\ dstates' = Tracked!CommitStates(dstates, made)
                         /\ made \in Tracked!Interrupted(OracleWrites(s))
    <3>1. \/ dstates' = dstates
          \/ AtStage("synthetics") /\ CrashInOracle("synthetics")
          \/ AtStage("lending") /\ CrashInOracle("lending")
      BY <2>4 DEF Crash, CrashInStore
    <3> QED
      BY <3>1 DEF CrashInOracle, OracleStages
  <2>5. "synthetics" \in OracleStages /\ "lending" \in OracleStages
    BY DEF OracleStages
  <2>6. CASE RollbackFails("synthetics") \/ RollbackFails("lending")
    BY <2>2, <2>3, <2>5, <2>6
  <2>7. CASE Crash
    BY <2>1, <2>2, <2>4, <2>7
  <2> QED
    BY <2>6, <2>7
<1>4. FormInv'
  BY <1>2, <1>3 DEF FormInv, WellFormed
<1>5. ASSUME NEW x \in dstates' PROVE Excepted(x)' \/ Durable(x, cursor)'
  <2>1. x \in dstates => Excepted(x) \/ OnChain(x)
    BY <1>1, <1>2, <1>5 DEF TrackedInv, RunInv
  <2>2. CASE Excepted(x)
    BY <1>1, <1>2, <2>2 DEF Excepted
  <2>3. CASE ~Excepted(x)
    <3>1. Durable(x, cursor) \/ x \in stranded'
      BY <1>2, <1>3, <1>5, <2>1, <2>3, StatesLeft
    <3> QED
      BY <1>1, <3>1 DEF Durable, Excepted
  <2> QED
    BY <2>2, <2>3
<1> QED
  BY <1>2, <1>4, <1>5 DEF TrackedInv, RunInv, RestInv

\* The next start: what was left is on the chain of the cursor, or goes with
\* the rollback that comes first.
LEMMA StartStates ==
    ASSUME PipelineInv, TrackedInv, NEW loaded \in BOOLEAN, Restart(loaded)
    PROVE  TrackedInv'
<1>1. /\ ~up /\ up' /\ stage' = stage /\ stage = "node" /\ followed' = Path(cursor)
      /\ queue' = <<RollbackTo(cursor)>>
      /\ UNCHANGED <<dstates, undeleted, stranded>>
      /\ unloaded' = (unloaded \/ ~loaded)
      /\ states' = Tracked!LoadAllCdps(dstates)
                   \cup IF loaded THEN Tracked!LoadLending(dstates) ELSE {}
      /\ cursor \in Points
  BY DEF Restart, PipelineInv
<1>2. /\ states' \subseteq dstates
      /\ \A x \in dstates : x.address = Cdp \/ (loaded /\ x.address = Lending) => x \in states'
  BY <1>1 DEF Tracked!LoadAllCdps, Tracked!LoadLending
<1>3. FormInv'
  BY <1>1, <1>2 DEF TrackedInv, FormInv, WellFormed
<1>4. Newest(followed') = cursor
  BY <1>1, PathOf
<1>5. queue' # <<>> /\ Head(queue').type = "rollback"
  BY <1>1 DEF RollbackTo
<1>6. ASSUME NEW x \in dstates PROVE Excepted(x)' \/ OnChain(x)'
  <2>1. Excepted(x) \/ Durable(x, cursor)
    BY <1>1, <1>6 DEF TrackedInv, RestInv
  <2>2. Excepted(x) => Excepted(x)'
    BY <1>1 DEF Excepted
  <2>3. SpentAt(queue', stage', followed') = SpentOn(Path(cursor))
    BY <1>1, <1>5 DEF SpentAt
  <2>4. PendingAt(queue', stage', x.address)
    BY <1>1, <1>5 DEF PendingAt
  <2>5. Durable(x, cursor) => OnChain(x)'
    BY <1>1, <1>4, <2>3, <2>4 DEF Durable, OnChain, OnChainAt
  <2> QED
    BY <2>1, <2>2, <2>5
<1>7. ASSUME NEW x \in dstates PROVE Excepted(x)' \/ Backed(x)'
  <2>1. x.address \in {Cdp, Lending} /\ SlotOf(x.block) \in Nat
    BY PointSlots DEF TrackedInv, FormInv, WellFormed, Points
  <2>2. CASE x \in states'
    BY <2>1, <2>2 DEF Backed
  <2>3. CASE x \notin states'
    <3>1. x.address = Lending /\ ~loaded
      BY <1>2, <2>1, <2>3
    <3> QED
      BY <1>1, <3>1 DEF Excepted
  <2> QED
    BY <2>2, <2>3
<1>8. RunInv'
  BY <1>1, <1>2, <1>6, <1>7 DEF RunInv
<1>9. RestInv'
  BY <1>1 DEF RestInv
<1> QED
  BY <1>3, <1>8, <1>9 DEF TrackedInv

\* Every step keeps the oracles' states in order.
LEMMA TrackedNext ==
    ASSUME PipelineInv, TrackedInv, [Next]_vars
    PROVE  TrackedInv'
<1>1. ASSUME OracleHandler("synthetics", "lending") \/ OracleWriteFails("synthetics", "lending")
      PROVE  TrackedInv'
  BY <1>1, HandlerStates DEF OracleStages
<1>2. ASSUME OracleHandler("lending", "indexer") \/ OracleWriteFails("lending", "indexer")
      PROVE  TrackedInv'
  BY <1>2, HandlerStates DEF OracleStages
<1>3. CASE RollbackFails("synthetics") \/ RollbackFails("lending") \/ Crash
  BY <1>3, EndStates
<1>4. ASSUME NEW loaded \in BOOLEAN, Restart(loaded) PROVE TrackedInv'
  BY <1>4, StartStates
<1>5. CASE \/ UNCHANGED vars
           \/ \E it \in Item : Arrives(it)
           \/ \E b \in Blocks : RollForward(b)
           \/ \E k \in 0..Len(followed) : RollBackward(k)
           \/ UpdateCursor
           \/ NodeHandler \/ SpectrumHandler \/ IndexerHandler
           \/ ServePeers
  BY <1>5, QuietStates
<1> QED
  BY <1>1, <1>2, <1>3, <1>4, <1>5, ArrivesIf DEF Next

\* With every event handled, a lending state or position in memory comes from
\* the followed chain, and a position is unspent, after any reorgs, crashes,
\* restarts and failed writes, except the states that a failed delete left on
\* disk and the ones a process that ended with its cursor past unhandled events
\* left behind.
THEOREM TrackedIsOnChainHolds == Spec => []TrackedIsOnChain
<1>1. Init => PipelineInv /\ TrackedInv
  <2>1. Init => PipelineInv
    BY PeerInvInit
  <2>2. Init => TrackedInv
    BY DEF Init, TrackedInv, FormInv, RunInv, RestInv
  <2> QED
    BY <2>1, <2>2
<1>2. PipelineInv /\ TrackedInv /\ [Next]_vars => (PipelineInv /\ TrackedInv)'
  BY PipelineNext, TrackedNext
<1>3. PipelineInv /\ TrackedInv => TrackedIsOnChain
  <2> SUFFICES ASSUME PipelineInv, TrackedInv, Idle, NEW s \in states
      PROVE  \/ /\ s.block \in ToSet(followed)
                /\ s.address = Cdp => s.utxo \notin SpentOn(followed)
             \/ s.utxo \in undeleted
             \/ s.address = Lending /\ unloaded
             \/ s \in stranded
    BY DEF TrackedIsOnChain
  <2>1. up /\ queue = <<>>
    BY DEF Idle
  <2>2. Excepted(s) \/ OnChain(s)
    BY <2>1 DEF TrackedInv, RunInv
  <2> QED
    BY <2>1, <2>2 DEF Excepted, OnChain, OnChainAt, PendingAt, SpentAt
<1> QED
  BY <1>1, <1>2, <1>3, PTL DEF Spec

-----------------------------------------------------------------------------
(* The UTxO database: one write after the other                            *)

\* Writes are made one by one.
LEMMA CommitAllSteps ==
    ASSUME NEW d, NEW w, NEW n \in Nat
    PROVE  \E f : /\ f[0] = d /\ f[n] = CommitAll(d, w, n)
                  /\ \A i \in 1..n : f[i] = Commit(f[i - 1], w[i])
<1> DEFINE F(f, m) == [i \in 0..m |-> IF i = 0 THEN d ELSE Commit(f[i - 1], w[i])]
           Bad == {m \in Nat : ~\E f : f = F(f, m)}
<1>1. Bad = {}
  <2> SUFFICES ASSUME Bad # {} PROVE FALSE
    OBVIOUS
  <2>1. PICK m \in Bad : \A k \in Bad : ~(k < m)
    <3>1. Bad \in SUBSET Nat
      OBVIOUS
    <3> HIDE DEF Bad
    <3> QED
      BY <3>1, LeastNatural
  <2>2. m # 0
    <3> DEFINE f == [i \in 0..0 |-> d]
    <3>1. f = F(f, 0)
      OBVIOUS
    <3> QED
      BY <2>1, <3>1
  <2>3. m \in Nat /\ m - 1 \in Nat /\ m - 1 < m
    BY <2>1, <2>2
  <2>4. PICK f : f = F(f, m - 1)
    BY <2>1, <2>3
  <2> DEFINE g == [i \in 0..m |-> IF i = m THEN Commit(f[m - 1], w[m]) ELSE f[i]]
  <2>5. ASSUME NEW i \in 0..m PROVE g[i] = F(g, m)[i]
    <3>1. F(g, m)[i] = IF i = 0 THEN d ELSE Commit(g[i - 1], w[i])
      OBVIOUS
    <3>2. \A j \in 0..(m - 1) : g[j] = f[j] /\ f[j] = IF j = 0 THEN d ELSE Commit(f[j - 1], w[j])
      <4>1. \A j \in 0..(m - 1) : j \in 0..m /\ j # m
        BY <2>3
      <4>2. \A j \in 0..(m - 1) : f[j] = IF j = 0 THEN d ELSE Commit(f[j - 1], w[j])
        BY <2>4
      <4> QED
        BY <4>1, <4>2
    <3>3. g[m] = Commit(f[m - 1], w[m]) /\ m - 1 \in 0..(m - 1)
      BY <2>3
    <3> HIDE DEF g, F
    <3>4. CASE i = m
      BY <2>2, <3>1, <3>2, <3>3, <3>4
    <3>5. CASE i # m
      <4>1. i \in 0..(m - 1) /\ (i # 0 => i - 1 \in 0..(m - 1))
        BY <2>3, <3>5
      <4> QED
        BY <3>1, <3>2, <4>1
    <3> QED
      BY <3>4, <3>5
  <2>6. g = F(g, m)
    <3>1. DOMAIN g = 0..m /\ DOMAIN F(g, m) = 0..m
      OBVIOUS
    <3>2. g = [i \in 0..m |-> g[i]] /\ F(g, m) = [i \in 0..m |-> F(g, m)[i]]
      OBVIOUS
    <3> HIDE DEF g, F
    <3> QED
      BY <2>5, <3>1, <3>2
  <2> HIDE DEF g
  <2> QED
    BY <2>1, <2>6
<1>2. PICK h : h = F(h, n)
  BY <1>1
<1> DEFINE f == CHOOSE g : g = F(g, n)
<1>3. f = F(f, n)
  <2> HIDE DEF F
  <2> QED
    BY <1>2
<1>4. CommitAll(d, w, n) = f[n]
  BY DEF CommitAll
<1> HIDE DEF f
<1>5. f[0] = d /\ \A i \in 1..n : f[i] = Commit(f[i - 1], w[i])
  <2>1. \A i \in 0..n : f[i] = IF i = 0 THEN d ELSE Commit(f[i - 1], w[i])
    BY <1>3
  <2>2. 0 \in 0..n /\ \A i \in 1..n : i \in 0..n /\ i # 0
    OBVIOUS
  <2> HIDE DEF F
  <2> QED
    BY <2>1, <2>2
<1> QED
  BY <1>4, <1>5

\* A list without an id.
LEMMA OthersOf ==
    ASSUME NEW S, NEW ids \in Seq(S), NEW u
    PROVE  Others(ids, u) \in Seq(S) /\ ToSet(Others(ids, u)) = ToSet(ids) \ {u}
<1> DEFINE F(f, m) == [i \in 0..m |->
                         IF i = 0 THEN <<>>
                         ELSE IF ids[i] = u THEN f[i - 1] ELSE Append(f[i - 1], ids[i])]
           Good(f, m) == /\ f = F(f, m)
                         /\ f[m] \in Seq(S)
                         /\ ToSet(f[m]) = {ids[j] : j \in 1..m} \ {u}
           Bad == {m \in 0..Len(ids) : ~\E f : Good(f, m)}
           n == Len(ids)
<1>0. n \in Nat /\ DOMAIN ids = 1..n /\ \A i \in 1..n : ids[i] \in S
  BY LenProperties, ElementOfSeq
<1>1. Bad = {}
  <2> SUFFICES ASSUME Bad # {} PROVE FALSE
    OBVIOUS
  <2>1. PICK m \in Bad : \A k \in Bad : ~(k < m)
    <3>1. Bad \in SUBSET Nat
      BY <1>0
    <3> HIDE DEF Bad
    <3> QED
      BY <3>1, LeastNatural
  <2>2. m # 0
    <3> DEFINE f == [i \in 0..0 |-> <<>>]
    <3>1. f = F(f, 0)
      OBVIOUS
    <3>2. f[0] = <<>> /\ <<>> \in Seq(S) /\ ToSet(<<>>) = {}
      BY DEF ToSet
    <3>3. {ids[j] : j \in 1..0} = {}
      OBVIOUS
    <3>4. Good(f, 0)
      <4> HIDE DEF f, F
      <4> QED
        BY <3>1, <3>2, <3>3
    <3> HIDE DEF Good
    <3> QED
      BY <2>1, <3>4
  <2>3. m \in 1..n /\ m - 1 \in 0..n /\ m - 1 < m /\ m \in Nat /\ m - 1 \in Nat
    BY <1>0, <2>1, <2>2
  <2>4. PICK f : Good(f, m - 1)
    <3> HIDE DEF Good
    <3> QED
      BY <2>1, <2>3
  <2> DEFINE e == IF ids[m] = u THEN f[m - 1] ELSE Append(f[m - 1], ids[m])
             g == [i \in 0..m |-> IF i = m THEN e ELSE f[i]]
  <2>5. ASSUME NEW i \in 0..m PROVE g[i] = F(g, m)[i]
    <3>1. F(g, m)[i] = IF i = 0 THEN <<>>
                       ELSE IF ids[i] = u THEN g[i - 1] ELSE Append(g[i - 1], ids[i])
      OBVIOUS
    <3>2. \A j \in 0..(m - 1) :
             /\ g[j] = f[j]
             /\ f[j] = IF j = 0 THEN <<>>
                       ELSE IF ids[j] = u THEN f[j - 1] ELSE Append(f[j - 1], ids[j])
      <4>1. \A j \in 0..(m - 1) : j \in 0..m /\ j # m
        BY <2>3
      <4>2. \A j \in 0..(m - 1) :
               f[j] = IF j = 0 THEN <<>>
                      ELSE IF ids[j] = u THEN f[j - 1] ELSE Append(f[j - 1], ids[j])
        BY <2>4
      <4>3. \A j \in 0..(m - 1) : g[j] = f[j]
        BY <4>1
      <4> QED
        BY <4>2, <4>3
    <3>3. g[m] = e /\ m - 1 \in 0..(m - 1)
      BY <2>3
    <3> HIDE DEF g, F, Good
    <3>4. CASE i = m
      BY <2>2, <3>1, <3>2, <3>3, <3>4
    <3>5. CASE i # m
      <4>1. i \in 0..(m - 1) /\ (i # 0 => i - 1 \in 0..(m - 1))
        BY <2>3, <3>5
      <4> QED
        BY <3>1, <3>2, <4>1
    <3> QED
      BY <3>4, <3>5
  <2>6. g = F(g, m)
    <3>1. g = [i \in 0..m |-> g[i]] /\ F(g, m) = [i \in 0..m |-> F(g, m)[i]]
      OBVIOUS
    <3> HIDE DEF g, F
    <3> QED
      BY <2>5, <3>1
  <2>7. g[m] = e
    BY <2>3
  <2>8. e \in Seq(S) /\ ToSet(e) = {ids[j] : j \in 1..m} \ {u}
    <3>1. f[m - 1] \in Seq(S) /\ ToSet(f[m - 1]) = {ids[j] : j \in 1..(m - 1)} \ {u}
      BY <2>4
    <3>2. 1..m = 1..(m - 1) \cup {m}
      BY <2>3
    <3>3. {ids[j] : j \in 1..m} = {ids[j] : j \in 1..(m - 1)} \cup {ids[m]}
      BY <3>2
    <3>4. PICK t : t = f[m - 1]
      OBVIOUS
    <3>5. Append(t, ids[m]) \in Seq(S) /\ ToSet(Append(t, ids[m])) = ToSet(t) \cup {ids[m]}
      BY <1>0, <2>3, <3>1, <3>4, AppendToSet
    <3> QED
      BY <3>1, <3>3, <3>4, <3>5
  <2>9. Good(g, m)
    <3> HIDE DEF g, F, e
    <3> QED
      BY <2>6, <2>7, <2>8
  <2> HIDE DEF Good, g
  <2> QED
    BY <2>1, <2>9
<1>2. PICK h : Good(h, n)
  <2> HIDE DEF Good
  <2> QED
    BY <1>0, <1>1
<1> DEFINE f == CHOOSE g : g = F(g, n)
<1>3. f = F(f, n) /\ h = F(h, n)
  <2> HIDE DEF F
  <2> QED
    BY <1>2
<1>4. Others(ids, u) = f[n]
  BY DEF Others
<1>5. f = h
  <2> HIDE DEF f
  <2> DEFINE Off == {i \in 0..n : f[i] # h[i]}
  <2>1. Off = {}
    <3> SUFFICES ASSUME Off # {} PROVE FALSE
      OBVIOUS
    <3>1. PICK i \in Off : \A k \in Off : ~(k < i)
      <4>1. Off \in SUBSET Nat
        BY <1>0
      <4> HIDE DEF Off
      <4> QED
        BY <4>1, LeastNatural
    <3>2. /\ f[i] = IF i = 0 THEN <<>>
                    ELSE IF ids[i] = u THEN f[i - 1] ELSE Append(f[i - 1], ids[i])
          /\ h[i] = IF i = 0 THEN <<>>
                    ELSE IF ids[i] = u THEN h[i - 1] ELSE Append(h[i - 1], ids[i])
      BY <1>3, <3>1
    <3>3. i # 0 => i - 1 \in 0..n /\ i - 1 < i
      BY <1>0, <3>1
    <3>4. i # 0 => f[i - 1] = h[i - 1]
      BY <3>1, <3>3
    <3> QED
      BY <3>1, <3>2, <3>4
  <2>2. f = [i \in 0..n |-> f[i]] /\ h = [i \in 0..n |-> h[i]]
    BY <1>3
  <2>3. \A i \in 0..n : f[i] = h[i]
    BY <2>1
  <2> QED
    BY <2>2, <2>3
<1>6. ToSet(ids) = {ids[j] : j \in 1..n}
  BY <1>0 DEF ToSet
<1> HIDE DEF f, F
<1> QED
  BY <1>2, <1>4, <1>5, <1>6

\* An id names one output.
LEMMA OneOutput ==
    ASSUME NEW o \in OutputsIn(Blocks), NEW p \in OutputsIn(Blocks), o.utxo = p.utxo
    PROVE  o = p
<1>1. ASSUME NEW q \in OutputsIn(Blocks)
      PROVE  \E b \in Blocks : q \in OutputsOn(Path(b))
  <2>1. PICK b \in Blocks : \E tx \in Range(TxsOf[b]) : q \in Range(tx.outs)
    BY <1>1 DEF OutputsIn
  <2>2. b \in ToSet(Path(b))
    <3>1. Anc(b, b) /\ b # Genesis
      BY AncSelf, TreeAssumption DEF Points
    <3> QED
      BY <3>1 DEF Anc
  <2>3. PICK tx \in Range(TxsOf[b]) : q \in Range(tx.outs)
    BY <2>1
  <2>4. tx \in TxsOn(Path(b))
    BY <2>2 DEF TxsOn, ToSet, Range
  <2>5. q \in OutputsOn(Path(b))
    BY <2>3, <2>4 DEF OutputsOn, ToSet, Range
  <2> QED
    BY <2>5
<1> QED
  BY <1>1, IdAssumption

\* A write for a transaction that produces outs and spends gone.
WriteOK(w, outs, gone) ==
    \/ w.op = "none"
    \/ /\ w.op = "add"
       /\ \E o \in outs : o.address \in Kept /\ w.key = o.address /\ w.utxo = o.utxo
    \/ w.op = "remove" /\ w.utxo \in gone
    \/ /\ w.op = "asset"
       /\ \E o \in outs : o.address \in Pools /\ w.key = o.nft /\ w.utxo = o.utxo

\* What it makes of the database d.
Effect(e, d, w) ==
    /\ w.op = "none" => e = d
    /\ w.op = "add" => /\ DOMAIN e.address = DOMAIN d.address \cup {w.utxo}
                       /\ e.asset = d.asset
    /\ w.op = "remove" => /\ DOMAIN e.address = DOMAIN d.address \ {w.utxo}
                          /\ e.asset = d.asset
    /\ w.op = "asset" => /\ DOMAIN e.address = DOMAIN d.address
                         /\ e.asset = With(d.asset, w.key, w.utxo)

\* A write keeps the form of the database.
LEMMA CommitOne ==
    ASSUME NEW blocks, blocks \subseteq Blocks, NEW d, StoreForm(d, blocks),
           NEW outs, outs \subseteq OutputsIn(blocks), NEW gone,
           NEW w, WriteOK(w, outs, gone), NEW e, e = Commit(d, w)
    PROVE  StoreForm(e, blocks) /\ Effect(e, d, w)
<1> DEFINE A == d.address
           L == d.list
           u == w.utxo
<1>1. /\ d = [address |-> A, list |-> L, asset |-> d.asset]
      /\ \A v \in DOMAIN A : \E o \in OutputsIn(blocks) :
            o.utxo = v /\ o.address = A[v] /\ o.address \in Kept
      /\ \A a \in DOMAIN L : L[a] \in Seq(Ids)
      /\ \A a \in Kept : ToSet(ListOf(d, a)) = {v \in DOMAIN A : A[v] = a}
  BY DEF StoreForm
<1>2. OutputsIn(blocks) \subseteq OutputsIn(Blocks)
  BY DEF OutputsIn
<1>3. \A a : ListOf(d, a) \in Seq(Ids)
  <2>1. <<>> \in Seq(Ids)
    OBVIOUS
  <2> QED
    BY <1>1, <2>1 DEF ListOf
<1>4. ASSUME w.op = "none" PROVE e = d
  BY <1>4 DEF Commit
<1>5. ASSUME w.op = "asset"
      PROVE  /\ e = [address |-> A, list |-> L, asset |-> With(d.asset, w.key, w.utxo)]
             /\ StoreForm(e, blocks)
  <2>1. e = UpdateAssetUtxo(d, w.key, w.utxo)
    BY <1>5 DEF Commit
  <2>2. e = [address |-> A, list |-> L, asset |-> With(d.asset, w.key, w.utxo)]
    BY <1>1, <2>1 DEF UpdateAssetUtxo
  <2> HIDE DEF A, L
  <2>3. e.address = A /\ e.list = L /\ e = [address |-> e.address, list |-> e.list, asset |-> e.asset]
    BY <2>2
  <2>4. \A a : ListOf(e, a) = ListOf(d, a)
    BY <2>3 DEF ListOf, L
  <2> QED
    BY <1>1, <2>2, <2>3, <2>4 DEF StoreForm
<1>6. ASSUME w.op = "add"
      PROVE  /\ DOMAIN e.address = DOMAIN A \cup {u} /\ e.asset = d.asset
             /\ StoreForm(e, blocks)
  <2> DEFINE a == w.key
             M == With(L, a, Append(ListOf(d, a), u))
             B == With(A, u, a)
  <2>1. PICK o \in outs : o.address \in Kept /\ a = o.address /\ u = o.utxo
    BY <1>6 DEF WriteOK
  <2>2. e = [address |-> B, list |-> M, asset |-> d.asset]
    <3>1. e = AddUtxo(d, a, u)
      BY <1>6 DEF Commit
    <3> QED
      BY <1>1, <3>1 DEF AddUtxo
  <2>3. /\ DOMAIN B = DOMAIN A \cup {u} /\ B[u] = a
        /\ \A x \in DOMAIN A : x # u => B[x] = A[x]
    <3> HIDE DEF A, a, u
    <3> QED
      BY DEF With
  <2>4. /\ DOMAIN M = DOMAIN L \cup {a} /\ M[a] = Append(ListOf(d, a), u)
        /\ \A x \in DOMAIN L : x # a => M[x] = L[x]
    <3> HIDE DEF L, a, u
    <3> QED
      BY DEF With
  <2>5. o \in OutputsIn(blocks) /\ o \in OutputsIn(Blocks) /\ u \in Ids
    BY <1>2, <2>1 DEF Ids
  <2>6. u \in DOMAIN A => A[u] = a
    <3>1. ASSUME u \in DOMAIN A PROVE A[u] = a
      <4>1. PICK p \in OutputsIn(blocks) : p.utxo = u /\ p.address = A[u]
        BY <1>1, <3>1
      <4>2. p = o
        BY <1>2, <2>1, <2>5, <4>1, OneOutput
      <4> QED
        BY <2>1, <4>1, <4>2
    <3> QED
      BY <3>1
  <2>7. /\ Append(ListOf(d, a), u) \in Seq(Ids)
        /\ ToSet(Append(ListOf(d, a), u)) = ToSet(ListOf(d, a)) \cup {u}
    BY <1>3, <2>5, AppendToSet
  <2> HIDE DEF A, L, B, M, a, u
  <2>8. /\ e.address = B /\ e.list = M /\ e.asset = d.asset
        /\ e = [address |-> e.address, list |-> e.list, asset |-> e.asset]
    BY <2>2
  <2>9. ASSUME NEW v \in DOMAIN B
        PROVE  \E p \in OutputsIn(blocks) :
                  p.utxo = v /\ p.address = B[v] /\ p.address \in Kept
    <3>1. CASE v = u
      BY <2>1, <2>3, <2>5, <3>1
    <3>2. CASE v # u
      BY <1>1, <2>3, <3>2
    <3> QED
      BY <3>1, <3>2
  <2>10. \A x \in DOMAIN M : M[x] \in Seq(Ids)
    BY <1>1, <2>4, <2>7
  <2>11. ASSUME NEW x \in Kept PROVE ToSet(ListOf(e, x)) = {v \in DOMAIN B : B[v] = x}
    <3>1. CASE x = a
      <4>1. ListOf(e, x) = Append(ListOf(d, a), u)
        BY <2>4, <2>8, <3>1 DEF ListOf
      <4>2. ToSet(ListOf(d, a)) = {v \in DOMAIN A : A[v] = a}
        BY <1>1, <3>1
      <4>3. {v \in DOMAIN B : B[v] = a} = {v \in DOMAIN A : A[v] = a} \cup {u}
        BY <2>3, <2>6
      <4> QED
        BY <2>7, <3>1, <4>1, <4>2, <4>3
    <3>2. CASE x # a
      <4>1. ListOf(e, x) = ListOf(d, x)
        BY <2>4, <2>8, <3>2 DEF ListOf, L
      <4>2. {v \in DOMAIN B : B[v] = x} = {v \in DOMAIN A : A[v] = x}
        BY <2>3, <2>6, <3>2
      <4> QED
        BY <1>1, <4>1, <4>2
    <3> QED
      BY <3>1, <3>2
  <2> QED
    BY <2>3, <2>8, <2>9, <2>10, <2>11 DEF StoreForm
<1>7. ASSUME w.op = "remove"
      PROVE  /\ DOMAIN e.address = DOMAIN A \ {u} /\ e.asset = d.asset
             /\ StoreForm(e, blocks)
  <2>1. e = RemoveUtxo(d, u)
    BY <1>7 DEF Commit
  <2>2. CASE u \notin DOMAIN A
    BY <2>1, <2>2 DEF RemoveUtxo
  <2>3. CASE u \in DOMAIN A
    <3> DEFINE a == A[u]
               M == With(L, a, Others(ListOf(d, a), u))
               B == [x \in DOMAIN A \ {u} |-> A[x]]
    <3>1. e = [address |-> B, list |-> M, asset |-> d.asset]
      BY <1>1, <2>1, <2>3 DEF RemoveUtxo, Restrict
    <3>2. DOMAIN B = DOMAIN A \ {u} /\ \A x \in DOMAIN B : B[x] = A[x]
      OBVIOUS
    <3>3. /\ DOMAIN M = DOMAIN L \cup {a} /\ M[a] = Others(ListOf(d, a), u)
          /\ \A x \in DOMAIN L : x # a => M[x] = L[x]
      <4> HIDE DEF L, a, u
      <4> QED
        BY DEF With
    <3>4. /\ Others(ListOf(d, a), u) \in Seq(Ids)
          /\ ToSet(Others(ListOf(d, a), u)) = ToSet(ListOf(d, a)) \ {u}
      BY <1>3, OthersOf
    <3>5. A[u] = a
      OBVIOUS
    <3> HIDE DEF A, L, B, M, a, u
    <3>6. /\ e.address = B /\ e.list = M /\ e.asset = d.asset
          /\ e = [address |-> e.address, list |-> e.list, asset |-> e.asset]
      BY <3>1
    <3>7. \A v \in DOMAIN B : \E p \in OutputsIn(blocks) :
                  p.utxo = v /\ p.address = B[v] /\ p.address \in Kept
      BY <1>1, <3>2
    <3>8. \A x \in DOMAIN M : M[x] \in Seq(Ids)
      BY <1>1, <3>3, <3>4
    <3>9. ASSUME NEW x \in Kept PROVE ToSet(ListOf(e, x)) = {v \in DOMAIN B : B[v] = x}
      <4>1. CASE x = a
        <5>1. ListOf(e, x) = Others(ListOf(d, a), u)
          BY <3>3, <3>6, <4>1 DEF ListOf
        <5>2. ToSet(ListOf(d, a)) = {v \in DOMAIN A : A[v] = a}
          BY <1>1, <4>1
        <5>3. {v \in DOMAIN B : B[v] = a} = {v \in DOMAIN A : A[v] = a} \ {u}
          BY <3>2
        <5> QED
          BY <3>4, <4>1, <5>1, <5>2, <5>3
      <4>2. CASE x # a
        <5>1. ListOf(e, x) = ListOf(d, x)
          BY <3>3, <3>6, <4>2 DEF ListOf, L
        <5>2. {v \in DOMAIN B : B[v] = x} = {v \in DOMAIN A : A[v] = x}
          BY <2>3, <3>2, <3>5, <4>2
        <5> QED
          BY <1>1, <5>1, <5>2
      <4> QED
        BY <4>1, <4>2
    <3> QED
      BY <3>2, <3>6, <3>7, <3>8, <3>9 DEF StoreForm
  <2> QED
    BY <2>2, <2>3
<1>8. ASSUME w.op = "asset"
      PROVE  DOMAIN e.address = DOMAIN A /\ e.asset = With(d.asset, w.key, w.utxo)
  <2> HIDE DEF A, L
  <2> QED
    BY <1>5, <1>8
<1> QED
  BY <1>4, <1>5, <1>6, <1>7, <1>8 DEF WriteOK, Effect

\* What the first m of some writes w to d made of it.
Committed(e, d, w, m, blocks, outs, gone) ==
    /\ StoreForm(e, blocks)
    /\ \A u \in DOMAIN e.address : u \in DOMAIN d.address \/ \E o \in outs : o.utxo = u
    /\ DOMAIN d.address \ gone \subseteq DOMAIN e.address
    /\ \A i \in 1..m :
          /\ w[i].op = "add" => w[i].utxo \in DOMAIN e.address
          /\ w[i].op = "remove" => w[i].utxo \notin DOMAIN e.address
          /\ w[i].op = "asset" =>
               w[i].key \in DOMAIN e.asset /\ e.asset[w[i].key] = w[i].utxo
    /\ \A k \in DOMAIN d.asset :
          /\ k \in DOMAIN e.asset
          /\ \/ e.asset[k] = d.asset[k]
             \/ \E o \in outs : o.address \in Pools /\ o.nft = k /\ e.asset[k] = o.utxo
    /\ (\A i \in 1..m : w[i].op # "asset") => e.asset = d.asset

\* The writes of a transaction, all or only some of them.
LEMMA CommitMany ==
    ASSUME NEW blocks, blocks \subseteq Blocks, NEW d, StoreForm(d, blocks),
           NEW outs, outs \subseteq OutputsIn(blocks), NEW gone,
           \A o \in outs : o.utxo \notin gone,
           \A o, p \in outs : o.address \in Pools /\ p.address \in Pools /\ o.nft = p.nft
                                => o = p,
           NEW w, NEW n \in Nat, \A i \in 1..n : WriteOK(w[i], outs, gone)
    PROVE  Committed(CommitAll(d, w, n), d, w, n, blocks, outs, gone)
<1>1. PICK f : /\ f[0] = d /\ f[n] = CommitAll(d, w, n)
               /\ \A i \in 1..n : f[i] = Commit(f[i - 1], w[i])
  BY CommitAllSteps
<1> DEFINE Good(m) == Committed(f[m], d, w, m, blocks, outs, gone)
           Bad == {m \in 0..n : ~Good(m)}
<1>2. Good(0)
  <2>1. f[0] = d /\ 1..0 = {}
    BY <1>1
  <2> QED
    BY <2>1 DEF Committed
<1>3. ASSUME NEW m \in 1..n, Good(m - 1) PROVE Good(m)
  <2> DEFINE x == f[m - 1]
             e == f[m]
             v == w[m]
  <2>1. e = Commit(x, v) /\ WriteOK(v, outs, gone)
    BY <1>1
  <2>2. Committed(x, d, w, m - 1, blocks, outs, gone)
    BY <1>3
  <2>3. /\ StoreForm(x, blocks)
        /\ \A u \in DOMAIN x.address : u \in DOMAIN d.address \/ \E o \in outs : o.utxo = u
        /\ DOMAIN d.address \ gone \subseteq DOMAIN x.address
        /\ \A i \in 1..(m - 1) :
              /\ w[i].op = "add" => w[i].utxo \in DOMAIN x.address
              /\ w[i].op = "remove" => w[i].utxo \notin DOMAIN x.address
              /\ w[i].op = "asset" =>
                   w[i].key \in DOMAIN x.asset /\ x.asset[w[i].key] = w[i].utxo
        /\ \A k \in DOMAIN d.asset :
              /\ k \in DOMAIN x.asset
              /\ \/ x.asset[k] = d.asset[k]
                 \/ \E o \in outs : o.address \in Pools /\ o.nft = k /\ x.asset[k] = o.utxo
        /\ (\A i \in 1..(m - 1) : w[i].op # "asset") => x.asset = d.asset
    BY <2>2 DEF Committed
  <2> HIDE DEF x, e
  <2>4. /\ StoreForm(e, blocks)
        /\ v.op = "none" => e = x
        /\ v.op = "add" => /\ DOMAIN e.address = DOMAIN x.address \cup {v.utxo}
                           /\ e.asset = x.asset
        /\ v.op = "remove" => /\ DOMAIN e.address = DOMAIN x.address \ {v.utxo}
                              /\ e.asset = x.asset
        /\ v.op = "asset" => /\ DOMAIN e.address = DOMAIN x.address
                             /\ e.asset = With(x.asset, v.key, v.utxo)
    <3>1. StoreForm(x, blocks)
      BY <2>3
    <3> HIDE DEF v
    <3>2. StoreForm(e, blocks) /\ Effect(e, x, v)
      BY <2>1, <3>1, CommitOne
    <3> QED
      BY <3>2 DEF Effect
  <2>5. \A i \in 1..m : i = m \/ i \in 1..(m - 1)
    OBVIOUS
  <2>6. \A i \in 1..m : WriteOK(w[i], outs, gone)
    <3>1. \A i \in 1..m : i \in 1..n
      OBVIOUS
    <3> QED
      BY <3>1
  <2>7. CASE v.op = "none"
    <3>1. e = x
      BY <2>4, <2>7
    <3>2. \A i \in 1..m :
              /\ w[i].op = "add" => w[i].utxo \in DOMAIN e.address
              /\ w[i].op = "remove" => w[i].utxo \notin DOMAIN e.address
              /\ w[i].op = "asset" =>
                   w[i].key \in DOMAIN e.asset /\ e.asset[w[i].key] = w[i].utxo
      BY <2>3, <2>5, <2>7, <3>1
    <3>3. (\A i \in 1..m : w[i].op # "asset") => e.asset = d.asset
      BY <2>3, <3>1
    <3> QED
      BY <2>3, <3>1, <3>2, <3>3 DEF Committed, e
  <2>8. CASE v.op = "add"
    <3>1. PICK o \in outs : v.utxo = o.utxo /\ o.utxo \notin gone
      BY <2>1, <2>8 DEF WriteOK
    <3>2. DOMAIN e.address = DOMAIN x.address \cup {v.utxo} /\ e.asset = x.asset
      BY <2>4, <2>8
    <3>3. \A i \in 1..m : w[i].op = "remove" => w[i].utxo \in gone
      BY <2>6 DEF WriteOK
    <3>4. \A i \in 1..m :
              /\ w[i].op = "add" => w[i].utxo \in DOMAIN e.address
              /\ w[i].op = "remove" => w[i].utxo \notin DOMAIN e.address
              /\ w[i].op = "asset" =>
                   w[i].key \in DOMAIN e.asset /\ e.asset[w[i].key] = w[i].utxo
      BY <2>3, <2>5, <2>8, <3>1, <3>2, <3>3
    <3>5. (\A i \in 1..m : w[i].op # "asset") => e.asset = d.asset
      BY <2>3, <3>2
    <3>6. \A u \in DOMAIN e.address : u \in DOMAIN d.address \/ \E p \in outs : p.utxo = u
      BY <2>3, <3>1, <3>2
    <3> QED
      BY <2>3, <2>4, <3>2, <3>4, <3>5, <3>6 DEF Committed, e
  <2>9. CASE v.op = "remove"
    <3>1. v.utxo \in gone
      BY <2>1, <2>9 DEF WriteOK
    <3>2. DOMAIN e.address = DOMAIN x.address \ {v.utxo} /\ e.asset = x.asset
      BY <2>4, <2>9
    <3>3. \A i \in 1..m : w[i].op = "add" => w[i].utxo \notin gone
      BY <2>6 DEF WriteOK
    <3>4. \A i \in 1..m :
              /\ w[i].op = "add" => w[i].utxo \in DOMAIN e.address
              /\ w[i].op = "remove" => w[i].utxo \notin DOMAIN e.address
              /\ w[i].op = "asset" =>
                   w[i].key \in DOMAIN e.asset /\ e.asset[w[i].key] = w[i].utxo
      BY <2>3, <2>5, <2>9, <3>1, <3>2, <3>3
    <3>5. (\A i \in 1..m : w[i].op # "asset") => e.asset = d.asset
      BY <2>3, <3>2
    <3> QED
      BY <2>3, <2>4, <3>1, <3>2, <3>4, <3>5 DEF Committed, e
  <2>10. CASE v.op = "asset"
    <3>1. PICK o \in outs : o.address \in Pools /\ v.key = o.nft /\ v.utxo = o.utxo
      BY <2>1, <2>10 DEF WriteOK
    <3>2. /\ DOMAIN e.address = DOMAIN x.address
          /\ DOMAIN e.asset = DOMAIN x.asset \cup {v.key} /\ e.asset[v.key] = v.utxo
          /\ \A k \in DOMAIN x.asset : k # v.key => e.asset[k] = x.asset[k]
      BY <2>4, <2>10 DEF With
    <3>3. ASSUME NEW i \in 1..m, w[i].op = "asset"
          PROVE  w[i].key \in DOMAIN e.asset /\ e.asset[w[i].key] = w[i].utxo
      <4>1. PICK p \in outs : p.address \in Pools /\ w[i].key = p.nft /\ w[i].utxo = p.utxo
        BY <2>6, <3>3 DEF WriteOK
      <4>2. w[i].key = v.key => w[i].utxo = v.utxo
        BY <3>1, <4>1
      <4> QED
        BY <2>3, <2>5, <3>2, <3>3, <4>2
    <3>4. \A i \in 1..m :
              /\ w[i].op = "add" => w[i].utxo \in DOMAIN e.address
              /\ w[i].op = "remove" => w[i].utxo \notin DOMAIN e.address
      BY <2>3, <2>5, <2>10, <3>2
    <3>5. ~(\A i \in 1..m : w[i].op # "asset")
      BY <2>10
    <3>6. ASSUME NEW k \in DOMAIN d.asset
          PROVE  /\ k \in DOMAIN e.asset
                 /\ \/ e.asset[k] = d.asset[k]
                    \/ \E p \in outs : p.address \in Pools /\ p.nft = k /\ e.asset[k] = p.utxo
      BY <2>3, <3>1, <3>2
    <3> HIDE DEF v
    <3> QED
      BY <2>3, <2>4, <3>2, <3>3, <3>4, <3>5, <3>6 DEF Committed, e
  <2> QED
    BY <2>1, <2>7, <2>8, <2>9, <2>10 DEF WriteOK
<1>4. Bad = {}
  <2> SUFFICES ASSUME Bad # {} PROVE FALSE
    OBVIOUS
  <2>1. PICK m \in Bad : \A k \in Bad : ~(k < m)
    <3>1. Bad \in SUBSET Nat
      OBVIOUS
    <3> HIDE DEF Bad
    <3> QED
      BY <3>1, LeastNatural
  <2> HIDE DEF Good
  <2>2. m # 0 /\ m \in 0..n /\ ~Good(m)
    BY <1>2, <2>1
  <2>3. m \in 1..n /\ m - 1 \in 0..n /\ m - 1 < m
    BY <2>2
  <2>4. Good(m - 1)
    BY <2>1, <2>3
  <2> QED
    BY <1>3, <2>2, <2>3, <2>4
<1>5. Good(n)
  <2> HIDE DEF Good
  <2>1. n \in 0..n
    OBVIOUS
  <2> QED
    BY <1>4, <2>1
<1> QED
  BY <1>1, <1>5

\* An operation on an id is among the writes w.
Made(w, op, u) == \E i \in 1..Len(w) : w[i].op = op /\ w[i].utxo = u

\* Spectrum's writes for a transaction: every output of a pool is stored and
\* indexed.
LEMMA SpectrumWritesOf ==
    ASSUME NEW tx, tx.outs \in Seq(Range(tx.outs)), NEW w, w = SpectrumWrites(tx)
    PROVE  /\ Len(w) \in Nat
           /\ \A i \in 1..Len(w) : WriteOK(w[i], Range(tx.outs), {})
           /\ \A o \in Range(tx.outs) : o.address \in Pools =>
                 /\ Made(w, "add", o.utxo)
                 /\ \E i \in 1..Len(w) :
                       w[i].op = "asset" /\ w[i].key = o.nft /\ w[i].utxo = o.utxo
<1> DEFINE n == Len(tx.outs)
           v(k) == LET o == tx.outs[(k + 1) \div 2]
                   IN  IF o.address \notin Pools THEN NoWrite
                       ELSE IF k % 2 = 1 THEN Write("add", o.address, o.utxo)
                       ELSE Write("asset", o.nft, o.utxo)
           W == {v(k) : k \in 1..(2 * n)}
<1>1. n \in Nat /\ 2 * n \in Nat /\ DOMAIN tx.outs = 1..n
  BY LenProperties
<1>2. w = [k \in 1..(2 * n) |-> v(k)]
  BY DEF SpectrumWrites
<1>3. Len(w) = 2 * n
  <2>1. \A k \in 1..(2 * n) : v(k) \in W
    OBVIOUS
  <2>2. DOMAIN w = 1..(2 * n)
    BY <1>2
  <2> HIDE DEF v, W, n
  <2>3. w \in Seq(W)
    BY <1>1, <1>2, <2>1, IsASeq
  <2> QED
    BY <1>1, <2>2, <2>3, LenProperties
<1>4. \A k \in 1..(2 * n) : w[k] = v(k)
  BY <1>2
<1>5. ASSUME NEW k \in 1..(2 * n) PROVE WriteOK(w[k], Range(tx.outs), {})
  <2>1. (k + 1) \div 2 \in 1..n
    BY <1>1
  <2>2. PICK o \in Range(tx.outs) : o = tx.outs[(k + 1) \div 2]
    BY <1>1, <2>1 DEF Range
  <2>3. w[k] = IF o.address \notin Pools THEN NoWrite
               ELSE IF k % 2 = 1 THEN Write("add", o.address, o.utxo)
               ELSE Write("asset", o.nft, o.utxo)
    BY <1>4, <2>2
  <2> HIDE DEF n
  <2> QED
    BY <2>3 DEF WriteOK, NoWrite, Write, Kept
<1>6. ASSUME NEW o \in Range(tx.outs), o.address \in Pools
      PROVE  /\ Made(w, "add", o.utxo)
             /\ \E i \in 1..Len(w) :
                    w[i].op = "asset" /\ w[i].key = o.nft /\ w[i].utxo = o.utxo
  <2>1. PICK j \in 1..n : o = tx.outs[j]
    BY <1>1 DEF Range
  <2>2. /\ 2 * j - 1 \in 1..(2 * n) /\ (2 * j - 1 + 1) \div 2 = j /\ (2 * j - 1) % 2 = 1
        /\ 2 * j \in 1..(2 * n) /\ (2 * j + 1) \div 2 = j /\ (2 * j) % 2 # 1
    BY <1>1
  <2>3. v(2 * j - 1) = Write("add", o.address, o.utxo)
    BY <1>6, <2>1, <2>2
  <2>4. v(2 * j) = Write("asset", o.nft, o.utxo)
    BY <1>6, <2>1, <2>2
  <2>5. w[2 * j - 1] = Write("add", o.address, o.utxo) /\ w[2 * j] = Write("asset", o.nft, o.utxo)
    <3> HIDE DEF v
    <3> QED
      BY <1>4, <2>2, <2>3, <2>4
  <2>6. /\ w[2 * j - 1].op = "add" /\ w[2 * j - 1].utxo = o.utxo
        /\ w[2 * j].op = "asset" /\ w[2 * j].key = o.nft /\ w[2 * j].utxo = o.utxo
    BY <2>5 DEF Write
  <2>7. 2 * j - 1 \in 1..Len(w) /\ 2 * j \in 1..Len(w)
    BY <1>3, <2>2
  <2>8. PICK k, l : k = 2 * j - 1 /\ l = 2 * j
    OBVIOUS
  <2> QED
    BY <2>6, <2>7, <2>8 DEF Made
<1> QED
  BY <1>1, <1>3, <1>5, <1>6

\* The indexer's: every input is removed, every output of the wallet stored.
LEMMA IndexerWritesOf ==
    ASSUME NEW tx, tx.outs \in Seq(Range(tx.outs)), tx.ins \in Seq(Range(tx.ins)),
           NEW w, w = IndexerWrites(tx)
    PROVE  /\ Len(w) \in Nat
           /\ \A i \in 1..Len(w) :
                 WriteOK(w[i], Range(tx.outs), Range(tx.ins)) /\ w[i].op # "asset"
           /\ \A u \in Range(tx.ins) : Made(w, "remove", u)
           /\ \A o \in Range(tx.outs) : o.address = Wallet => Made(w, "add", o.utxo)
<1> DEFINE m == Len(tx.ins)
           n == Len(tx.outs)
           r(i) == Write("remove", Wallet, tx.ins[i])
           a(i) == IF tx.outs[i].address = Wallet
                   THEN Write("add", Wallet, tx.outs[i].utxo) ELSE NoWrite
           R == [i \in 1..m |-> r(i)]
           A == [i \in 1..n |-> a(i)]
           W == {r(i) : i \in 1..m} \cup {a(i) : i \in 1..n}
<1>1. n \in Nat /\ DOMAIN tx.outs = 1..n /\ m \in Nat /\ DOMAIN tx.ins = 1..m
  BY LenProperties
<1>2. w = R \o A
  BY DEF IndexerWrites
<1>3. /\ \A i \in 1..m : R[i] = r(i) /\ r(i) \in W
      /\ \A i \in 1..n : A[i] = a(i) /\ a(i) \in W
      /\ DOMAIN R = 1..m /\ DOMAIN A = 1..n
  OBVIOUS
<1>4. R \in Seq(W) /\ Len(R) = m /\ A \in Seq(W) /\ Len(A) = n
  <2> HIDE DEF r, a, W, m, n
  <2>1. R \in Seq(W) /\ A \in Seq(W)
    BY <1>1, <1>3, IsASeq
  <2> QED
    BY <1>1, <1>3, <2>1, LenProperties
<1>5. \A i \in 1..n : a(i) = IF tx.outs[i].address = Wallet
                             THEN Write("add", Wallet, tx.outs[i].utxo) ELSE NoWrite
  OBVIOUS
<1>6. \A i \in 1..m : r(i) = Write("remove", Wallet, tx.ins[i])
  OBVIOUS
<1> HIDE DEF r, a, W, m, n, R, A
<1>7. /\ Len(w) = m + n
      /\ \A i \in 1..(m + n) : w[i] = IF i <= m THEN r(i) ELSE a(i - m)
  <2>1. /\ Len(R \o A) = Len(R) + Len(A)
        /\ \A i \in 1..(Len(R) + Len(A)) :
              (R \o A)[i] = IF i <= Len(R) THEN R[i] ELSE A[i - Len(R)]
    BY <1>4, ConcatProperties
  <2>2. \A i \in 1..(m + n) : /\ i <= m => i \in 1..m
                              /\ ~(i <= m) => i - m \in 1..n
    BY <1>1
  <2> QED
    BY <1>2, <1>3, <1>4, <2>1, <2>2
<1>8. ASSUME NEW i \in 1..(m + n)
      PROVE  WriteOK(w[i], Range(tx.outs), Range(tx.ins)) /\ w[i].op # "asset"
  <2>1. CASE i <= m
    <3>1. i \in 1..m
      BY <1>1, <2>1
    <3>2. tx.ins[i] \in Range(tx.ins)
      BY <1>1, <3>1 DEF Range
    <3>3. w[i] = Write("remove", Wallet, tx.ins[i])
      BY <1>6, <1>7, <2>1, <3>1
    <3> QED
      BY <3>2, <3>3 DEF WriteOK, Write
  <2>2. CASE ~(i <= m)
    <3>1. i - m \in 1..n
      BY <1>1, <2>2
    <3>2. PICK o \in Range(tx.outs) : o = tx.outs[i - m]
      BY <1>1, <3>1 DEF Range
    <3>3. w[i] = IF o.address = Wallet THEN Write("add", Wallet, o.utxo) ELSE NoWrite
      BY <1>5, <1>7, <2>2, <3>1, <3>2
    <3> QED
      BY <3>3 DEF WriteOK, Write, NoWrite, Kept
  <2> QED
    BY <2>1, <2>2
<1>9. ASSUME NEW u \in Range(tx.ins)
      PROVE  Made(w, "remove", u)
  <2>1. PICK i \in 1..m : u = tx.ins[i]
    BY <1>1 DEF Range
  <2>2. i \in 1..(m + n) /\ i <= m
    BY <1>1
  <2>3. w[i] = Write("remove", Wallet, u)
    BY <1>6, <1>7, <2>1, <2>2
  <2> QED
    BY <1>7, <2>2, <2>3 DEF Write, Made
<1>10. ASSUME NEW o \in Range(tx.outs), o.address = Wallet
       PROVE  Made(w, "add", o.utxo)
  <2>1. PICK i \in 1..n : o = tx.outs[i]
    BY <1>1 DEF Range
  <2>2. m + i \in 1..(m + n) /\ ~(m + i <= m) /\ (m + i) - m = i
    BY <1>1
  <2>3. w[m + i] = Write("add", Wallet, o.utxo)
    BY <1>5, <1>7, <1>10, <2>1, <2>2
  <2> QED
    BY <1>7, <2>2, <2>3 DEF Write, Made
<1> QED
  BY <1>1, <1>7, <1>8, <1>9, <1>10

-----------------------------------------------------------------------------
(* The UTxO database: what has been produced                               *)

\* What a longer chain produces.
LEMMA OutputsMore ==
    ASSUME NEW c, NEW d, ToSet(c) \subseteq ToSet(d)
    PROVE  OutputsOn(c) \subseteq OutputsOn(d)
<1>1. TxsOn(c) \subseteq TxsOn(d)
  BY DEF TxsOn
<1> QED
  BY <1>1 DEF OutputsOn

\* Transaction by transaction.
LEMMA OutputsSteps ==
    ASSUME NEW b \in Blocks
    PROVE  /\ OutputsTo(b, 0) = OutputsOn(Path(Parent[b]))
           /\ OutputsTo(b, Len(TxsOf[b])) = OutputsOn(Path(b))
           /\ \A n \in 1..Len(TxsOf[b]) :
                 OutputsTo(b, n) = OutputsTo(b, n - 1) \cup Range(TxsOf[b][n].outs)
<1>1. Len(TxsOf[b]) \in Nat /\ ToSet(TxsOf[b]) = {TxsOf[b][j] : j \in 1..Len(TxsOf[b])}
  BY TxOf
<1>2. OutputsTo(b, 0) = OutputsOn(Path(Parent[b]))
  BY DEF OutputsTo
<1>3. OutputsTo(b, Len(TxsOf[b])) = OutputsOn(Path(b))
  <2>1. ToSet(Path(b)) = ToSet(Path(Parent[b])) \cup {b}
    BY PathSet
  <2>2. TxsOn(Path(b)) = TxsOn(Path(Parent[b])) \cup ToSet(TxsOf[b])
    BY <2>1 DEF TxsOn
  <2>3. OutputsOn(Path(b)) = OutputsOn(Path(Parent[b]))
                             \cup UNION {ToSet(tx.outs) : tx \in ToSet(TxsOf[b])}
    BY <2>2 DEF OutputsOn
  <2>4. UNION {ToSet(tx.outs) : tx \in ToSet(TxsOf[b])}
          = UNION {Range(TxsOf[b][j].outs) : j \in 1..Len(TxsOf[b])}
    BY <1>1 DEF ToSet, Range
  <2> QED
    BY <2>3, <2>4 DEF OutputsTo
<1>4. ASSUME NEW n \in 1..Len(TxsOf[b])
      PROVE  OutputsTo(b, n) = OutputsTo(b, n - 1) \cup Range(TxsOf[b][n].outs)
  <2>1. 1..n = 1..(n - 1) \cup {n}
    BY <1>1
  <2> QED
    BY <2>1 DEF OutputsTo
<1> QED
  BY <1>2, <1>3, <1>4

\* The sets of the invariant, for a queue of transactions.
LEMMA AtTxs ==
    ASSUME NEW b \in Blocks, NEW f, Newest(f) = b, f = Path(b),
           NEW n \in 0..Len(TxsOf[b])
    PROVE  /\ SpentAt(TxsFrom(b, n), "node", f) = SpentTo(b, n)
           /\ OutputsAt(TxsFrom(b, n), "node", f) = OutputsTo(b, n)
           /\ n # Len(TxsOf[b]) =>
                /\ SpentAt(TxsFrom(b, n), "indexer", f) = SpentTo(b, n + 1)
                /\ OutputsAt(TxsFrom(b, n), "indexer", f) = OutputsTo(b, n + 1)
<1> DEFINE q == TxsFrom(b, n)
           l == Len(TxsOf[b])
           f2(i) == TxEvent(b, n + i)
           E == {f2(i) : i \in 1..(l - n)}
<1>1. l \in Nat
  BY TxOf
<1>2. CASE n = l
  <2>1. q = <<>>
    BY <1>2, TxsFromTail
  <2> QED
    BY <1>2, <2>1, OutputsSteps, SpentSteps DEF SpentAt, OutputsAt
<1>3. CASE n # l
  <2>1. q # <<>> /\ Head(q) = TxEvent(b, n + 1)
    BY <1>3, TxsFromTail
  <2>2. Head(q).type = "transaction"
    BY <2>1 DEF TxEvent
  <2>3. Len(q) = l - n
    <3>1. q = [i \in 1..(l - n) |-> f2(i)]
      BY DEF TxsFrom
    <3>2. \A i \in 1..(l - n) : f2(i) \in E
      OBVIOUS
    <3>3. DOMAIN q = 1..(l - n) /\ l - n \in Nat
      BY <1>1, <3>1
    <3> HIDE DEF f2, E, l, q
    <3>4. q \in Seq(E)
      BY <1>1, <3>1, <3>2, <3>3, IsASeq
    <3> QED
      BY <1>1, <3>3, <3>4, LenProperties
  <2> HIDE DEF q, l
  <2>4. l - (l - n) = n /\ n + 0 = n
    BY <1>1
  <2>5. DoneOf(q, "node", b) = n /\ DoneOf(q, "indexer", b) = n + 1
    BY <1>1, <2>2, <2>3, <2>4 DEF DoneOf, l
  <2> QED
    BY <2>1, <2>2, <2>5 DEF SpentAt, OutputsAt, q
<1> QED
  BY <1>2, <1>3

\* For any queue: with no transaction to handle the handlers agree.
LEMMA AtEvent ==
    ASSUME PipelineInv
    PROVE  /\ queue = <<>> \/ IsRollback => \A st :
                /\ SpentAt(queue, st, followed) = SpentOn(followed)
                /\ OutputsAt(queue, st, followed) = OutputsOn(followed)
           /\ queue # <<>> /\ ~IsRollback =>
                Newest(followed) \in Blocks /\ followed = Path(Newest(followed))
           /\ queue # <<>> /\ ~IsRollback /\ ~IsTx => \A st :
                /\ SpentAt(queue, st, followed) = SpentTo(Newest(followed), 0)
                /\ OutputsAt(queue, st, followed) = OutputsTo(Newest(followed), 0)
           /\ queue # <<>> /\ IsTx => \E n \in 1..Len(TxsOf[Newest(followed)]) :
                LET b == Newest(followed)
                IN  /\ Event.tx = TxsOf[b][n] /\ Event.block = b
                    /\ Tail(queue) = TxsFrom(b, n)
                    /\ SpentAt(queue, "node", followed) = SpentTo(b, n - 1)
                    /\ OutputsAt(queue, "node", followed) = OutputsTo(b, n - 1)
                    /\ SpentAt(queue, "indexer", followed) = SpentTo(b, n)
                    /\ OutputsAt(queue, "indexer", followed) = OutputsTo(b, n)
<1> DEFINE b == Newest(followed)
<1>1. queue = <<>> \/ IsRollback => \A st :
                /\ SpentAt(queue, st, followed) = SpentOn(followed)
                /\ OutputsAt(queue, st, followed) = OutputsOn(followed)
  BY DEF SpentAt, OutputsAt, IsRollback, Event
<1>2. ASSUME queue # <<>>, ~IsRollback
      PROVE  b \in Blocks /\ followed = Path(b)
  BY <1>2, SpentNow
<1>3. ASSUME queue # <<>>, ~IsRollback, ~IsTx
      PROVE  \A st : /\ SpentAt(queue, st, followed) = SpentTo(b, 0)
                     /\ OutputsAt(queue, st, followed) = OutputsTo(b, 0)
  <2>1. \A st : DoneOf(queue, st, b) = 0
    BY <1>3 DEF DoneOf, IsTx, Event
  <2> QED
    BY <1>3, <2>1 DEF SpentAt, OutputsAt, IsRollback, Event
<1>4. ASSUME queue # <<>>, IsTx
      PROVE  \E n \in 1..Len(TxsOf[b]) :
               /\ Event.tx = TxsOf[b][n] /\ Event.block = b
               /\ Tail(queue) = TxsFrom(b, n)
               /\ SpentAt(queue, "node", followed) = SpentTo(b, n - 1)
               /\ OutputsAt(queue, "node", followed) = OutputsTo(b, n - 1)
               /\ SpentAt(queue, "indexer", followed) = SpentTo(b, n)
               /\ OutputsAt(queue, "indexer", followed) = OutputsTo(b, n)
  <2>1. ~IsRollback
    BY <1>4 DEF IsTx, IsRollback
  <2>2. b \in Blocks /\ followed = Path(b)
    BY <1>2, <1>4, <2>1
  <2>3. PICK n \in 1..Len(TxsOf[b]) :
          /\ Event = TxEvent(b, n) /\ TxsQueued(n - 1) /\ Tail(queue) = TxsFrom(b, n)
    BY <1>4, <2>1, EventOf
  <2>4. Event.tx = TxsOf[b][n] /\ Event.block = b
    BY <2>3 DEF TxEvent
  <2>5. n - 1 \in 0..Len(TxsOf[b]) /\ n - 1 # Len(TxsOf[b]) /\ (n - 1) + 1 = n
    BY <2>2, TxOf
  <2>6. queue = TxsFrom(b, n - 1)
    BY <2>3 DEF TxsQueued
  <2>7. /\ SpentAt(TxsFrom(b, n - 1), "node", followed) = SpentTo(b, n - 1)
        /\ OutputsAt(TxsFrom(b, n - 1), "node", followed) = OutputsTo(b, n - 1)
        /\ SpentAt(TxsFrom(b, n - 1), "indexer", followed) = SpentTo(b, n)
        /\ OutputsAt(TxsFrom(b, n - 1), "indexer", followed) = OutputsTo(b, n)
    BY <2>2, <2>5, AtTxs
  <2> QED
    BY <2>3, <2>4, <2>6, <2>7
<1> QED
  BY <1>1, <1>2, <1>3, <1>4

-----------------------------------------------------------------------------
(* The UTxO database: the writes of a transaction                          *)

\* More blocks have more outputs and spend more.
LEMMA MoreBlocks ==
    ASSUME NEW B, NEW C, B \subseteq C, C \subseteq Blocks
    PROVE  /\ OutputsIn(B) \subseteq OutputsIn(C) /\ SpentIn(B) \subseteq SpentIn(C)
           /\ \A d : StoreForm(d, B) => StoreForm(d, C)
<1>1. OutputsIn(B) \subseteq OutputsIn(C) /\ SpentIn(B) \subseteq SpentIn(C)
  BY DEF OutputsIn, SpentIn
<1>2. \A d : StoreForm(d, B) => StoreForm(d, C)
  BY <1>1 DEF StoreForm
<1> QED
  BY <1>1, <1>2

\* What a transaction of a block produces and spends.
LEMMA TxInBlock ==
    ASSUME NEW b \in Blocks, NEW n \in 1..Len(TxsOf[b]), NEW tx, tx = TxsOf[b][n]
    PROVE  /\ tx.outs \in Seq(Range(tx.outs)) /\ tx.ins \in Seq(Range(tx.ins))
           /\ Range(tx.outs) \subseteq OutputsIn({b}) /\ Range(tx.ins) \subseteq SpentIn({b})
           /\ SpentTo(b, n) = SpentTo(b, n - 1) \cup Range(tx.ins)
           /\ OutputsTo(b, n) = OutputsTo(b, n - 1) \cup Range(tx.outs)
           /\ \A o \in Range(tx.outs) : o.utxo \notin SpentTo(b, n)
           /\ \A o \in Range(tx.outs), p \in OutputsTo(b, n) :
                 o.address \in Pools /\ p.address \in Pools /\ o.nft = p.nft =>
                    p = o \/ p.utxo \in SpentTo(b, n)
           /\ \A o, p \in Range(tx.outs) :
                 o.address \in Pools /\ p.address \in Pools /\ o.nft = p.nft => o = p
<1>1. tx \in Range(TxsOf[b])
  BY TxOf DEF Range
<1>2. tx.outs \in Seq(Range(tx.outs)) /\ tx.ins \in Seq(Range(tx.ins))
  BY <1>1, TxsAssumption
<1>3. Range(tx.outs) \subseteq OutputsIn({b}) /\ Range(tx.ins) \subseteq SpentIn({b})
  BY <1>1 DEF OutputsIn, SpentIn
<1>4. /\ SpentTo(b, n) = SpentTo(b, n - 1) \cup Range(tx.ins)
      /\ OutputsTo(b, n) = OutputsTo(b, n - 1) \cup Range(tx.outs)
  BY SpentSteps, OutputsSteps
<1>5. \A o \in Range(tx.outs) :
        /\ o.utxo \notin SpentTo(b, n)
        /\ o.address \in Pools => \A p \in OutputsTo(b, n) :
              p.address \in Pools /\ p.nft = o.nft => p = o \/ p.utxo \in SpentTo(b, n)
  BY LedgerAssumption
<1> QED
  BY <1>2, <1>3, <1>4, <1>5

\* Spectrum's writes, all or the first m, to a database whose transactions
\* before the n-th of b are handled.
LEMMA SpectrumCommits ==
    ASSUME NEW b \in Blocks, NEW n \in 1..Len(TxsOf[b]), NEW tx, tx = TxsOf[b][n],
           NEW B, B \subseteq Blocks, NEW d, StoreForm(d, B),
           NEW w, w = SpectrumWrites(tx), NEW m \in 0..Len(w),
           NEW e, e = CommitAll(d, w, m), NEW C, C = B \cup {b}, NEW x
    PROVE  /\ StoreForm(e, C)
           /\ Indexed(x, d, B, SpentTo(b, n - 1), OutputsTo(b, n - 1),
                      SpentTo(b, n - 1), OutputsTo(b, n - 1)) =>
                /\ Indexed(x, e, C, SpentTo(b, n - 1), OutputsTo(b, n - 1),
                           SpentTo(b, n), OutputsTo(b, n - 1))
                /\ m = Len(w) =>
                     Indexed(x, e, C, SpentTo(b, n - 1), OutputsTo(b, n - 1),
                             SpentTo(b, n), OutputsTo(b, n))
<1> DEFINE outs == Range(tx.outs)
           S == SpentTo(b, n - 1)
           T == SpentTo(b, n)
           O == OutputsTo(b, n - 1)
           P == OutputsTo(b, n)
<1>1. /\ tx.outs \in Seq(Range(tx.outs))
      /\ outs \subseteq OutputsIn({b}) /\ Range(tx.ins) \subseteq SpentIn({b})
      /\ T = S \cup Range(tx.ins) /\ P = O \cup outs
      /\ \A o \in outs : o.utxo \notin T
      /\ \A o \in outs, p \in P :
            o.address \in Pools /\ p.address \in Pools /\ o.nft = p.nft => p = o \/ p.utxo \in T
      /\ \A o, p \in outs :
            o.address \in Pools /\ p.address \in Pools /\ o.nft = p.nft => o = p
  BY TxInBlock
<1>2. /\ Len(w) \in Nat /\ m \in Nat
      /\ \A i \in 1..Len(w) : WriteOK(w[i], outs, {})
      /\ \A o \in outs : o.address \in Pools =>
            /\ Made(w, "add", o.utxo)
            /\ \E i \in 1..Len(w) :
                  w[i].op = "asset" /\ w[i].key = o.nft /\ w[i].utxo = o.utxo
  <2>0. tx.outs \in Seq(Range(tx.outs))
    BY <1>1
  <2>1. Len(w) \in Nat
    BY <2>0, SpectrumWritesOf
  <2>2. \A i \in 1..Len(w) : WriteOK(w[i], outs, {})
    BY <2>0, SpectrumWritesOf
  <2>3. \A o \in outs : o.address \in Pools =>
            /\ Made(w, "add", o.utxo)
            /\ \E i \in 1..Len(w) :
                  w[i].op = "asset" /\ w[i].key = o.nft /\ w[i].utxo = o.utxo
    <3> SUFFICES ASSUME NEW o \in Range(tx.outs), o.address \in Pools
                 PROVE  /\ Made(w, "add", o.utxo)
                        /\ \E i \in 1..Len(w) :
                              w[i].op = "asset" /\ w[i].key = o.nft /\ w[i].utxo = o.utxo
      OBVIOUS
    <3> QED
      BY <2>0, SpectrumWritesOf
  <2> QED
    BY <2>1, <2>2, <2>3
<1>3. /\ B \subseteq C /\ {b} \subseteq C /\ C \subseteq Blocks
      /\ SpentIn(B) \subseteq SpentIn(C) /\ SpentIn({b}) \subseteq SpentIn(C)
      /\ outs \subseteq OutputsIn(C) /\ StoreForm(d, C)
  <2>1. B \subseteq C /\ {b} \subseteq C /\ C \subseteq Blocks
    OBVIOUS
  <2>2. OutputsIn({b}) \subseteq OutputsIn(C) /\ SpentIn({b}) \subseteq SpentIn(C)
    BY <2>1, MoreBlocks
  <2>3. SpentIn(B) \subseteq SpentIn(C) /\ StoreForm(d, C)
    BY <2>1, MoreBlocks
  <2> QED
    BY <1>1, <2>1, <2>2, <2>3
<1> HIDE DEF outs, S, T, O, P
<1>4. Committed(e, d, w, m, C, outs, {})
  <2>1. \A o \in outs : o.utxo \notin {}
    OBVIOUS
  <2>2. \A i \in 1..m : WriteOK(w[i], outs, {})
    BY <1>2
  <2> QED
    BY <1>1, <1>2, <1>3, <2>1, <2>2, CommitMany
<1>5. /\ StoreForm(e, C)
      /\ \A u \in DOMAIN e.address : u \in DOMAIN d.address \/ \E o \in outs : o.utxo = u
      /\ DOMAIN d.address \subseteq DOMAIN e.address
      /\ \A i \in 1..m :
            /\ w[i].op = "add" => w[i].utxo \in DOMAIN e.address
            /\ w[i].op = "asset" =>
                 w[i].key \in DOMAIN e.asset /\ e.asset[w[i].key] = w[i].utxo
      /\ \A k \in DOMAIN d.asset :
            /\ k \in DOMAIN e.asset
            /\ \/ e.asset[k] = d.asset[k]
               \/ \E o \in outs : o.address \in Pools /\ o.nft = k /\ e.asset[k] = o.utxo
  BY <1>4 DEF Committed
<1>6. ASSUME Indexed(x, d, B, S, O, S, O)
      PROVE  Indexed(x, e, C, S, O, T, O) /\ (m = Len(w) => Indexed(x, e, C, S, O, T, P))
  <2>1. /\ DOMAIN d.address \cap S \subseteq x /\ S \subseteq x \cup SpentIn(B)
        /\ WalletKept(d, O, x \cup SpentIn(B)) /\ PoolsKept(d, O, x \cup SpentIn(B))
    BY <1>6 DEF Indexed
  <2>2. DOMAIN e.address \cap S \subseteq x
    BY <1>1, <1>5, <2>1
  <2>3. T \subseteq x \cup SpentIn(C)
    BY <1>1, <1>3, <2>1
  <2>4. WalletKept(e, O, x \cup SpentIn(C))
    BY <1>3, <1>5, <2>1 DEF WalletKept
  <2>5. ASSUME NEW o \in O, o.address \in Pools
        PROVE  \/ /\ o.utxo \in DOMAIN e.address
                  /\ o.nft \in DOMAIN e.asset /\ e.asset[o.nft] = o.utxo
               \/ o.utxo \in x \cup SpentIn(C)
    <3>1. CASE o.utxo \in x \cup SpentIn(B)
      BY <1>3, <3>1
    <3>2. CASE /\ o.utxo \in DOMAIN d.address
               /\ o.nft \in DOMAIN d.asset /\ d.asset[o.nft] = o.utxo
      <4>1. CASE e.asset[o.nft] = d.asset[o.nft]
        BY <1>5, <3>2, <4>1
      <4>2. ASSUME NEW p \in outs, p.address \in Pools, p.nft = o.nft, e.asset[o.nft] = p.utxo
            PROVE  \/ /\ o.utxo \in DOMAIN e.address
                      /\ o.nft \in DOMAIN e.asset /\ e.asset[o.nft] = o.utxo
                   \/ o.utxo \in x \cup SpentIn(C)
        <5>1. o = p \/ o.utxo \in T
          BY <1>1, <2>5, <4>2
        <5> QED
          BY <1>5, <2>3, <3>2, <4>2, <5>1
      <4> QED
        BY <1>5, <3>2, <4>1, <4>2
    <3> QED
      BY <2>1, <2>5, <3>1, <3>2 DEF PoolsKept
  <2>6. PoolsKept(e, O, x \cup SpentIn(C))
    BY <2>5 DEF PoolsKept
  <2>7. ASSUME m = Len(w) PROVE PoolsKept(e, P, x \cup SpentIn(C))
    <3>1. ASSUME NEW o \in outs, o.address \in Pools
          PROVE  /\ o.utxo \in DOMAIN e.address
                 /\ o.nft \in DOMAIN e.asset /\ e.asset[o.nft] = o.utxo
      <4>1. PICK i \in 1..m : w[i].op = "add" /\ w[i].utxo = o.utxo
        BY <1>2, <2>7, <3>1 DEF Made
      <4>2. PICK j \in 1..m : w[j].op = "asset" /\ w[j].key = o.nft /\ w[j].utxo = o.utxo
        BY <1>2, <2>7, <3>1
      <4> QED
        BY <1>5, <4>1, <4>2
    <3> QED
      BY <1>1, <2>5, <3>1 DEF PoolsKept
  <2> QED
    BY <2>2, <2>3, <2>4, <2>6, <2>7 DEF Indexed
<1> QED
  BY <1>5, <1>6 DEF S, T, O, P

\* The indexer's writes, all or the first m, after Spectrum's.
LEMMA IndexerCommits ==
    ASSUME NEW b \in Blocks, NEW n \in 1..Len(TxsOf[b]), NEW tx, tx = TxsOf[b][n],
           NEW B, B \subseteq Blocks, b \in B, NEW d, StoreForm(d, B),
           NEW w, w = IndexerWrites(tx), NEW m \in 0..Len(w),
           NEW e, e = CommitAll(d, w, m), NEW x
    PROVE  /\ StoreForm(e, B)
           /\ Indexed(x, d, B, SpentTo(b, n - 1), OutputsTo(b, n - 1),
                      SpentTo(b, n), OutputsTo(b, n)) =>
                /\ Indexed(x, e, B, SpentTo(b, n - 1), OutputsTo(b, n - 1),
                           SpentTo(b, n), OutputsTo(b, n))
                /\ m = Len(w) =>
                     Indexed(x, e, B, SpentTo(b, n), OutputsTo(b, n),
                             SpentTo(b, n), OutputsTo(b, n))
<1> DEFINE outs == Range(tx.outs)
           gone == Range(tx.ins)
           S == SpentTo(b, n - 1)
           T == SpentTo(b, n)
           O == OutputsTo(b, n - 1)
           P == OutputsTo(b, n)
<1>1. /\ tx.outs \in Seq(Range(tx.outs)) /\ tx.ins \in Seq(Range(tx.ins))
      /\ outs \subseteq OutputsIn({b}) /\ gone \subseteq SpentIn({b})
      /\ T = S \cup gone /\ P = O \cup outs
      /\ \A o \in outs : o.utxo \notin T
      /\ \A o, p \in outs :
            o.address \in Pools /\ p.address \in Pools /\ o.nft = p.nft => o = p
  BY TxInBlock
<1>2. /\ Len(w) \in Nat
      /\ \A i \in 1..Len(w) : WriteOK(w[i], outs, gone) /\ w[i].op # "asset"
      /\ \A u \in gone : Made(w, "remove", u)
      /\ \A o \in outs : o.address = Wallet =>
            Made(w, "add", o.utxo)
  <2>1. Len(w) \in Nat
    BY <1>1, IndexerWritesOf
  <2>2. \A i \in 1..Len(w) : WriteOK(w[i], outs, gone) /\ w[i].op # "asset"
    BY <1>1, IndexerWritesOf
  <2>3. \A u \in gone : Made(w, "remove", u)
    BY <1>1, IndexerWritesOf
  <2>4. \A o \in outs : o.address = Wallet => Made(w, "add", o.utxo)
    BY <1>1, IndexerWritesOf
  <2> QED
    BY <2>1, <2>2, <2>3, <2>4
<1>3. outs \subseteq OutputsIn(B)
  <2>1. {b} \subseteq B
    OBVIOUS
  <2>2. OutputsIn({b}) \subseteq OutputsIn(B)
    BY <2>1, MoreBlocks
  <2> QED
    BY <1>1, <2>2
<1> HIDE DEF outs, gone, S, T, O, P
<1>4. Committed(e, d, w, m, B, outs, gone)
  <2>1. \A o \in outs : o.utxo \notin gone
    BY <1>1
  <2>2. m \in Nat /\ \A i \in 1..m : WriteOK(w[i], outs, gone)
    BY <1>2
  <2> QED
    BY <1>1, <1>3, <2>1, <2>2, CommitMany
<1>5. /\ StoreForm(e, B)
      /\ \A u \in DOMAIN e.address : u \in DOMAIN d.address \/ \E o \in outs : o.utxo = u
      /\ DOMAIN d.address \ gone \subseteq DOMAIN e.address
      /\ \A i \in 1..m :
            /\ w[i].op = "add" => w[i].utxo \in DOMAIN e.address
            /\ w[i].op = "remove" => w[i].utxo \notin DOMAIN e.address
      /\ e.asset = d.asset
  <2>1. \A i \in 1..m : w[i].op # "asset"
    BY <1>2
  <2> QED
    BY <1>4, <2>1 DEF Committed
<1>6. ASSUME Indexed(x, d, B, S, O, T, P)
      PROVE  Indexed(x, e, B, S, O, T, P) /\ (m = Len(w) => Indexed(x, e, B, T, P, T, P))
  <2>1. /\ DOMAIN d.address \cap S \subseteq x /\ T \subseteq x \cup SpentIn(B)
        /\ WalletKept(d, O, x \cup SpentIn(B)) /\ PoolsKept(d, P, x \cup SpentIn(B))
    BY <1>6 DEF Indexed
  <2>2. DOMAIN e.address \cap S \subseteq x
    BY <1>1, <1>5, <2>1
  <2>3. gone \subseteq x \cup SpentIn(B)
    BY <1>1, <2>1
  <2>4. WalletKept(e, O, x \cup SpentIn(B))
    BY <1>5, <2>1, <2>3 DEF WalletKept
  <2>5. PoolsKept(e, P, x \cup SpentIn(B))
    BY <1>5, <2>1, <2>3 DEF PoolsKept
  <2>6. ASSUME m = Len(w) PROVE DOMAIN e.address \cap T \subseteq x /\ WalletKept(e, P, x \cup SpentIn(B))
    <3>1. \A u \in gone : u \notin DOMAIN e.address
      BY <1>2, <1>5, <2>6 DEF Made
    <3>2. \A o \in outs : o.address = Wallet => o.utxo \in DOMAIN e.address
      BY <1>2, <1>5, <2>6 DEF Made
    <3>3. DOMAIN e.address \cap T \subseteq x
      BY <1>1, <2>2, <3>1
    <3> QED
      BY <1>1, <2>4, <3>2, <3>3 DEF WalletKept
  <2> QED
    BY <2>1, <2>2, <2>4, <2>5, <2>6 DEF Indexed
<1> QED
  BY <1>5, <1>6 DEF S, T, O, P

-----------------------------------------------------------------------------
(* The UTxO database: the steps                                            *)

\* What holds with more handled holds with less, and with more excepted.
LEMMA IndexedLess ==
    ASSUME NEW d, NEW B, NEW S, NEW O, NEW T, NEW P, NEW x,
           Indexed(x, d, B, S, O, T, P),
           NEW s, NEW o, NEW t, NEW p, NEW y, x \subseteq y,
           s \subseteq y \cup S, t \subseteq y \cup T,
           \A q \in o : q \in O \/ q.utxo \in y, \A q \in p : q \in P \/ q.utxo \in y
    PROVE  Indexed(y, d, B, s, o, t, p)
<1>1. /\ DOMAIN d.address \cap S \subseteq x /\ T \subseteq x \cup SpentIn(B)
      /\ WalletKept(d, O, x \cup SpentIn(B)) /\ PoolsKept(d, P, x \cup SpentIn(B))
  BY DEF Indexed
<1>2. DOMAIN d.address \cap s \subseteq y
  BY <1>1
<1>3. t \subseteq y \cup SpentIn(B)
  BY <1>1
<1>4. WalletKept(d, o, y \cup SpentIn(B))
  BY <1>1 DEF WalletKept
<1>5. PoolsKept(d, p, y \cup SpentIn(B))
  BY <1>1 DEF PoolsKept
<1> QED
  BY <1>2, <1>3, <1>4, <1>5 DEF Indexed

\* What is excepted: it only grows, with the blocks that are missed.
LEMMA OddOf ==
    /\ \A b \in missed : \A tx \in Range(TxsOf[b]) :
          /\ Range(tx.ins) \subseteq Odd
          /\ \A o \in Range(tx.outs) : o.utxo \in Odd
    /\ missed' = missed => Odd' = Odd
    /\ missed \subseteq missed' => Odd \subseteq Odd'
BY DEF Odd, MissedTxs

\* Spectrum is never behind the indexer.
LEMMA SpectrumAhead ==
    ASSUME PipelineInv
    PROVE  /\ SpentAt(queue, "node", followed)
                \subseteq SpentAt(queue, SpectrumDone(stage), followed)
           /\ OutputsAt(queue, "node", followed)
                \subseteq OutputsAt(queue, SpectrumDone(stage), followed)
<1> DEFINE b == Newest(followed)
<1>1. SpectrumDone(stage) \in {"node", "indexer"}
  BY DEF SpectrumDone
<1>2. CASE queue = <<>> \/ ~IsTx
  BY <1>1, <1>2, AtEvent
<1>3. CASE queue # <<>> /\ IsTx
  <2>1. PICK n \in 1..Len(TxsOf[b]) :
           /\ SpentAt(queue, "node", followed) = SpentTo(b, n - 1)
           /\ OutputsAt(queue, "node", followed) = OutputsTo(b, n - 1)
           /\ SpentAt(queue, "indexer", followed) = SpentTo(b, n)
           /\ OutputsAt(queue, "indexer", followed) = OutputsTo(b, n)
    BY <1>3, AtEvent
  <2>2. b \in Blocks
    BY <1>3, AtEvent DEF IsTx, IsRollback
  <2>3. SpentTo(b, n - 1) \subseteq SpentTo(b, n) /\ OutputsTo(b, n - 1) \subseteq OutputsTo(b, n)
    BY <2>2, SpentSteps, OutputsSteps
  <2> QED
    BY <1>1, <2>1, <2>3
<1> QED
  BY <1>2, <1>3

\* A block arrives.
LEMMA ForwardStore ==
    ASSUME PipelineInv, StoreInv, NEW b \in Blocks, RollForward(b)
    PROVE  StoreInv'
<1>1. /\ queue = <<>> /\ Parent[b] = Newest(followed) /\ stage' = stage /\ stage = "node"
      /\ followed' = Append(followed, b) /\ queue' = BlockEvents(b) /\ IsPath(followed)
      /\ UNCHANGED <<up, cursor, db, applied, missed>> /\ up
  BY ForwardParent DEF RollForward, Delivers, Idle, PipelineInv, storeVars, pastVars
<1>2. IsPath(followed') /\ Newest(followed') = b
  BY <1>1, AppendPath
<1>3. Path(Parent[b]) = followed
  BY <1>1, PathOfNewest
<1>4. queue' # <<>> /\ Head(queue').type = "block"
  BY <1>1, BlockEventsOf DEF BlockEvent
<1>5. \A st : /\ SpentAt(queue', st, followed') = SpentOn(followed)
              /\ OutputsAt(queue', st, followed') = OutputsOn(followed)
  <2>1. \A st : DoneOf(queue', st, b) = 0
    BY <1>4 DEF DoneOf
  <2>2. SpentTo(b, 0) = SpentOn(followed) /\ OutputsTo(b, 0) = OutputsOn(followed)
    BY <1>3, SpentSteps, OutputsSteps
  <2> QED
    BY <1>2, <1>4, <2>1, <2>2 DEF SpentAt, OutputsAt
<1>6. \A st : /\ SpentAt(queue, st, followed) = SpentOn(followed)
              /\ OutputsAt(queue, st, followed) = OutputsOn(followed)
  BY <1>1 DEF SpentAt, OutputsAt
<1>7. IndexedInv'
  BY <1>1, <1>5, <1>6, OddOf DEF StoreInv, IndexedInv
<1> QED
  BY <1>1, <1>7 DEF StoreInv, BaseInv, SavedInv

\* A rollback arrives: nothing of what it leaves is lost.
LEMMA BackwardStore ==
    ASSUME PipelineInv, StoreInv, NEW k \in 0..Len(followed), RollBackward(k)
    PROVE  StoreInv'
<1>1. /\ queue = <<>> /\ stage' = stage /\ stage = "node" /\ IsPath(followed)
      /\ followed' = SubSeq(followed, 1, k)
      /\ queue' = <<RollbackTo(Newest(followed'))>>
      /\ UNCHANGED <<up, cursor, db, applied, missed>> /\ up
  BY DEF RollBackward, Delivers, Idle, PipelineInv, storeVars, pastVars
<1>2. queue' # <<>> /\ Head(queue').type = "rollback"
  BY <1>1 DEF RollbackTo
<1>3. /\ IsPath(followed') /\ Len(followed') = k
      /\ \A i \in 1..k : followed'[i] = followed[i]
  BY <1>1, PrefixPath
<1>4. /\ Len(followed) \in Nat /\ DOMAIN followed = 1..Len(followed)
      /\ DOMAIN followed' = 1..k
  BY <1>1, <1>3, LenProperties DEF IsPath
<1>5. ToSet(followed') \subseteq ToSet(followed)
  BY <1>3, <1>4 DEF ToSet
<1>6. SpentOn(followed') \subseteq SpentOn(followed)
      /\ OutputsOn(followed') \subseteq OutputsOn(followed)
  BY <1>5, SpentMore, OutputsMore
<1>7. \A st : /\ SpentAt(queue', st, followed') = SpentOn(followed')
              /\ OutputsAt(queue', st, followed') = OutputsOn(followed')
  BY <1>2 DEF SpentAt, OutputsAt
<1>8. \A st : /\ SpentAt(queue, st, followed) = SpentOn(followed)
              /\ OutputsAt(queue, st, followed) = OutputsOn(followed)
  BY <1>1 DEF SpentAt, OutputsAt
<1>9. IndexedInv'
  <2> SUFFICES Indexed(Odd, db, applied, SpentOn(followed'), OutputsOn(followed'),
                       SpentOn(followed'), OutputsOn(followed'))
    BY <1>1, <1>7, OddOf DEF IndexedInv
  <2>1. Indexed(Odd, db, applied, SpentOn(followed), OutputsOn(followed),
                SpentOn(followed), OutputsOn(followed))
    BY <1>1, <1>8 DEF StoreInv, IndexedInv
  <2> QED
    BY <1>6, <2>1, IndexedLess
<1>10. BaseInv'
  BY <1>1, <1>2 DEF StoreInv, BaseInv, IsTx, Event
<1> QED
  BY <1>1, <1>9, <1>10 DEF StoreInv, SavedInv

\* Steps that leave the database, what was applied and the events alone, and
\* take the stage no further than Spectrum's handler or from behind it on.
LEMMA StillStore ==
    ASSUME StoreInv, UNCHANGED <<up, followed, queue, db, applied, missed>>,
           up \/ UNCHANGED cursor, SpectrumDone(stage') = SpectrumDone(stage)
    PROVE  StoreInv'
<1>1. IndexedInv'
  BY OddOf DEF StoreInv, IndexedInv
<1>2. stage' \in {"node", "spectrum"} <=> stage \in {"node", "spectrum"}
  BY DEF SpectrumDone
<1>3. BaseInv'
  BY <1>2 DEF StoreInv, BaseInv, IsTx, Event
<1> QED
  BY <1>1, <1>3, OddOf DEF StoreInv, SavedInv

\* Spectrum's handler.
LEMMA SpectrumStore ==
    ASSUME PipelineInv, StoreInv, SpectrumHandler
    PROVE  StoreInv'
<1> DEFINE b == Newest(followed)
<1>1. /\ up /\ queue # <<>> /\ stage = "spectrum" /\ stage' = "synthetics"
      /\ UNCHANGED <<up, followed, queue, cursor, missed>>
  BY DEF SpectrumHandler, AtStage, Continue
<1>2. SpectrumDone(stage) = "node" /\ SpectrumDone(stage') = "indexer"
  BY <1>1 DEF SpectrumDone
<1>3. CASE ~IsTx
  <2>1. UNCHANGED <<db, applied>>
    BY <1>3 DEF SpectrumHandler
  <2>2. /\ SpentAt(queue, "indexer", followed) = SpentAt(queue, "node", followed)
        /\ OutputsAt(queue, "indexer", followed) = OutputsAt(queue, "node", followed)
    BY <1>1, <1>3, AtEvent
  <2>3. IndexedInv'
    BY <1>1, <1>2, <2>1, <2>2, OddOf DEF StoreInv, IndexedInv
  <2>4. BaseInv'
    BY <1>1, <1>3, <2>1 DEF StoreInv, BaseInv, IsTx, Event
  <2> QED
    BY <1>1, <2>3, <2>4 DEF StoreInv, SavedInv
<1>4. CASE IsTx
  <2>1. PICK n \in 1..Len(TxsOf[b]) :
           /\ Event.tx = TxsOf[b][n] /\ Event.block = b
           /\ SpentAt(queue, "node", followed) = SpentTo(b, n - 1)
           /\ OutputsAt(queue, "node", followed) = OutputsTo(b, n - 1)
           /\ SpentAt(queue, "indexer", followed) = SpentTo(b, n)
           /\ OutputsAt(queue, "indexer", followed) = OutputsTo(b, n)
    BY <1>1, <1>4, AtEvent
  <2>2. b \in Blocks
    BY <1>1, <1>4, AtEvent DEF IsTx, IsRollback
  <2>3. PICK w : w = SpectrumWrites(Event.tx)
    OBVIOUS
  <2>4. db' = CommitAll(db, w, Len(w)) /\ applied' = applied \cup {b}
    BY <1>4, <2>1, <2>3 DEF SpectrumHandler
  <2>5. Len(w) \in 0..Len(w) /\ applied \subseteq Blocks /\ StoreForm(db, applied)
    <3>1. PICK tx : tx = TxsOf[b][n]
      OBVIOUS
    <3>2. tx.outs \in Seq(Range(tx.outs))
      BY <2>2, <3>1, TxInBlock
    <3>3. Len(w) \in Nat
      BY <2>1, <2>3, <3>1, <3>2, SpectrumWritesOf
    <3> QED
      BY <3>3 DEF StoreInv, BaseInv
  <2>6. /\ StoreForm(db', applied')
        /\ Indexed(Odd, db, applied, SpentTo(b, n - 1), OutputsTo(b, n - 1),
                   SpentTo(b, n - 1), OutputsTo(b, n - 1)) =>
             Indexed(Odd, db', applied', SpentTo(b, n - 1), OutputsTo(b, n - 1),
                     SpentTo(b, n), OutputsTo(b, n))
    BY <2>1, <2>2, <2>3, <2>4, <2>5, SpectrumCommits
  <2>7. IndexedInv'
    <3>1. Indexed(Odd, db, applied, SpentTo(b, n - 1), OutputsTo(b, n - 1),
                                SpentTo(b, n - 1), OutputsTo(b, n - 1))
      BY <1>1, <1>2, <2>1 DEF StoreInv, IndexedInv
    <3> QED
      BY <1>1, <1>2, <2>1, <2>6, <3>1, OddOf DEF IndexedInv
  <2>8. BaseInv'
    BY <1>1, <2>2, <2>4, <2>5, <2>6 DEF BaseInv
  <2> QED
    BY <1>1, <2>7, <2>8 DEF StoreInv, SavedInv
<1> QED
  BY <1>3, <1>4

\* The indexer's handler, with which an event is done.
LEMMA IndexerStore ==
    ASSUME PipelineInv, StoreInv, IndexerHandler
    PROVE  StoreInv'
<1> DEFINE b == Newest(followed)
<1>1. /\ up /\ queue # <<>> /\ stage = "indexer" /\ stage' = "node"
      /\ queue' = Tail(queue) /\ UNCHANGED <<up, followed, cursor, applied, missed>>
  BY DEF IndexerHandler, AtStage, EventDone, pastVars
<1>2. SpectrumDone(stage) = "indexer" /\ SpectrumDone(stage') = "node"
  BY <1>1 DEF SpectrumDone
<1>3. applied' \subseteq Blocks /\ stage' \in {"node", "spectrum"}
  BY <1>1 DEF StoreInv, BaseInv
<1>4. CASE ~IsTx
  <2>1. db' = db
    BY <1>4 DEF IndexerHandler
  <2>2. /\ SpentAt(queue, "indexer", followed) = SpentAt(queue, "node", followed)
        /\ OutputsAt(queue, "indexer", followed) = OutputsAt(queue, "node", followed)
    BY <1>1, <1>4, AtEvent
  <2>3. /\ SpentAt(queue', "node", followed') = SpentAt(queue, "node", followed)
        /\ OutputsAt(queue', "node", followed') = OutputsAt(queue, "node", followed)
    <3>1. CASE IsRollback
      <4>1. queue' = <<>>
        BY <1>1, <3>1, EventOf
      <4> QED
        BY <1>1, <3>1, <4>1, AtEvent DEF SpentAt, OutputsAt
    <3>2. CASE ~IsRollback
      <4>1. /\ b \in Blocks /\ queue' = TxsFrom(b, 0) /\ 0 \in 0..Len(TxsOf[b])
            /\ followed = Path(b)
        BY <1>1, <1>4, <3>2, EventOf, AtEvent
      <4>2. /\ SpentAt(TxsFrom(b, 0), "node", followed) = SpentTo(b, 0)
            /\ OutputsAt(TxsFrom(b, 0), "node", followed) = OutputsTo(b, 0)
        BY <4>1, AtTxs
      <4>3. /\ SpentAt(queue, "node", followed) = SpentTo(b, 0)
            /\ OutputsAt(queue, "node", followed) = OutputsTo(b, 0)
        BY <1>1, <1>4, <3>2, AtEvent
      <4> QED
        BY <1>1, <4>1, <4>2, <4>3
    <3> QED
      BY <3>1, <3>2
  <2>4. IndexedInv'
    BY <1>1, <1>2, <2>1, <2>2, <2>3, OddOf DEF StoreInv, IndexedInv
  <2>5. BaseInv'
    BY <1>1, <1>3, <2>1 DEF StoreInv, BaseInv
  <2> QED
    BY <1>1, <2>4, <2>5 DEF StoreInv, SavedInv
<1>5. CASE IsTx
  <2>1. PICK n \in 1..Len(TxsOf[b]) :
           /\ Event.tx = TxsOf[b][n] /\ Event.block = b /\ Tail(queue) = TxsFrom(b, n)
           /\ SpentAt(queue, "node", followed) = SpentTo(b, n - 1)
           /\ OutputsAt(queue, "node", followed) = OutputsTo(b, n - 1)
           /\ SpentAt(queue, "indexer", followed) = SpentTo(b, n)
           /\ OutputsAt(queue, "indexer", followed) = OutputsTo(b, n)
    BY <1>1, <1>5, AtEvent
  <2>2. b \in Blocks /\ followed = Path(b)
    BY <1>1, <1>5, AtEvent DEF IsTx, IsRollback
  <2>3. PICK w : w = IndexerWrites(Event.tx)
    OBVIOUS
  <2>4. db' = CommitAll(db, w, Len(w)) /\ b \in applied
    BY <1>1, <1>5, <2>3 DEF IndexerHandler, StoreInv, BaseInv
  <2>5. Len(w) \in 0..Len(w) /\ applied \subseteq Blocks /\ StoreForm(db, applied)
    <3>1. PICK tx : tx = TxsOf[b][n]
      OBVIOUS
    <3>2. tx.outs \in Seq(Range(tx.outs)) /\ tx.ins \in Seq(Range(tx.ins))
      BY <2>2, <3>1, TxInBlock
    <3>3. Len(w) \in Nat
      BY <2>1, <2>3, <3>1, <3>2, IndexerWritesOf
    <3> QED
      BY <3>3 DEF StoreInv, BaseInv
  <2>6. /\ StoreForm(db', applied)
        /\ Indexed(Odd, db, applied, SpentTo(b, n - 1), OutputsTo(b, n - 1),
                   SpentTo(b, n), OutputsTo(b, n)) =>
             Indexed(Odd, db', applied, SpentTo(b, n), OutputsTo(b, n),
                     SpentTo(b, n), OutputsTo(b, n))
    <3>1. PICK x, c, t, d, e, B, m : /\ x = Odd /\ c = b /\ t = Event.tx /\ d = db
                                    /\ e = db' /\ B = applied /\ m = Len(w)
      OBVIOUS
    <3>2. /\ c \in Blocks /\ n \in 1..Len(TxsOf[c]) /\ t = TxsOf[c][n]
          /\ B \subseteq Blocks /\ c \in B /\ StoreForm(d, B)
          /\ w = IndexerWrites(t) /\ m \in 0..Len(w)
          /\ e = CommitAll(d, w, m)
      BY <2>1, <2>2, <2>3, <2>4, <2>5, <3>1
    <3>3. /\ StoreForm(e, B)
          /\ Indexed(x, d, B, SpentTo(c, n - 1), OutputsTo(c, n - 1),
                     SpentTo(c, n), OutputsTo(c, n)) =>
            /\ Indexed(x, e, B, SpentTo(c, n - 1), OutputsTo(c, n - 1),
                       SpentTo(c, n), OutputsTo(c, n))
            /\ m = Len(w) =>
                 Indexed(x, e, B, SpentTo(c, n), OutputsTo(c, n),
                         SpentTo(c, n), OutputsTo(c, n))
      BY ONLY <3>2, IndexerCommits
    <3> QED
      BY <3>1, <3>2, <3>3
  <2>7. /\ SpentAt(queue', "node", followed') = SpentTo(b, n)
        /\ OutputsAt(queue', "node", followed') = OutputsTo(b, n)
    <3>1. n \in 0..Len(TxsOf[b])
      BY <2>2, TxOf
    <3>2. /\ SpentAt(TxsFrom(b, n), "node", followed) = SpentTo(b, n)
          /\ OutputsAt(TxsFrom(b, n), "node", followed) = OutputsTo(b, n)
      BY <2>2, <3>1, AtTxs
    <3> QED
      BY <1>1, <2>1, <3>2
  <2>8. IndexedInv'
    <3>1. Indexed(Odd, db, applied, SpentTo(b, n - 1), OutputsTo(b, n - 1),
                                SpentTo(b, n), OutputsTo(b, n))
      BY <1>1, <1>2, <2>1 DEF StoreInv, IndexedInv
    <3> QED
      BY <1>1, <1>2, <2>6, <2>7, <3>1, OddOf DEF IndexedInv
  <2>9. BaseInv'
    BY <1>1, <1>3, <2>6 DEF BaseInv
  <2> QED
    BY <1>1, <2>8, <2>9 DEF StoreInv, SavedInv
<1> QED
  BY <1>4, <1>5

\* The indexer has handled a block whose events were all handled.
LEMMA BlockHandled ==
    ASSUME PipelineInv, NEW c, c \in Handled
    PROVE  /\ SpentOn(Path(c)) \subseteq SpentAt(queue, "node", followed)
           /\ OutputsOn(Path(c)) \subseteq OutputsAt(queue, "node", followed)
<1> DEFINE b == Newest(followed)
<1>1. /\ IsPath(followed) /\ followed = Path(b) /\ b \in Points /\ c \in Points
      /\ c \in ToSet(followed)
  <2>1. IsPath(followed) /\ followed = Path(b) /\ b \in Points
    BY PathOfNewest, NewestOf DEF PipelineInv, IsPath
  <2>2. c \in ToSet(followed)
    BY DEF Handled
  <2> QED
    BY <2>1, <2>2, PathNewest DEF Points
<1>2. IsPath(Path(c)) /\ Genesis \notin ToSet(Path(c))
  <2>1. IsPath(Path(c))
    BY <1>1, PathOf
  <2> QED
    BY <2>1, PathNewest, TreeAssumption
<1>3. Anc(c, b)
  BY <1>1 DEF Anc
<1>4. ASSUME NEW x \in Points, Anc(c, x)
      PROVE  /\ SpentOn(Path(c)) \subseteq SpentOn(Path(x))
             /\ OutputsOn(Path(c)) \subseteq OutputsOn(Path(x))
  <2>1. \A y : Anc(y, c) => Anc(y, x)
    BY <1>4, AncTrans
  <2>2. ToSet(Path(c)) \subseteq ToSet(Path(x))
    BY <1>2, <2>1 DEF Anc
  <2> QED
    BY <2>2, SpentMore, OutputsMore
<1>5. CASE queue = <<>> \/ IsRollback
  BY <1>1, <1>3, <1>4, <1>5, AtEvent
<1>6. CASE queue # <<>> /\ ~IsRollback
  <2>1. b \in Blocks /\ Event.block = b /\ b # Genesis
    BY <1>6, EventOf, TreeAssumption
  <2>2. c # b
    BY <1>6, <2>1 DEF Handled
  <2>3. Anc(c, Parent[b]) /\ Parent[b] \in Points
    BY <1>3, <2>1, <2>2, AncChild, PointSlots
  <2>4. /\ SpentOn(Path(c)) \subseteq SpentOn(Path(Parent[b]))
        /\ OutputsOn(Path(c)) \subseteq OutputsOn(Path(Parent[b]))
    BY <1>4, <2>3
  <2>5. /\ SpentAt(queue, "node", followed) = SpentTo(b, DoneOf(queue, "node", b))
        /\ OutputsAt(queue, "node", followed) = OutputsTo(b, DoneOf(queue, "node", b))
    BY <1>6 DEF SpentAt, OutputsAt, IsRollback, Event
  <2> QED
    BY <2>4, <2>5 DEF SpentTo, OutputsTo
<1> QED
  BY <1>5, <1>6

\* A crash between two writes, or one that leaves the database alone.
LEMMA CrashStore ==
    ASSUME PipelineInv, StoreInv, Crash
    PROVE  /\ applied' \subseteq Blocks /\ StoreForm(db', applied')
           /\ Indexed(Odd, db', applied',
                SpentAt(queue, "node", followed), OutputsAt(queue, "node", followed),
                SpentAt(queue, "node", followed), OutputsAt(queue, "node", followed))
<1> DEFINE b == Newest(followed)
           S == SpentAt(queue, "node", followed)
           O == OutputsAt(queue, "node", followed)
<1>1. up /\ applied \subseteq Blocks /\ StoreForm(db, applied)
  BY DEF Crash, StoreInv, BaseInv
<1>2. Indexed(Odd, db, applied, S, O, S, O)
  <2>1. Indexed(Odd, db, applied, S, O,
                              SpentAt(queue, SpectrumDone(stage), followed),
                              OutputsAt(queue, SpectrumDone(stage), followed))
    BY <1>1 DEF StoreInv, IndexedInv
  <2>2. /\ S \subseteq SpentAt(queue, SpectrumDone(stage), followed)
        /\ O \subseteq OutputsAt(queue, SpectrumDone(stage), followed)
    BY SpectrumAhead
  <2> HIDE DEF S, O
  <2> QED
    BY <2>1, <2>2, IndexedLess
<1>3. CASE UNCHANGED <<db, applied>>
  BY <1>1, <1>2, <1>3
<1>4. ASSUME queue # <<>>, IsTx
      PROVE  \E n \in 1..Len(TxsOf[b]) :
               /\ b \in Blocks /\ Event.tx = TxsOf[b][n] /\ Event.block = b
               /\ S = SpentTo(b, n - 1) /\ O = OutputsTo(b, n - 1)
               /\ SpentAt(queue, "indexer", followed) = SpentTo(b, n)
               /\ OutputsAt(queue, "indexer", followed) = OutputsTo(b, n)
               /\ S \subseteq SpentTo(b, n) /\ O \subseteq OutputsTo(b, n)
  <2>1. PICK n \in 1..Len(TxsOf[b]) :
           /\ Event.tx = TxsOf[b][n] /\ Event.block = b
           /\ S = SpentTo(b, n - 1) /\ O = OutputsTo(b, n - 1)
           /\ SpentAt(queue, "indexer", followed) = SpentTo(b, n)
           /\ OutputsAt(queue, "indexer", followed) = OutputsTo(b, n)
    BY <1>4, AtEvent
  <2>2. b \in Blocks
    BY <1>4, AtEvent DEF IsTx, IsRollback
  <2>3. SpentTo(b, n - 1) \subseteq SpentTo(b, n) /\ OutputsTo(b, n - 1) \subseteq OutputsTo(b, n)
    BY <2>2, SpentSteps, OutputsSteps
  <2> QED
    BY <2>1, <2>2, <2>3
<1>5. CASE AtStage("spectrum") /\ IsTx /\ CrashInStore(SpectrumWrites(Event.tx))
  <2>1. queue # <<>> /\ IsTx
    BY <1>5 DEF AtStage
  <2>2. PICK n \in 1..Len(TxsOf[b]) :
               /\ b \in Blocks /\ Event.tx = TxsOf[b][n] /\ Event.block = b
               /\ S = SpentTo(b, n - 1) /\ O = OutputsTo(b, n - 1)
               /\ S \subseteq SpentTo(b, n) /\ O \subseteq OutputsTo(b, n)
    BY <1>4, <2>1
  <2>3. PICK w : w = SpectrumWrites(Event.tx)
    OBVIOUS
  <2>4. PICK i \in 0..Len(w) : db' = CommitAll(db, w, i)
    BY <1>5, <2>3 DEF CrashInStore
  <2>5. db' # db => applied' = applied \cup {b}
    BY <1>5, <2>2 DEF CrashInStore
  <2>6. db' = db => UNCHANGED <<db, applied>>
    BY <1>5 DEF CrashInStore
  <2>7. ASSUME applied' = applied \cup {b}
        PROVE  /\ StoreForm(db', applied')
               /\ Indexed(Odd, db, applied, S, O, S, O) =>
                    Indexed(Odd, db', applied', S, O, SpentTo(b, n), O)
    <3> HIDE DEF S, O
    <3>1. /\ StoreForm(db', applied')
          /\ Indexed(Odd, db, applied, SpentTo(b, n - 1), OutputsTo(b, n - 1),
                     SpentTo(b, n - 1), OutputsTo(b, n - 1)) =>
               Indexed(Odd, db', applied', SpentTo(b, n - 1), OutputsTo(b, n - 1),
                       SpentTo(b, n), OutputsTo(b, n - 1))
      BY <1>1, <2>2, <2>3, <2>4, <2>7, SpectrumCommits
    <3> QED
      BY <2>2, <3>1
  <2>8. CASE db' # db
    <3> HIDE DEF S, O
    <3>1. Indexed(Odd, db', applied', S, O, SpentTo(b, n), O)
      BY <1>2, <2>5, <2>7, <2>8
    <3>2. Indexed(Odd, db', applied', S, O, S, O)
      BY <2>2, <3>1, IndexedLess
    <3> QED
      BY <1>1, <2>2, <2>5, <2>7, <2>8, <3>2 DEF S, O
  <2> QED
    BY <1>3, <2>6, <2>8
<1>6. CASE AtStage("indexer") /\ IsTx /\ CrashInStore(IndexerWrites(Event.tx))
  <2>1. queue # <<>> /\ IsTx /\ stage = "indexer" /\ SpectrumDone(stage) = "indexer"
    BY <1>6 DEF AtStage, SpectrumDone
  <2>2. PICK n \in 1..Len(TxsOf[b]) :
               /\ b \in Blocks /\ Event.tx = TxsOf[b][n] /\ Event.block = b
               /\ S = SpentTo(b, n - 1) /\ O = OutputsTo(b, n - 1)
               /\ SpentAt(queue, "indexer", followed) = SpentTo(b, n)
               /\ OutputsAt(queue, "indexer", followed) = OutputsTo(b, n)
               /\ S \subseteq SpentTo(b, n) /\ O \subseteq OutputsTo(b, n)
    BY <1>4, <2>1
  <2>3. PICK w : w = IndexerWrites(Event.tx)
    OBVIOUS
  <2>4. PICK i \in 0..Len(w) : db' = CommitAll(db, w, i)
    BY <1>6, <2>3 DEF CrashInStore
  <2>5. b \in applied
    BY <2>1 DEF StoreInv, BaseInv
  <2>6. applied' = applied
    <3>1. applied' = applied \/ applied' = applied \cup {b}
      BY <1>6, <2>2 DEF CrashInStore
    <3> QED
      BY <2>5, <3>1
  <2>7. Indexed(Odd, db, applied, S, O, SpentTo(b, n), OutputsTo(b, n))
    BY <1>1, <2>1, <2>2 DEF StoreInv, IndexedInv
  <2>8. /\ StoreForm(db', applied)
        /\ Indexed(Odd, db, applied, SpentTo(b, n - 1), OutputsTo(b, n - 1),
                   SpentTo(b, n), OutputsTo(b, n)) =>
             Indexed(Odd, db', applied, SpentTo(b, n - 1), OutputsTo(b, n - 1),
                     SpentTo(b, n), OutputsTo(b, n))
    BY <1>1, <2>2, <2>3, <2>4, <2>5, IndexerCommits
  <2> HIDE DEF S, O
  <2>9. Indexed(Odd, db', applied, S, O, SpentTo(b, n), OutputsTo(b, n))
    BY <2>2, <2>7, <2>8
  <2>10. Indexed(Odd, db', applied, S, O, S, O)
    BY <2>2, <2>9, IndexedLess
  <2> QED
    BY <1>1, <2>6, <2>8, <2>10 DEF S, O
<1>7. \/ UNCHANGED <<db, applied>>
      \/ AtStage("spectrum") /\ IsTx /\ CrashInStore(SpectrumWrites(Event.tx))
      \/ AtStage("indexer") /\ IsTx /\ CrashInStore(IndexerWrites(Event.tx))
  BY DEF Crash, CrashInOracle
<1> QED
  BY <1>3, <1>5, <1>6, <1>7

\* What the cursor's chain has and the indexer did not handle is excepted.
LEMMA MissedOnly ==
    ASSUME PipelineInv, missed' = missed \cup (ToSet(Path(cursor)) \ Handled)
    PROVE  /\ SpentOn(Path(cursor)) \subseteq Odd' \cup SpentAt(queue, "node", followed)
           /\ \A q \in OutputsOn(Path(cursor)) :
                 q \in OutputsAt(queue, "node", followed) \/ q.utxo \in Odd'
<1> DEFINE S == SpentAt(queue, "node", followed)
           O == OutputsAt(queue, "node", followed)
<1>1. \A b \in missed' : \A tx \in Range(TxsOf[b]) :
         Range(tx.ins) \subseteq Odd' /\ \A o \in Range(tx.outs) : o.utxo \in Odd'
  BY DEF Odd, MissedTxs
<1> HIDE DEF S, O
<1>2. ASSUME NEW c \in ToSet(Path(cursor)), NEW tx \in Range(TxsOf[c])
      PROVE  /\ Range(tx.ins) \subseteq Odd' \cup S
             /\ \A o \in Range(tx.outs) : o \in O \/ o.utxo \in Odd'
  <2>1. CASE c \in Handled
    <3>1. SpentOn(Path(c)) \subseteq S /\ OutputsOn(Path(c)) \subseteq O
      BY <2>1, BlockHandled DEF S, O
    <3>2. c \in Blocks
      BY PathOf, PathNewest DEF PipelineInv
    <3>3. c \in ToSet(Path(c))
      <4>1. c \in Points /\ c # Genesis
        BY <3>2, TreeAssumption DEF Points
      <4>2. Anc(c, c)
        BY <4>1, AncSelf
      <4> QED
        BY <4>1, <4>2 DEF Anc
    <3>4. tx \in TxsOn(Path(c))
      BY <3>3 DEF TxsOn, ToSet, Range
    <3>5. Range(tx.ins) \subseteq SpentOn(Path(c)) /\ Range(tx.outs) \subseteq OutputsOn(Path(c))
      BY <3>4 DEF SpentOn, OutputsOn, ToSet, Range
    <3> QED
      BY <3>1, <3>5
  <2>2. CASE c \notin Handled
    <3>1. c \in missed'
      BY <2>2
    <3> QED
      BY <1>1, <3>1
  <2> QED
    BY <2>1, <2>2
<1>3. \A tx \in TxsOn(Path(cursor)) : \E c \in ToSet(Path(cursor)) : tx \in Range(TxsOf[c])
  BY DEF TxsOn, ToSet, Range
<1>4. SpentOn(Path(cursor)) \subseteq Odd' \cup S
  BY <1>2, <1>3 DEF SpentOn, ToSet, Range
<1>5. \A q \in OutputsOn(Path(cursor)) : q \in O \/ q.utxo \in Odd'
  BY <1>2, <1>3 DEF OutputsOn, ToSet, Range
<1> QED
  BY <1>4, <1>5 DEF S, O

\* The end of the process: the database has what the chain of the cursor left.
LEMMA EndStore ==
    ASSUME PipelineInv, StoreInv,
           RollbackFails("synthetics") \/ RollbackFails("lending") \/ Crash
    PROVE  StoreInv'
<1> DEFINE S == SpentAt(queue, "node", followed)
           O == OutputsAt(queue, "node", followed)
           s == SpentOn(Path(cursor))
           o == OutputsOn(Path(cursor))
<1>1. up /\ ProcessEnds /\ cursor' = cursor
  BY DEF RollbackFails, Crash, AtStage
<1>2. /\ up' = FALSE /\ queue' = <<>>
      /\ missed' = missed \cup (ToSet(Path(cursor)) \ Handled)
  BY <1>1 DEF ProcessEnds
<1>3. /\ applied' \subseteq Blocks /\ StoreForm(db', applied')
      /\ Indexed(Odd, db', applied', S, O, S, O)
  <2>1. CASE Crash
    BY <2>1, CrashStore
  <2>2. CASE RollbackFails("synthetics") \/ RollbackFails("lending")
    <3>1. UNCHANGED <<db, applied>>
      BY <2>2 DEF RollbackFails
    <3>2. Indexed(Odd, db, applied, S, O,
                                SpentAt(queue, SpectrumDone(stage), followed),
                                OutputsAt(queue, SpectrumDone(stage), followed))
      BY <1>1 DEF StoreInv, IndexedInv
    <3>3. /\ S \subseteq SpentAt(queue, SpectrumDone(stage), followed)
          /\ O \subseteq OutputsAt(queue, SpectrumDone(stage), followed)
      BY SpectrumAhead
    <3> HIDE DEF S, O
    <3>4. Indexed(Odd, db, applied, S, O, S, O)
      BY <3>2, <3>3, IndexedLess
    <3> QED
      BY <3>1, <3>4 DEF StoreInv, BaseInv
  <2> QED
    BY <2>1, <2>2
<1>4. Indexed(Odd', db', applied', s, o, s, o)
  <2>1. Odd \subseteq Odd'
    BY <1>2, OddOf
  <2>2. s \subseteq Odd' \cup S /\ \A q \in o : q \in O \/ q.utxo \in Odd'
    BY <1>2, MissedOnly
  <2> HIDE DEF S, O, s, o
  <2> QED
    BY <1>3, <2>1, <2>2, IndexedLess
<1>5. SavedInv'
  BY <1>1, <1>4 DEF SavedInv
<1> QED
  BY <1>2, <1>3, <1>5 DEF StoreInv, BaseInv, IndexedInv

\* The next start.
LEMMA StartStore ==
    ASSUME PipelineInv, StoreInv, NEW loaded \in BOOLEAN, Restart(loaded)
    PROVE  StoreInv'
<1>1. /\ ~up /\ up' /\ followed' = Path(cursor) /\ queue' = <<RollbackTo(cursor)>>
      /\ UNCHANGED <<db, applied, missed>>
  BY DEF Restart
<1>2. queue' # <<>> /\ Head(queue').type = "rollback"
  BY <1>1 DEF RollbackTo
<1>3. \A st : /\ SpentAt(queue', st, followed') = SpentOn(Path(cursor))
              /\ OutputsAt(queue', st, followed') = OutputsOn(Path(cursor))
  BY <1>1, <1>2 DEF SpentAt, OutputsAt
<1>4. IndexedInv'
  BY <1>1, <1>3, OddOf DEF StoreInv, SavedInv, IndexedInv
<1>5. BaseInv'
  BY <1>1, <1>2 DEF StoreInv, BaseInv, IsTx, Event
<1> QED
  BY <1>1, <1>4, <1>5 DEF StoreInv, SavedInv

\* Every step keeps the database in order.
LEMMA StoreNext ==
    ASSUME PipelineInv, StoreInv, [Next]_vars
    PROVE  StoreInv'
<1>1. ASSUME \/ UNCHANGED vars \/ UpdateCursor \/ NodeHandler \/ ServePeers
             \/ \E it \in Item : Arrives(it)
             \/ OracleHandler("synthetics", "lending")
             \/ OracleHandler("lending", "indexer")
             \/ OracleWriteFails("synthetics", "lending")
             \/ OracleWriteFails("lending", "indexer")
      PROVE  StoreInv'
  <2>1. /\ UNCHANGED <<up, followed, queue, db, applied, missed>>
        /\ up \/ UNCHANGED cursor
    BY <1>1 DEF vars, chainVars, storeVars, pastVars, UpdateCursor, NodeHandler, ServePeers,
                OracleHandler, OracleWriteFails, AtStage, Continue, Arrives, Receive
  <2>2. SpectrumDone(stage') = SpectrumDone(stage)
    <3>1. CASE UNCHANGED vars \/ UpdateCursor \/ ServePeers \/ \E it \in Item : Arrives(it)
      <4>1. stage' = stage
        BY <3>1 DEF vars, chainVars, UpdateCursor, ServePeers, Arrives, Receive
      <4> QED
        BY <4>1 DEF SpectrumDone
    <3>2. CASE NodeHandler
      BY <3>2 DEF NodeHandler, AtStage, Continue, SpectrumDone
    <3>3. ASSUME NEW s \in {"synthetics", "lending"}, NEW n \in {"lending", "indexer"},
                 OracleHandler(s, n) \/ OracleWriteFails(s, n)
          PROVE  SpectrumDone(stage') = SpectrumDone(stage)
      <4>1. stage = s /\ stage' = n
        BY <3>3 DEF OracleHandler, OracleWriteFails, AtStage, Continue
      <4> QED
        BY <4>1 DEF SpectrumDone
    <3> QED
      BY <1>1, <3>1, <3>2, <3>3
  <2> QED
    BY <2>1, <2>2, StillStore
<1>2. CASE RollbackFails("synthetics") \/ RollbackFails("lending") \/ Crash
  BY <1>2, EndStore
<1>3. ASSUME NEW loaded \in BOOLEAN, Restart(loaded) PROVE StoreInv'
  BY <1>3, StartStore
<1>4. ASSUME NEW b \in Blocks, RollForward(b) PROVE StoreInv'
  BY <1>4, ForwardStore
<1>5. ASSUME NEW k \in 0..Len(followed), RollBackward(k) PROVE StoreInv'
  BY <1>5, BackwardStore
<1>6. CASE SpectrumHandler
  BY <1>6, SpectrumStore
<1>7. CASE IndexerHandler
  BY <1>7, IndexerStore
<1>8. \/ UNCHANGED vars \/ UpdateCursor \/ NodeHandler \/ ServePeers
      \/ \E it \in Item : Arrives(it)
      \/ OracleHandler("synthetics", "lending")
      \/ OracleHandler("lending", "indexer")
      \/ OracleWriteFails("synthetics", "lending")
      \/ OracleWriteFails("lending", "indexer")
      \/ RollbackFails("synthetics") \/ RollbackFails("lending") \/ Crash
      \/ \E loaded \in BOOLEAN : Restart(loaded)
      \/ \E b \in Blocks : RollForward(b)
      \/ \E k \in 0..Len(followed) : RollBackward(k)
      \/ SpectrumHandler \/ IndexerHandler
  BY ArrivesIf DEF Next
<1> QED
  BY <1>1, <1>2, <1>3, <1>4, <1>5, <1>6, <1>7, <1>8

\* It is in order at first.
LEMMA StoreInit == Init => StoreInv
<1> SUFFICES ASSUME Init PROVE StoreInv
  OBVIOUS
<1>1. /\ up /\ db = EmptyStore /\ applied = {} /\ followed = <<>>
      /\ queue = <<RollbackTo(Genesis)>>
  BY DEF Init
<1>2. queue # <<>> /\ Head(queue).type = "rollback"
  BY <1>1 DEF RollbackTo
<1>3. /\ db.address = <<>> /\ DOMAIN db.address = {} /\ DOMAIN db.list = {}
      /\ db = [address |-> db.address, list |-> db.list, asset |-> db.asset]
  BY <1>1 DEF EmptyStore
<1>4. StoreForm(db, applied)
  <2>1. \A a : ToSet(ListOf(db, a)) = {}
    BY <1>3 DEF ListOf, ToSet
  <2> QED
    BY <1>3, <2>1 DEF StoreForm
<1>5. SpentOn(followed) = {} /\ OutputsOn(followed) = {}
  <2>1. TxsOn(followed) = {}
    BY <1>1 DEF TxsOn, ToSet
  <2> QED
    BY <2>1 DEF SpentOn, OutputsOn
<1>6. \A st : SpentAt(queue, st, followed) = {} /\ OutputsAt(queue, st, followed) = {}
  BY <1>2, <1>5 DEF SpentAt, OutputsAt
<1>7. IndexedInv
  BY <1>6 DEF IndexedInv, Indexed, WalletKept, PoolsKept
<1> QED
  BY <1>1, <1>2, <1>4, <1>7 DEF StoreInv, BaseInv, SavedInv, IsTx, Event

\* Once the events are handled and what was applied is on the chain, a
\* database in order has what is unspent.
LEMMA StoreAgrees ==
    ASSUME PipelineInv, StoreInv, Idle, applied \subseteq ToSet(followed)
    PROVE  /\ DOMAIN db.address \ Odd = UnspentAt({Wallet} \cup Pools, followed) \ Odd
           /\ ToSet(GetUtxos(db, Wallet)) \ Odd = UnspentAt({Wallet}, followed) \ Odd
           /\ UnspentAt({Wallet}, followed) \ Odd # {} => ~GetUtxosFails(db, Wallet)
           /\ \A o \in OutputsOn(followed) :
                 o.utxo \in UnspentAt(Pools, followed) \ Odd =>
                    ~GetAssetUtxoFails(db, o.nft) /\ GetAssetUtxo(db, o.nft) = o.utxo
<1> DEFINE A == db.address
           Outs == OutputsOn(followed)
           Spent == SpentOn(followed)
<1>1. up /\ queue = <<>>
  BY DEF Idle
<1>2. /\ DOMAIN A \cap Spent \subseteq Odd
      /\ \A o \in Outs : o.address = Wallet =>
            o.utxo \in DOMAIN A \cup Odd \cup SpentIn(applied)
      /\ \A o \in Outs : o.address \in Pools =>
            \/ /\ o.utxo \in DOMAIN A
               /\ o.nft \in DOMAIN db.asset /\ db.asset[o.nft] = o.utxo
            \/ o.utxo \in Odd \cup SpentIn(applied)
  <2>1. \A st : SpentAt(queue, st, followed) = Spent /\ OutputsAt(queue, st, followed) = Outs
    BY <1>1 DEF SpentAt, OutputsAt
  <2>2. Indexed(Odd, db, applied, Spent, Outs, Spent, Outs)
    BY <1>1, <2>1 DEF StoreInv, IndexedInv
  <2> HIDE DEF A, Outs, Spent
  <2> QED
    BY <2>2 DEF Indexed, WalletKept, PoolsKept, A
<1>3. SpentIn(applied) \subseteq Spent /\ OutputsIn(applied) \subseteq Outs
  <2>1. UNION {Range(TxsOf[b]) : b \in applied} \subseteq TxsOn(followed)
    BY DEF TxsOn, ToSet, Range
  <2> QED
    BY <2>1 DEF SpentIn, SpentOn, OutputsIn, OutputsOn, ToSet, Range
<1>4. Outs \subseteq OutputsIn(Blocks)
  <2>1. ToSet(followed) \subseteq Blocks
    BY PathNewest DEF PipelineInv
  <2>2. TxsOn(followed) \subseteq UNION {Range(TxsOf[b]) : b \in Blocks}
    BY <2>1 DEF TxsOn, ToSet, Range
  <2> QED
    BY <2>2 DEF OutputsIn, OutputsOn, ToSet, Range
<1>5. /\ \A u \in DOMAIN A : \E o \in Outs :
            o.utxo = u /\ o.address = A[u] /\ o.address \in Kept
      /\ ToSet(ListOf(db, Wallet)) = {u \in DOMAIN A : A[u] = Wallet}
  <2>1. Wallet \in Kept
    BY DEF Kept
  <2> HIDE DEF Outs
  <2> QED
    BY <1>3, <2>1 DEF StoreInv, BaseInv, StoreForm
<1>6. ASSUME NEW o \in Outs, NEW p \in Outs, o.utxo = p.utxo PROVE o = p
  BY <1>4, <1>6, OneOutput
<1>7. \A a : UnspentAt(a, followed) =
               {o.utxo : o \in {p \in Outs : p.address \in a /\ p.utxo \notin Spent}}
  BY DEF UnspentAt
<1> HIDE DEF A, Outs, Spent
<1>8. ASSUME NEW a, NEW u
      PROVE  u \in UnspentAt(a, followed) <=>
               \E o \in Outs : o.address \in a /\ o.utxo \notin Spent /\ u = o.utxo
  BY <1>7
<1>9. \A u : u \in DOMAIN A \ Odd <=> u \in UnspentAt(Kept, followed) \ Odd
  <2>1. ASSUME NEW u \in DOMAIN A, u \notin Odd PROVE u \in UnspentAt(Kept, followed)
    BY <1>2, <1>5, <1>8, <2>1
  <2>2. ASSUME NEW o \in Outs, o.address \in Kept, o.utxo \notin Spent, o.utxo \notin Odd
        PROVE  o.utxo \in DOMAIN A
    BY <1>2, <1>3, <2>2 DEF Kept
  <2> QED
    BY <1>8, <2>1, <2>2
<1>10. DOMAIN A \ Odd = UnspentAt(Kept, followed) \ Odd
  BY <1>9
<1>11. \A u : u \in ToSet(ListOf(db, Wallet)) \ Odd
                <=> u \in UnspentAt({Wallet}, followed) \ Odd
  <2>1. ASSUME NEW u \in DOMAIN A, A[u] = Wallet, u \notin Odd
        PROVE  u \in UnspentAt({Wallet}, followed)
    BY <1>2, <1>5, <1>8, <2>1
  <2>2. ASSUME NEW o \in Outs, o.address = Wallet, o.utxo \notin Spent, o.utxo \notin Odd
        PROVE  o.utxo \in DOMAIN A /\ A[o.utxo] = Wallet
    <3>1. o.utxo \in DOMAIN A
      BY <1>2, <1>3, <2>2
    <3>2. PICK p \in Outs : p.utxo = o.utxo /\ p.address = A[o.utxo]
      BY <1>5, <3>1
    <3> QED
      BY <1>6, <2>2, <3>1, <3>2
  <2> QED
    BY <1>5, <1>8, <2>1, <2>2
<1>12. ToSet(ListOf(db, Wallet)) \ Odd = UnspentAt({Wallet}, followed) \ Odd
  BY <1>11
<1>13. ASSUME UnspentAt({Wallet}, followed) \ Odd # {} PROVE ~GetUtxosFails(db, Wallet)
  <2>1. ToSet(<<>>) = {}
    BY DEF ToSet
  <2>2. ListOf(db, Wallet) # <<>>
    BY <1>12, <1>13, <2>1
  <2>3. Range(ListOf(db, Wallet)) \subseteq DOMAIN A
    <3>1. Range(ListOf(db, Wallet)) = ToSet(ListOf(db, Wallet))
      BY DEF Range, ToSet
    <3> QED
      BY <1>5, <3>1
  <2> QED
    BY <2>2, <2>3 DEF GetUtxosFails, A
<1>14. ASSUME NEW o \in Outs, o.utxo \in UnspentAt(Pools, followed), o.utxo \notin Odd
       PROVE  ~GetAssetUtxoFails(db, o.nft) /\ GetAssetUtxo(db, o.nft) = o.utxo
  <2>1. PICK p \in Outs : p.address \in Pools /\ p.utxo \notin Spent /\ o.utxo = p.utxo
    BY <1>8, <1>14
  <2>2. o.address \in Pools /\ o.utxo \notin Odd \cup SpentIn(applied)
    BY <1>3, <1>6, <1>14, <2>1
  <2>3. o.utxo \in DOMAIN A /\ o.nft \in DOMAIN db.asset /\ db.asset[o.nft] = o.utxo
    BY <1>2, <2>2
  <2> QED
    BY <2>3 DEF GetAssetUtxoFails, GetAssetUtxo, A
<1> QED
  BY <1>10, <1>12, <1>13, <1>14 DEF Kept, GetUtxos, A, Outs

\* Once the events are handled and every block ever applied is on the followed
\* chain, the database holds exactly the unspent outputs of the wallet and of
\* the pools, lists the wallet's and leads from a pool's NFT to its output,
\* after any crashes between two writes, redeliveries and rollbacks, but for
\* the inputs and outputs of the blocks no handler saw because the stored
\* cursor was past them when the process ended.
THEOREM StoreIsLedgerHolds == Spec => []StoreIsLedger
<1>1. Init => PipelineInv /\ StoreInv
  BY PeerInvInit, StoreInit
<1>2. PipelineInv /\ StoreInv /\ [Next]_vars => (PipelineInv /\ StoreInv)'
  BY PipelineNext, StoreNext
<1>3. PipelineInv /\ StoreInv => StoreIsLedger
  BY StoreAgrees DEF StoreIsLedger
<1> QED
  BY <1>1, <1>2, <1>3, PTL DEF Spec

=============================================================================
