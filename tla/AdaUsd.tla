------------------------------- MODULE AdaUsd -------------------------------
(***************************************************************************)
(* The ADA/USD price (price/ada_usd.go): the liquidity-weighted median of  *)
(* the ADA/stablecoin pools, and its cross-check with a Djed observation   *)
(* (price/agreement.go).                                                   *)
(*                                                                         *)
(* A pool state has its pool (network, protocol and id), chain position,   *)
(* reserves, and the coin on the other side of ADA, which is NoAda for a   *)
(* pool without ADA.  Prices are fractions <<numerator, denominator>>.     *)
(***************************************************************************)
EXTENDS Integers, Sequences, FiniteSets, SequencesExt, DjedOracle, Sums

CONSTANTS
    Decimals,                       \* [configured stablecoins -> decimals]
    NoAda,
    MicrosDecimals, MaxUsdWord,     \* 6 and 2^64 - 1
    MinADAReserve, MinStableUSD, MinObservations, MinStablecoins,    \* Config
    MaxPoolShare, MaxDivergence,    \* fractions
    MinSwapCount, MinStableVolume,  \* ActivityConfig
    CrossLimit                      \* CrossSourceConfig, a fraction

Stablecoins == DOMAIN Decimals

-----------------------------------------------------------------------------
(* Fractions: math/big.Rat, in lowest terms.                               *)

Gcd(m, n) ==
    LET gcd[i \in 0..n] == [x \in Nat |-> IF i = 0 THEN x ELSE gcd[x % i][i]]
    IN  gcd[n][m]
Frac(num, den) == LET g == Gcd(num, den) IN <<num \div g, den \div g>>

Below(p, q) == p[1] * q[2] < q[1] * p[2]
AtMost(p, q) == ~Below(q, p)
SamePrice(p, q) == p[1] * q[2] = q[1] * p[2]
Midpoint(p, q) == Frac(p[1] * q[2] + q[1] * p[2], 2 * p[2] * q[2])
\* (high - low) / low
Spread(low, high) == Frac(high[1] * low[2] - low[1] * high[2], high[2] * low[1])

Pow10(n) ==
    LET power[i \in 0..n] == IF i = 0 THEN 1 ELSE 10 * power[i - 1]
    IN  power[n]

ValidateConfig ==
    /\ Stablecoins # {}
    /\ MinObservations >= 1 /\ MinStablecoins >= 1
    /\ Below(<<0, 1>>, MaxPoolShare) /\ AtMost(MaxPoolShare, <<1, 1>>)
    /\ AtMost(<<0, 1>>, MaxDivergence)

-----------------------------------------------------------------------------
(* From pool states to observations.                                       *)

Overflows == -1

NormalizeToMicros(amount, decimals) ==
    LET factor == Pow10(IF decimals <= MicrosDecimals THEN MicrosDecimals - decimals
                        ELSE decimals - MicrosDecimals)
    IN  IF factor > MaxUsdWord THEN Overflows
        ELSE IF decimals > MicrosDecimals THEN amount \div factor
        ELSE IF amount * factor > MaxUsdWord THEN Overflows
        ELSE amount * factor

IsNewer(p, q) ==
    \/ p.slot > q.slot
    \/ p.slot = q.slot /\ p.txIndex > q.txIndex
    \/ p.slot = q.slot /\ p.txIndex = q.txIndex /\ p.txHash > q.txHash

\* The newest state of each pool among the states of a list that are to be
\* used, pending ones left out (IncludeMempool is not set).
Keep(kept, p) ==
    IF p.fromMempool \/ \E q \in kept : q.pool = p.pool /\ ~IsNewer(p, q)
    THEN kept
    ELSE {q \in kept : q.pool # p.pool} \cup {p}
LatestStates(pools, used) ==
    LET kept[i \in 0..Len(pools)] ==
          IF i = 0 THEN {}
          ELSE IF pools[i] \in used THEN Keep(kept[i - 1], pools[i])
          ELSE kept[i - 1]
    IN  kept[Len(pools)]

Qualifies(p) ==
    /\ p.coin \in Stablecoins
    /\ p.ada > 0 /\ p.stable > 0 /\ p.ada >= MinADAReserve
    /\ LET micros == NormalizeToMicros(p.stable, Decimals[p.coin])
       IN  micros # Overflows /\ micros >= MinStableUSD

ObservationFromPool(p) ==
    [pool |-> p.pool, coin |-> p.coin,
     weight |-> NormalizeToMicros(p.stable, Decimals[p.coin]),
     price |-> Frac(p.stable * Pow10(MicrosDecimals), p.ada * Pow10(Decimals[p.coin]))]

ObservationsFromPools(pools, used) ==
    {ObservationFromPool(p) : p \in {q \in LatestStates(pools, used) : Qualifies(q)}}

-----------------------------------------------------------------------------
(* The median.                                                             *)

\* By rising price.
ByPrice(obs) ==
    CHOOSE s \in [1..Cardinality(obs) -> obs] :
       /\ \A o \in obs : \E i \in DOMAIN s : s[i] = o
       /\ \A i, j \in DOMAIN s : i < j => AtMost(s[i].price, s[j].price)

\* The weight of some of the observations, and of all.
WeightOf(some, obs) ==
    LET s == ByPrice(obs)
    IN  SumTo(Len(s), [i \in 1..Len(s) |-> IF s[i] \in some THEN s[i].weight ELSE 0])
Weight(obs) == WeightOf(obs, obs)

\* What has no weight is passed over.
NextWeighty(s, i) ==
    CHOOSE j \in (i + 1)..Len(s) :
       s[j].weight > 0 /\ \A k \in (i + 1)..(j - 1) : s[k].weight = 0

\* The first position with as much weight up to it as remains.
MedianIndex(s) ==
    LET upTo(i) == SumTo(i, [j \in 1..Len(s) |-> s[j].weight])
        IsHalf(i) == s[i].weight > 0 /\ upTo(i) >= upTo(Len(s)) - upTo(i)
    IN  CHOOSE i \in 1..Len(s) : IsHalf(i) /\ \A j \in 1..(i - 1) : ~IsHalf(j)

LiquidityWeightedMedian_low(obs) ==    \* mutant: an even split takes one side
    LET s == ByPrice(obs)
    IN  s[MedianIndex(s)].price
LiquidityWeightedMedian(obs) ==
    LET s == ByPrice(obs)
        i == MedianIndex(s)
        upTo == SumTo(i, [j \in 1..Len(s) |-> s[j].weight])
    IN  IF upTo > Weight(obs) - upTo THEN s[i].price
        ELSE Midpoint(s[i].price, s[NextWeighty(s, i)].price)

NoPrice == <<0, 1>>
Failed(reason) == [validation |-> reason, price |-> NoPrice]

Cheapest(obs) == CHOOSE p \in {o.price : o \in obs} : \A o \in obs : AtMost(p, o.price)
Dearest(obs) == CHOOSE p \in {o.price : o \in obs} : \A o \in obs : AtMost(o.price, p)

\* AggregateADAUSDAt
Aggregate(pools, used) ==
    LET obs == ObservationsFromPools(pools, used)
    IN  IF ~ValidateConfig THEN Failed("invalid_config")
        ELSE IF Cardinality(obs) < MinObservations
        THEN Failed("insufficient_observations")
        ELSE IF Cardinality({o.coin : o \in obs}) < MinStablecoins
        THEN Failed("insufficient_diversity")
        ELSE IF Weight(obs) > MaxUsdWord THEN Failed("overflow")
        ELSE IF Weight(obs) = 0 THEN Failed("insufficient_observations")
        ELSE IF \E o \in obs : Below(MaxPoolShare, <<o.weight, Weight(obs)>>)
        THEN Failed("concentrated")
        ELSE IF Below(MaxDivergence, Spread(Cheapest(obs), Dearest(obs)))
        THEN Failed("divergent")
        ELSE [validation |-> "qualified",
              price |-> LiquidityWeightedMedian(obs)]

-----------------------------------------------------------------------------
(* Confirmed activity.                                                     *)

\* stableVolumeMicros; Overflows stands for ErrInvalidPoolActivity.
StableVolumeMicros(p, v) ==
    IF v.windowSlots = 0 \/ v.windowEnd < p.slot \/ p.coin \notin Stablecoins
    THEN Overflows
    ELSE NormalizeToMicros(v.stable, Decimals[p.coin])

\* AggregateADAUSDWithActivityAt: volumes is a set, one for each pool.
AggregateWithActivity(pools, volumes) ==
    LET VolumesOf(p) == {v \in volumes : v.pool = p.pool}
        IsInvalid(p) ==
          \E v \in VolumesOf(p) : StableVolumeMicros(p, v) = Overflows
        IsActive(p) ==
          \E v \in VolumesOf(p) : /\ StableVolumeMicros(p, v) >= MinStableVolume
                                  /\ v.swapCount >= MinSwapCount
    IN  IF MinSwapCount = 0 \/ MinStableVolume = 0
        THEN Failed("invalid_activity_config")
        ELSE IF \E v, w \in volumes : v # w /\ v.pool = w.pool
        THEN Failed("invalid_activity")
        ELSE IF \E i \in DOMAIN pools : IsInvalid(pools[i])
        THEN Failed("invalid_activity")
        ELSE Aggregate(pools, {p \in Range(pools) : IsActive(p)})

-----------------------------------------------------------------------------
(* The cross-check; a Djed observation is a datum with a price.            *)

CrossSourceLimitIsValid == CrossLimit[2] > 0
QualifiedDEXPrice(result) ==
    result.validation = "qualified" /\ Below(<<0, 1>>, result.price)
ValidDjedPrice(d, t) ==
    /\ d.price[1] > 0 /\ d.price[2] > 0
    /\ ValidateInterval(d, t) = "valid"

CrossValidate(result, d, t) ==
    LET low == IF Below(d.price, result.price) THEN d.price ELSE result.price
        high == IF Below(d.price, result.price) THEN result.price ELSE d.price
    IN  IF ~CrossSourceLimitIsValid THEN Failed("invalid_config")
        ELSE IF ~QualifiedDEXPrice(result) THEN Failed("unqualified_dex")
        ELSE IF ~ValidDjedPrice(d, t) THEN Failed("invalid_djed")
        ELSE IF Below(CrossLimit, Spread(low, high)) THEN Failed("divergent")
        ELSE [validation |-> "qualified",
              price |-> Midpoint(result.price, d.price)]

-----------------------------------------------------------------------------
(* Requests.                                                               *)

CONSTANTS PoolLists, VolumeSets, DjedPrices, AskedAt

IsPoolState(p) ==
    /\ {p.slot, p.txIndex, p.txHash, p.ada, p.stable} \subseteq Nat
    /\ p.fromMempool \in BOOLEAN
IsVolume(v) == {v.stable, v.swapCount, v.windowEnd, v.windowSlots} \subseteq Nat

\* A place on the chain has one state of a pool.
OnePerPlace(pools) ==
    \A p, q \in Range(pools) :
       /\ p.pool = q.pool /\ ~p.fromMempool /\ ~q.fromMempool
       /\ <<p.slot, p.txIndex, p.txHash>> = <<q.slot, q.txIndex, q.txHash>>
       => p = q

ASSUME AdaUsdAssumption ==
    /\ \A coin \in Stablecoins : Decimals[coin] \in Nat
    /\ {MicrosDecimals, MaxUsdWord, MinADAReserve, MinStableUSD} \subseteq Nat
    /\ {MinSwapCount, MinStableVolume} \subseteq Nat
    /\ {MinObservations, MinStablecoins} \subseteq Int
    /\ MaxDivergence \in Int \X (Nat \ {0})
    /\ \A pools \in PoolLists : /\ pools \in Seq(Range(pools)) /\ OnePerPlace(pools)
                                 /\ \A p \in Range(pools) : IsPoolState(p)
    /\ \A volumes \in VolumeSets : \A v \in volumes : IsVolume(v)
    /\ \A d \in DjedPrices : d.price \in Int \X Int

VARIABLE asked    \* the input and the results of a request

NotAsked == [pools |-> <<>>, volumes |-> {}]
AdaUsdInit == asked = NotAsked

\* HandleADAUSDPrice, and the calls of the two variants.
AskAdaUsd(pools, volumes) ==
    asked' = [pools |-> pools, volumes |-> volumes,
              plain |-> Aggregate(pools, Range(pools)),
              active |-> AggregateWithActivity(pools, volumes),
              crossed |-> [d \in DjedPrices |->
                             CrossValidate(Aggregate(pools, Range(pools)), d, AskedAt)]]

AdaUsdNext ==
    /\ asked = NotAsked
    /\ \E pools \in PoolLists, volumes \in VolumeSets : AskAdaUsd(pools, volumes)

-----------------------------------------------------------------------------
(* The reference: what a result is worth.                                  *)

\* Of some states, the confirmed ones that no other supersedes.
NewestStates(states) ==
    {p \in states : /\ ~p.fromMempool
                    /\ \A q \in states : ~q.fromMempool /\ q.pool = p.pool => ~IsNewer(q, p)}

\* The middle of the prices that have half the weight on either side.
MiddlePrice(obs) ==
    LET total == Weight(obs)
        prices == {o.price : o \in {x \in obs : x.weight > 0}}
        lower == {p \in prices : 2 * WeightOf({o \in obs : AtMost(o.price, p)}, obs) >= total}
        upper == {p \in prices : 2 * WeightOf({o \in obs : AtMost(p, o.price)}, obs) >= total}
        least == CHOOSE p \in lower : \A q \in lower : AtMost(p, q)
        most == CHOOSE p \in upper : \A q \in upper : AtMost(q, p)
    IN  Midpoint(least, most)

\* A qualified price is the middle of the newest confirmed pool states, which
\* are many and diverse enough, none of them too large a share, and any two of
\* them close; those of the activity check have the volume.  A cross-checked
\* price lies between its two sources, which are close.
IsSound(result, states) ==
    LET obs == {ObservationFromPool(p) : p \in {q \in NewestStates(states) : Qualifies(q)}}
    IN  result.validation = "qualified" =>
          /\ SamePrice(result.price, MiddlePrice(obs))
          /\ Cardinality(obs) >= MinObservations
          /\ Cardinality({o.coin : o \in obs}) >= MinStablecoins
          /\ Weight(obs) <= MaxUsdWord
          /\ \A o \in obs : /\ AtMost(<<o.weight, Weight(obs)>>, MaxPoolShare)
                            /\ \A x \in obs :
                                  AtMost(o.price, x.price)
                                  => AtMost(Spread(o.price, x.price), MaxDivergence)

IsActiveEnough(p) ==
    /\ p.coin \in Stablecoins
    /\ \E v \in asked.volumes :
       /\ v.pool = p.pool /\ v.swapCount >= MinSwapCount
       /\ v.windowEnd >= p.slot
       /\ NormalizeToMicros(v.stable, Decimals[p.coin]) >= MinStableVolume

\* What a request returns is sound, see IsSound, and is the same for every
\* order of the pool states.
AggregateIsMedian ==
    asked # NotAsked =>
      /\ IsSound(asked.plain, Range(asked.pools))
      /\ IsSound(asked.active, {p \in Range(asked.pools) : IsActiveEnough(p)})
      /\ LET n == Len(asked.pools)
             orders == {f \in [1..n -> 1..n] : \A i, j \in 1..n : f[i] = f[j] => i = j}
         IN  \A f \in orders :
                LET pools == [i \in 1..n |-> asked.pools[f[i]]]
                    again == Aggregate(pools, Range(pools))
                IN  /\ again.validation = asked.plain.validation
                    /\ SamePrice(again.price, asked.plain.price)
      /\ \A d \in DjedPrices :
            asked.crossed[d].validation = "qualified" =>
              LET p == asked.plain.price
                  m == asked.crossed[d].price
              IN  /\ asked.plain.validation = "qualified"
                  /\ AtMost(p, m) <=> AtMost(m, d.price)
                  /\ Below(p, d.price) => AtMost(Spread(p, d.price), CrossLimit)
                  /\ Below(d.price, p) => AtMost(Spread(d.price, p), CrossLimit)
                  /\ ValidateInterval(d, AskedAt) = "valid"
=============================================================================
