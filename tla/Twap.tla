-------------------------------- MODULE Twap --------------------------------
(***************************************************************************)
(* The TWAP engine (price/twap.go) and its snapshot in storage             *)
(* (storage/twap.go).  A caller observes prices along the chain, rolls the *)
(* engine back with the chain and saves it; a restart begins with the last *)
(* snapshot.                                                               *)
(*                                                                         *)
(* An observation has a slot, the time at, and a price; an average is      *)
(* given by its numerator, over the coverage.                              *)
(***************************************************************************)
EXTENDS Integers, Sequences, SequencesExt, Sums

CONSTANTS
    Window, MinCoverage, MaxStaleness, MaxObservations,    \* TWAPConfig
    TwapSlots, TwapPrices, Clock,    \* slots, prices, times to ask at
    MaxLag                           \* between a slot and its observation

ASSUME TwapAssumption ==
    /\ Window \in Nat \ {0} /\ MinCoverage \in 1..Window
    /\ MaxStaleness \in Nat /\ MaxObservations \in Nat \ {0}
    /\ TwapSlots \subseteq Nat /\ TwapPrices \subseteq Int /\ Clock \subseteq Int /\ MaxLag \in Nat

VARIABLES
    observations, historyPruned,    \* TWAPEngine
    snapshot,                       \* the saved TWAPState
    log, savedLog,                  \* history: every observation on the chain
    rewound                         \* history: observations were rolled back

twapVars == <<observations, historyPruned, snapshot, log, savedLog, rewound>>

TwapInit ==
    /\ observations = <<>> /\ historyPruned = FALSE
    /\ snapshot = [observations |-> <<>>, pruned |-> FALSE]
    /\ log = <<>> /\ savedLog = <<>> /\ rewound = FALSE

-----------------------------------------------------------------------------
\* Of some indexes: how many they are from the first without a gap, the end of
\* a loop from the front; and the last, the end of a loop from the back.
Leading(indexes) ==
    CHOOSE k \in indexes \cup {0} : 1..k \subseteq indexes /\ k + 1 \notin indexes
LastOne(indexes) == CHOOSE k \in indexes \cup {0} : \A i \in indexes : i <= k

LatestAt(t, obs) == LastOne({i \in DOMAIN obs : obs[i].at <= t})
UntilTime(t, obs) == SubSeq(obs, 1, LatestAt(t, obs))
UntilSlot(s, obs) == SubSeq(obs, 1, LastOne({i \in DOMAIN obs : obs[i].slot <= s}))
From(i, obs) == SubSeq(obs, i, Len(obs))

\* How many observations prune drops: those before the last one that is not
\* later than the window's start, and the oldest beyond MaxObservations.
PruneCount_all(obs) ==    \* mutant: the anchor of the window is dropped too
    LET old == Leading({i \in DOMAIN obs : obs[i].at <= Last(obs).at - Window})
    IN  IF Len(obs) - old > MaxObservations THEN Len(obs) - MaxObservations
        ELSE old
PruneCount(obs) ==
    LET old == Leading({i \in DOMAIN obs : obs[i].at <= Last(obs).at - Window})
        keepFrom == IF old > 0 THEN old - 1 ELSE 0
    IN  IF Len(obs) - keepFrom > MaxObservations THEN Len(obs) - MaxObservations
        ELSE keepFrom

InOrder(obs, o) ==
    obs # <<>> => o.slot > Last(obs).slot /\ o.at > Last(obs).at

Pruned(obs) == From(PruneCount(obs) + 1, obs)

Observe(slot, at, price) ==
    LET o == [slot |-> slot, at |-> at, price |-> price]
        all == Append(observations, o)
    IN  /\ InOrder(observations, o)
        /\ observations' = Pruned(all)
        /\ historyPruned' = (historyPruned \/ PruneCount(all) > 0)
        /\ log' = Append(log, o)
        /\ UNCHANGED <<snapshot, savedLog, rewound>>

RollbackIsNoop(obs, slot) == obs # <<>> /\ slot >= Last(obs).slot

\* ErrTWAPRollbackUnavailable
RollbackUnavailable(obs, pruned, slot) ==
    /\ ~RollbackIsNoop(obs, slot)
    /\ pruned
    /\ obs = <<>> \/ slot < Head(obs).slot

\* The caller does not go on with an engine that cannot be rolled back.
RollbackTwap(slot) ==
    /\ ~RollbackUnavailable(observations, historyPruned, slot)
    /\ observations' = IF RollbackIsNoop(observations, slot) THEN observations
                       ELSE UntilSlot(slot, observations)
    /\ log' = UntilSlot(slot, log)
    /\ rewound' = (rewound \/ log' # log)
    /\ UNCHANGED <<historyPruned, snapshot, savedLog>>

Snapshot == [observations |-> observations, pruned |-> historyPruned]

\* SaveTWAPState
SaveTwap ==
    /\ snapshot' = Snapshot
    /\ savedLog' = log
    /\ UNCHANGED <<observations, historyPruned, log, rewound>>

\* LoadTWAPState and NewTWAPEngineFromState: every observation is observed
\* again, and must be kept.
Reobserved(obs) ==
    LET kept[i \in 0..Len(obs)] ==
          IF i = 0 THEN <<>> ELSE Pruned(Append(kept[i - 1], obs[i]))
    IN  kept[Len(obs)]
StateIsInvalid(state) ==
    \/ \E i \in 2..Len(state.observations) :
          ~InOrder(SubSeq(state.observations, 1, i - 1), state.observations[i])
    \/ Len(Reobserved(state.observations)) # Len(state.observations)

RestartTwap ==
    /\ ~StateIsInvalid(snapshot)
    /\ observations' = Reobserved(snapshot.observations)
    /\ historyPruned' = snapshot.pruned
    /\ log' = savedLog
    /\ UNCHANGED <<snapshot, savedLog, rewound>>

TwapNext ==
    \/ \E slot \in TwapSlots, lag \in 0..MaxLag, price \in TwapPrices :
          Observe(slot, slot + lag, price)
    \/ \E slot \in TwapSlots : RollbackTwap(slot)
    \/ SaveTwap \/ RestartTwap

-----------------------------------------------------------------------------
(* TWAPAt                                                                  *)

\* The observations in the window: those before it are left out but the last.
InWindow(now) ==
    LET past == UntilTime(now, observations)
        older == Leading({i \in DOMAIN past : past[i].at < now - Window})
    IN  From(IF older > 0 THEN older ELSE 1, past)

CoverageStart(now) ==
    LET first == Head(InWindow(now)).at
    IN  IF first > now - Window THEN first ELSE now - Window

\* ErrInsufficientTWAPHistory and ErrStaleTWAP.
NoTwapAt(now) ==
    LET past == UntilTime(now, observations)
    IN  \/ past = <<>>
        \/ now - Last(past).at > MaxStaleness
        \/ now - CoverageStart(now) < MinCoverage

\* The price of each interval, weighted with its length.
WeightedAt(now) ==
    LET obs == InWindow(now)
        start == CoverageStart(now)
        begin(i) == IF obs[i].at > start THEN obs[i].at ELSE start
        end(i) == IF i = Len(obs) THEN now ELSE obs[i + 1].at
        terms == [i \in 1..Len(obs) |-> obs[i].price *
                    (IF end(i) > begin(i) THEN end(i) - begin(i) ELSE 0)]
    IN  SumTo(Len(obs), terms)

-----------------------------------------------------------------------------
\* The price in effect at a time, by the whole log.
PriceAt(t) == log[LatestAt(t, log)].price
ExactAt(now) ==
    LET start == CoverageStart(now)
    IN  SumTo(now - start, [i \in 1..(now - start) |-> PriceAt(start + i - 1)])

\* Whatever was pruned, rolled back, saved and restored: an average the engine
\* returns is that of all the prices observed on the chain over its coverage;
\* a rollback it accepts leaves the chain's newest observation the newest, and
\* it refuses one only when observations were dropped.  Until the first
\* rollback the coverage is the whole window, unless MaxObservations cut it.  A
\* snapshot can always be restored.
TwapFollowsChain ==
    /\ \A now \in Clock : ~NoTwapAt(now) => WeightedAt(now) = ExactAt(now)
    /\ log # <<>> => observations # <<>> /\ Last(observations) = Last(log)
    /\ \A slot \in TwapSlots :
          IF RollbackUnavailable(observations, historyPruned, slot)
          THEN rewound \/ Len(log) > Len(observations)
          ELSE UntilSlot(slot, log) = <<>> <=> UntilSlot(slot, observations) = <<>>
    /\ ~rewound =>
          \A now \in Clock :
             /\ log # <<>> /\ now \in Last(log).at..(Last(log).at + MaxStaleness)
             /\ now - Head(log).at >= Window
             /\ Len(observations) < MaxObservations
             => ~NoTwapAt(now) /\ now - CoverageStart(now) = Window
    /\ ~StateIsInvalid(snapshot)
=============================================================================
