----------------------------- MODULE DjedTracker -----------------------------
(***************************************************************************)
(* The Djed price tracker (price/djed): the oracle outputs of a chain,     *)
(* each authenticated when it is applied, kept after they are spent so     *)
(* that a rollback can restore them, and pruned behind a horizon.          *)
(***************************************************************************)
EXTENDS Integers, Sequences, SequencesExt, DjedOracle

CONSTANTS
    DjedOutputs,    \* refs of outputs at the oracle address
    Datum,          \* [DjedOutputs -> datum, see DjedOracle]
    DjedBlocks,     \* what a block may hold: its transactions' outputs, spends
    DjedSlots, LastTime

ASSUME DjedAssumption ==
    /\ \A o \in DjedOutputs :
          Datum[o].defects \subseteq DatumDefects \cup IdentityDefects
    /\ \A b \in DjedBlocks :
          /\ b.txs \in Seq(Seq(DjedOutputs)) /\ b.spends \subseteq DjedOutputs
          \* a ref names one output
          /\ \A i, k \in 1..Len(b.txs) :
                \A j \in 1..Len(b.txs[i]), l \in 1..Len(b.txs[k]) :
                   b.txs[i][j] = b.txs[k][l] => i = k /\ j = l
    /\ DjedSlots \subseteq Nat

VARIABLES
    tracked,    \* Tracker.observations: a set, one record for a ref
    time,       \* the clock of the callers
    djedChain,  \* the blocks of the chain, with their slots
    horizon,    \* the highest slot pruned before
    rejected    \* history: outputs not accepted when they were last applied

djedVars == <<tracked, time, djedChain, horizon, rejected>>

DjedInit ==
    /\ tracked = {} /\ time = 1 /\ djedChain = <<>> /\ horizon = 0
    /\ rejected = {}

NotSpent == -1

-----------------------------------------------------------------------------
(* tracker.go                                                              *)

Refs(obs) == {x.ref : x \in obs}

\* Apply, for some outputs: one applied again keeps its spend, and one with
\* another observation is refused.
Apply(obs, outs, t) ==
    LET accepted == {o \in outs : /\ ParseMainnetObservation(Datum[o.ref], t)
                                  /\ o.ref \notin Refs(obs)}
    IN  obs \cup {[ref |-> o.ref, slot |-> o.slot,
                   transactionIndex |-> o.transactionIndex,
                   txIndex |-> o.txIndex, spentAt |-> NotSpent] : o \in accepted}

\* ConsumeAt, for some refs.
ConsumeAt(obs, refs, slot) ==
    {IF x.ref \in refs THEN [x EXCEPT !.spentAt = slot] ELSE x : x \in obs}

Prune_boundary(obs, before) ==    \* mutant: a spend at the boundary is pruned
    {x \in obs : ~(x.spentAt # NotSpent /\ x.spentAt <= before)}
Prune(obs, before) ==
    {x \in obs : ~(x.spentAt # NotSpent /\ x.spentAt < before)}

Rollback(obs, slot) ==
    {IF x.spentAt > slot THEN [x EXCEPT !.spentAt = NotSpent] ELSE x :
        x \in {y \in obs : y.slot <= slot}}

ObservationAfter(x, y) ==
    \/ x.slot > y.slot
    \/ /\ x.slot = y.slot
       /\ \/ x.transactionIndex > y.transactionIndex
          \/ x.transactionIndex = y.transactionIndex /\ x.txIndex > y.txIndex

Newest(obs) ==
    CHOOSE x \in obs : \A y \in obs \ {x} : ObservationAfter(x, y)

\* The ref of the newest observation valid at t, or why there is none.
Current(obs, t) ==
    LET unspent == {x \in obs : x.spentAt = NotSpent}
        validAt(x) == ValidateInterval(Datum[x.ref], t) = "valid"
        valid == {x \in unspent : validAt(x)}
    IN  IF valid # {} THEN Newest(valid).ref
        ELSE IF unspent = {} THEN "no_current_observation"
        ELSE ValidateInterval(Datum[Newest(unspent).ref], t)

-----------------------------------------------------------------------------
(* A caller that follows a chain.                                          *)

OutputsOf(b) ==
    UNION {{[ref |-> b.txs[i][j], slot |-> b.slot, transactionIndex |-> i,
             txIndex |-> j] : j \in 1..Len(b.txs[i])} : i \in 1..Len(b.txs)}
RefsOf(b) == {o.ref : o \in OutputsOf(b)}

\* A block's outputs are applied, then its spends.
Deliver(b) ==
    LET produced == Apply(tracked, OutputsOf(b), time)
    IN  /\ tracked' = ConsumeAt(produced, b.spends, b.slot)
        /\ rejected' = (rejected \ RefsOf(b)) \cup (RefsOf(b) \ Refs(produced))

Ledger(blocks) ==
    (UNION {RefsOf(blocks[i]) : i \in DOMAIN blocks})
      \ (UNION {blocks[i].spends : i \in DOMAIN blocks})

RollForward(b) ==
    /\ djedChain # <<>> => b.slot > Last(djedChain).slot
    /\ RefsOf(b) \cap UNION {RefsOf(djedChain[i]) : i \in DOMAIN djedChain} = {}
    /\ b.spends \subseteq Ledger(djedChain) \cup RefsOf(b)
    /\ Deliver(b)
    /\ djedChain' = Append(djedChain, b)
    /\ UNCHANGED <<time, horizon>>

\* The last block once more, as a replay does.
Redeliver ==
    /\ djedChain # <<>>
    /\ Deliver(Last(djedChain))
    /\ UNCHANGED <<time, djedChain, horizon>>

\* The first n blocks stay.  Never behind what was pruned.
RollBackward(n, slot) ==
    /\ slot < djedChain[n + 1].slot /\ (n > 0 => slot >= djedChain[n].slot)
    /\ slot >= horizon - 1
    /\ tracked' = Rollback(tracked, slot)
    /\ djedChain' = SubSeq(djedChain, 1, n)
    /\ rejected' = rejected \cap UNION {RefsOf(djedChain[i]) : i \in 1..n}
    /\ UNCHANGED <<time, horizon>>

PruneTracker(before) ==
    /\ djedChain # <<>> /\ before \in (horizon + 1)..Last(djedChain).slot
    /\ tracked' = Prune(tracked, before)
    /\ horizon' = before
    /\ UNCHANGED <<time, djedChain, rejected>>

Tick ==
    /\ time < LastTime
    /\ time' = time + 1
    /\ UNCHANGED <<tracked, djedChain, horizon, rejected>>

DjedNext ==
    \/ \E b \in DjedBlocks, s \in DjedSlots :
          RollForward([slot |-> s, txs |-> b.txs, spends |-> b.spends])
    \/ Redeliver \/ Tick
    \/ \E n \in 0..(Len(djedChain) - 1), s \in DjedSlots \cup {0} : RollBackward(n, s)
    \/ \E s \in DjedSlots : PruneTracker(s)

-----------------------------------------------------------------------------
\* One output of the chain comes after another: in a later block, or in the
\* same one in a later transaction, or in the same one later.
After(r, s) ==
    \E i, j \in DOMAIN djedChain :
       \E o \in OutputsOf(djedChain[i]), p \in OutputsOf(djedChain[j]) :
          /\ o.ref = r /\ p.ref = s
          /\ \/ i > j
             \/ i = j /\ o.transactionIndex > p.transactionIndex
             \/ /\ i = j /\ o.transactionIndex = p.transactionIndex
                /\ o.txIndex > p.txIndex
LastOf(refs) == CHOOSE r \in refs : \A s \in refs \ {r} : After(r, s)

\* The chain's unspent outputs that were accepted.
LedgerOutputs == Ledger(djedChain) \ rejected

\* Whatever was rolled back, replayed and pruned behind the horizon: the price
\* served at any time is the last in chain order of the chain's unspent,
\* authentic outputs that are valid then; with none valid, the error is that
\* of the last one, and "no observation" is said only of an empty ledger.
DjedIsLedger ==
    \A t \in 1..LastTime :
       LET valid == {r \in LedgerOutputs : ValidateInterval(Datum[r], t) = "valid"}
       IN  Current(tracked, t) =
             IF valid # {} THEN LastOf(valid)
             ELSE IF LedgerOutputs = {} THEN "no_current_observation"
             ELSE ValidateInterval(Datum[LastOf(LedgerOutputs)], t)
=============================================================================
