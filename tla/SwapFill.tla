------------------------------ MODULE SwapFill ------------------------------
(***************************************************************************)
(* The Spectrum swap filler: the transaction it builds for a swap order it *)
(* sees in the mempool (spectrum/tx.go).                                   *)
(*                                                                         *)
(* A pool and an order have the ref and the value of their output and the  *)
(* fields of their datum that matter; a wallet is a sequence of outputs.   *)
(* Refs are numbers in the order of transaction inputs.                    *)
(***************************************************************************)
EXTENDS Sequences, FiniteSets, SequencesExt, SwapPool

CONSTANTS
    Nil,                  \* a number missing from a datum
    SwapTxFee,            \* swapTxFee
    CollateralPercent,    \* of the protocol parameters
    MaxInt                \* 2^63 - 1

AdaOnly(amount) == [c \in Classes |-> IF c = Ada THEN amount ELSE 0]

\* Of at most four values: a swap has two inputs and up to four outputs.
Total(values) ==
    LET at(i, c) == IF i \in DOMAIN values THEN values[i][c] ELSE 0
    IN  [c \in Classes |-> at(1, c) + at(2, c) + at(3, c) + at(4, c)]

-----------------------------------------------------------------------------
RequiredCollateral == (SwapTxFee * CollateralPercent + 99) \div 100

IsCollateral(u) ==
    /\ \A c \in Classes \ {Ada} : u.value[c] = 0
    /\ u.ownedByKey
    /\ u.value[Ada] >= RequiredCollateral

\* The first of the smallest outputs of the wallet that qualify.
SelectCollateralUtxo(wallet) ==
    LET fit == {i \in DOMAIN wallet : IsCollateral(wallet[i])}
        amount(i) == wallet[i].value[Ada]
    IN  wallet[CHOOSE i \in fit : \A j \in fit :
                  amount(i) < amount(j) \/ (amount(i) = amount(j) /\ i <= j)]

AbsOf(n) == IF n < 0 THEN -n ELSE n

\* In big.Float: the product and the quotient are rounded, which may move the
\* result by one; a negative result is 0, a large one the largest uint64.
MatcherFee(order, rounding) ==
    LET product == order.minQuote * AbsOf(order.feePerTokenNum)
        fee == product \div AbsOf(order.feePerTokenDen) + rounding
    IN  IF fee < 0 \/ order.feePerTokenNum * order.feePerTokenDen < 0 THEN 0
        ELSE IF fee > MaxWord THEN MaxWord ELSE fee

SortedInputIndex(refs, ref) == Cardinality({r \in refs : r < ref})

\* The inputs of a transaction are in order.
SortedInputs(refs) ==
    CHOOSE s \in [1..Cardinality(refs) -> refs] :
       \A i, j \in DOMAIN s : i < j => s[i] < s[j]

ValidateSwapTxInputs(inputs, poolRef, swapRef, poolIdx, swapIdx) ==
    /\ Len(inputs) = 2
    /\ inputs[poolIdx + 1] = poolRef /\ inputs[swapIdx + 1] = swapRef

Fails(reason) == [status |-> reason]

\* Apollo's Complete: what the outputs and the fee leave of the inputs is paid
\* to the change address.
Left(inputs, outputs) ==
    [c \in Classes |-> Total(inputs)[c] - AdaOnly(SwapTxFee)[c]
                        - Total([i \in DOMAIN outputs |-> outputs[i].value])[c]]
Complete(outputs, left) ==
    IF \E c \in Classes : left[c] > 0
    THEN Append(outputs, [to |-> "wallet", value |-> left])
    ELSE outputs

\* The outputs, once the amounts are known to fit, and the redeemers.
BuildSwapTx(p, order, poolReturn, rewardValue, change, collateral) ==
    LET refs == {p.ref, order.ref}
        inputs == SortedInputs(refs)
        poolIdx == SortedInputIndex(refs, p.ref)
        swapIdx == SortedInputIndex(refs, order.ref)
        outputs == <<[to |-> "pool", value |-> poolReturn],
                     [to |-> "trader", value |-> rewardValue],
                     [to |-> "wallet", value |-> AdaOnly(change)]>>
        left == Left(<<p.value, order.value>>, outputs)
    IN  IF \E c \in Classes : left[c] < 0 THEN Fails("unbalanced")
        ELSE IF ~ValidateSwapTxInputs(inputs, p.ref, order.ref, poolIdx, swapIdx)
        THEN Fails("input_order")
        ELSE [status |-> "built", inputs |-> inputs,
              outputs |-> Complete(outputs, left), collateral |-> collateral,
              poolIdx |-> poolIdx, swapIdx |-> swapIdx, rewardIdx |-> 1]

\* newSwapTxChainContext: the scripts of the pool and of the order are known.
HasReferenceScripts(p) == p.scriptIsKnown

\* createSwapTx as far as the reward: why it fails, or None.
None == "none"
RewardError(p, order, wallet) ==
    LET pool == NewPool(p)
        reward == OutputForInput(pool, order.base, order.baseAmount)
        reserve == Asset(pool, order.base).amount
    IN  IF ~HasReferenceScripts(p) THEN "no_reference_script"
        ELSE IF ~\E i \in DOMAIN wallet : IsCollateral(wallet[i])
        THEN "no_collateral"
        ELSE IF /\ order.base \in {p.x, p.y}
                /\ Divisor(reserve, order.baseAmount, p.feeNum) = 0
        THEN "panic"
        ELSE IF reward.amount < order.minQuote THEN "below_minimum"
        ELSE IF reward.class # Ada /\ reward.amount > MaxInt THEN "int64"
        ELSE IF reward.amount = 0 THEN "no_reward"
        ELSE None

\* createSwapTx, with its checks in their order.
CreateSwapTx(p, order, wallet, rounding) ==
    LET pool == NewPool(p)
        base == [class |-> order.base, amount |-> order.baseAmount]
        reward == OutputForInput(pool, base.class, base.amount)
        poolReturn == CalculateReturnToPool(pool, base, reward)
        matcherFee == MatcherFee(order, rounding)
        coin == order.value[Ada]
        leftover == coin - matcherFee - (IF base.class = Ada THEN base.amount ELSE 0)
        rewardAda == leftover + (IF reward.class = Ada THEN reward.amount ELSE 0)
        rewardValue == [c \in Classes |-> IF c = Ada THEN rewardAda
                                          ELSE IF c = reward.class THEN reward.amount
                                          ELSE 0]
    IN  IF RewardError(p, order, wallet) # None
        THEN Fails(RewardError(p, order, wallet))
        ELSE IF Asset(pool, reward.class).amount < reward.amount
        THEN Fails("underflow")
        ELSE IF \E c \in Classes \ {Ada} : poolReturn[c] > MaxInt
        THEN Fails("int64")
        ELSE IF order.feePerTokenNum = Nil \/ order.feePerTokenDen \in {Nil, 0}
        THEN Fails("no_matcher_fee")
        ELSE IF coin < matcherFee THEN Fails("coin_below_fee")
        ELSE IF leftover < 0 THEN Fails("coin_below_base")
        ELSE IF rewardAda > MaxWord THEN Fails("overflow")
        ELSE IF matcherFee <= SwapTxFee THEN Fails("fee_below_tx_fee")
        ELSE IF \/ poolReturn[Ada] > MaxInt \/ rewardAda > MaxInt
                \/ matcherFee - SwapTxFee > MaxInt
        THEN Fails("int64")
        ELSE BuildSwapTx(p, order, poolReturn, rewardValue,
                         matcherFee - SwapTxFee, SelectCollateralUtxo(wallet))

-----------------------------------------------------------------------------
(* The filler meets an order.                                              *)

CONSTANTS PoolOutputs, Orders, Wallets, Roundings

\* Amounts are uint64; the integers of a datum may be missing.
ASSUME SwapFillAssumption ==
    /\ SwapTxFee \in Nat /\ CollateralPercent \in Nat /\ MaxInt \in Nat
    /\ \A p \in PoolOutputs : p.value \in [Classes -> 0..MaxWord] /\ p.ref \in Nat
    /\ \A order \in Orders :
          /\ order.value \in [Classes -> 0..MaxWord] /\ order.ref \in Nat
          /\ order.baseAmount \in 0..MaxWord /\ order.minQuote \in 0..MaxWord
          /\ {order.feePerTokenNum, order.feePerTokenDen} \subseteq Int \cup {Nil}
    /\ \A wallet \in Wallets :
          wallet \in Seq([value : [Classes -> 0..MaxWord], ownedByKey : BOOLEAN])
    /\ Roundings \subseteq Int

VARIABLE fill    \* the order, what it met, and the outcome

NoFill == [status |-> "none"]
SwapInit == fill = NoFill

\* handleTransactionOutput for a swap order from the mempool; what was built
\* is submitted.
FillOrder(p, order, wallet, rounding) ==
    fill' = [status |-> "tried", pool |-> p, order |-> order, wallet |-> wallet,
             rounding |-> rounding, tx |-> CreateSwapTx(p, order, wallet, rounding)]

SwapNext ==
    /\ fill = NoFill
    /\ \E p \in PoolOutputs, order \in Orders, wallet \in Wallets, r \in Roundings :
          FillOrder(p, order, wallet, r)

-----------------------------------------------------------------------------
\* A pool with ADA on a side, reserves and a fee; an order whose output holds
\* the base amount that its datum states, of one of the pool's assets; the
\* pool's reserve and that amount fit a word together (CalculateReturnToPool
\* does not check).
IsProper(p, order) ==
    /\ Ada \in {p.x, p.y} /\ p.x # p.y /\ {p.x, p.y} \subseteq Classes \ {Nft, Lq}
    /\ p.value[p.x] > 0 /\ p.value[p.y] > 0 /\ p.value[Nft] = 1
    /\ p.feeNum \in 1..FeeDenom
    /\ order.base \in {p.x, p.y} /\ order.value[order.base] >= order.baseAmount
    /\ p.value[order.base] + order.baseAmount <= MaxWord
    /\ p.ref # order.ref

\* Filling a proper order neither panics nor fails in the arithmetic, the
\* balance or the order of the inputs.
SwapGoesThrough ==
    fill.tx.status \notin {"panic", "underflow", "unbalanced", "input_order"}

\* The pool's output keeps its NFT and liquidity tokens, and never loses on the
\* product of the reserves.
PoolIsWhole(p, poolOut) ==
    /\ poolOut.to = "pool" /\ poolOut.value[Nft] = 1 /\ poolOut.value[Lq] = p.value[Lq]
    /\ poolOut.value[p.x] * poolOut.value[p.y] >= p.value[p.x] * p.value[p.y]

\* The trader gets the minimum and whatever is left of the order's ADA.
TraderIsPaid(p, order, trader) ==
    LET quote == IF order.base = p.x THEN p.y ELSE p.x
    IN  /\ trader.to = "trader" /\ trader.value[quote] >= order.minQuote
        /\ trader.value[Ada] >= order.value[Ada] - MatcherFee(order, fill.rounding)
             - (IF order.base = Ada THEN order.baseAmount ELSE -order.minQuote)

\* The collateral is the wallet's least output that suffices.
CollateralIsLeast(tx, wallet) ==
    /\ tx.collateral \in Range(wallet) /\ IsCollateral(tx.collateral)
    /\ \A u \in Range(wallet) :
          IsCollateral(u) => tx.collateral.value[Ada] <= u.value[Ada]

\* A transaction built for a proper order balances in every asset, with no
\* negative amount; the pool is whole, and the trader, at the redeemer's output
\* index, is paid; the wallet ends with more than it had; the redeemers'
\* indexes are those of the inputs, and the collateral is the least.
SwapBalances ==
    fill.status = "tried" /\ IsProper(fill.pool, fill.order) =>
      /\ SwapGoesThrough
      /\ fill.tx.status = "built" =>
           LET p == fill.pool
               order == fill.order
               tx == fill.tx
               outs == tx.outputs
           IN  /\ Len(outs) <= 4 /\ \A i \in 1..Len(outs) : outs[i].value \in [Classes -> Nat]
               /\ \A c \in Classes :
                     Total([i \in DOMAIN outs |-> outs[i].value])[c] + AdaOnly(SwapTxFee)[c]
                       = p.value[c] + order.value[c]
               /\ PoolIsWhole(p, outs[1])
               /\ TraderIsPaid(p, order, outs[tx.rewardIdx + 1])
               /\ \E i \in 1..Len(outs) : outs[i].to = "wallet" /\ outs[i].value[Ada] > 0
               /\ tx.inputs[tx.poolIdx + 1] = p.ref
               /\ tx.inputs[tx.swapIdx + 1] = order.ref
               /\ CollateralIsLeast(tx, fill.wallet)
=============================================================================
