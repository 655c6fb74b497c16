------------------------------ MODULE SwapPool ------------------------------
(***************************************************************************)
(* The arithmetic of a Spectrum pool (spectrum/pool.go): what a swap pays  *)
(* out, and what is left in the pool.  A value maps asset classes to       *)
(* amounts.                                                                *)
(***************************************************************************)
EXTENDS Integers

CONSTANTS
    Ada, Nft, Lq, Tokens,    \* asset classes; those of one pool
    FeeDenom,                \* feeDenom, 1000
    MaxWord                  \* 2^64 - 1

ASSUME SwapPoolAssumption ==
    /\ FeeDenom \in Nat \ {0}
    /\ MaxWord \in Nat \ {0}
    /\ Nft # Lq /\ Ada \notin {Nft, Lq} /\ Tokens \cap {Ada, Nft, Lq} = {}

Classes == {Ada, Nft, Lq} \cup Tokens

Word(n) == n % (MaxWord + 1)

\* NewPoolFromUtxoBytes: the reserves are the amounts in the pool's output p.
NewPool(p) ==
    [x |-> [class |-> p.x, amount |-> p.value[p.x]],
     y |-> [class |-> p.y, amount |-> p.value[p.y]],
     lq |-> p.value[Lq], feeNum |-> p.feeNum]

\* The zero AssetAmount, of a class that is not in the pool, is of ADA.
NoAsset == [class |-> Ada, amount |-> 0]

Asset(pool, class) ==
    IF pool.x.class = class THEN pool.x
    ELSE IF pool.y.class = class THEN pool.y ELSE NoAsset

\* With a zero divisor the division panics.
Divisor(in, amount, feeNum) == in * FeeDenom + amount * feeNum

PaidOut_feeless(in, out, amount, feeNum) ==    \* mutant: no fee is taken
    (FeeDenom * (out * amount)) \div Divisor(in, amount, feeNum)
PaidOut(in, out, amount, feeNum) ==
    (feeNum * (out * amount)) \div Divisor(in, amount, feeNum)

OutputForInput(pool, class, amount) ==
    LET payFrom(in, out) ==
          [class |-> out.class,
           amount |-> Word(PaidOut(in.amount, out.amount, amount, pool.feeNum))]
    IN  IF pool.x.class = class THEN payFrom(pool.x, pool.y)
        ELSE IF pool.y.class = class THEN payFrom(pool.y, pool.x)
        ELSE NoAsset

\* The value of the pool's next output.  The input is added without a check; a
\* pool without ADA gets neither of its tokens back.
CalculateReturnToPool(pool, in, out) ==
    LET back == Word(Asset(pool, in.class).amount + in.amount)
        kept == Asset(pool, out.class).amount - out.amount
        hasAda == Ada \in {in.class, out.class}
    IN  [c \in Classes |->
           CASE c = Nft -> 1
             [] c = Lq -> pool.lq
             [] c = in.class /\ hasAda -> back
             [] c = out.class /\ hasAda -> kept
             [] OTHER -> 0]
=============================================================================
