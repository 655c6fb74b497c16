----------------------------- MODULE MCMempool -----------------------------
(* Instances of Mempool for TLC.                                           *)
EXTENDS Mempool, TLC

CONSTANTS x, y

\* With MaxInt64 = 3 an amount is at most 7.  Asset x stays small, asset y uses
\* the whole range of a uint64.
MCReserves == {x :> 0 @@ y :> 0, x :> 3 @@ y :> 7, x :> 1 @@ y :> 4}

=============================================================================
