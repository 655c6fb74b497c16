------------------------------ MODULE MCOracle ------------------------------
(* Instances of Oracle for TLC.                                            *)
EXTENDS Oracle, TLC

CONSTANTS p, q

\* Pools p and q start together, then swap together in one slot; p swaps once
\* more.  Any order of the blocks, and any of them on any fork, is possible.
MCOutputs ==
    (1 :> [pool |-> p, x |-> 1, y |-> 3]) @@
    (2 :> [pool |-> p, x |-> 2, y |-> 2]) @@
    (3 :> [pool |-> p, x |-> 3, y |-> 1]) @@
    (4 :> [pool |-> q, x |-> 3, y |-> 3]) @@
    (5 :> [pool |-> q, x |-> 2, y |-> 4])
MCPayloads == {<<1, 4>>, <<2, 5>>, <<3>>}

\* A block may have none of the pools.
MCPayloadsOrNone == MCPayloads \cup {<<>>}

=============================================================================
