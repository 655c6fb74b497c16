---------------------------- MODULE ChainClient ----------------------------
(***************************************************************************)
(* What a chain-sync client is promised: from the intersection on, every   *)
(* message either extends the chain it has by the next block or takes it   *)
(* back to a block it has.  A server may only break the promise to a       *)
(* client it has lost: one that missed a rollback behind its intersection. *)
(***************************************************************************)
EXTENDS Integers, Sequences

CONSTANTS Blocks, Genesis, Parent    \* the tree of blocks

VARIABLES
    view,    \* the client's chain
    lost     \* the client was lost

LastOf(chain) == IF chain = <<>> THEN Genesis ELSE chain[Len(chain)]
IsChain(chain) ==
    \A i \in 1..Len(chain) :
        Parent[chain[i]] = LastOf(SubSeq(chain, 1, i - 1))

Init == view = <<>> /\ lost = FALSE

\* The client finds an intersection on a chain of its own.
Intersect == view = <<>> /\ view' # <<>> /\ IsChain(view') /\ UNCHANGED lost
Disconnect == view' = <<>> /\ lost' = FALSE

RollForward(b) ==
    /\ view # <<>>
    /\ Parent[b] = LastOf(view)
    /\ view' = Append(view, b)
    /\ UNCHANGED lost

RollBackward(k) ==
    /\ k < Len(view)
    /\ view' = SubSeq(view, 1, k)
    /\ UNCHANGED lost

\* Nothing is promised for a step after which the client is lost.
Lose == lost'

Next ==
    \/ Intersect \/ Disconnect \/ Lose
    \/ \E b \in Blocks : RollForward(b)
    \/ \E k \in 0..Len(view) : RollBackward(k)

Spec == Init /\ [][Next]_<<view, lost>>
=============================================================================
