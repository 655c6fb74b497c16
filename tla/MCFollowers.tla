---------------------------- MODULE MCFollowers ----------------------------
(* Followers over a tree of four blocks: a1 <- a2 <- a3 and a1 <- b2, where *)
(* b2 is older than a3 and newer than a2.                                   *)
EXTENDS Followers

CONSTANTS a1, a2, a3, b2

MCBlocks == {a1, a2, a3, b2}
MCParent ==
    [b \in MCBlocks |-> CASE b = a1 -> Genesis [] b = a3 -> a2 [] OTHER -> a1]
MCSlot ==
    [b \in MCBlocks |->
        CASE b = a1 -> 1 [] b = a2 -> 2 [] b = b2 -> 3 [] b = a3 -> 4]

Out(u, a, k) == [utxo |-> u, address |-> a, nft |-> k, key |-> k]
Tx(ins, outs) == [ins |-> ins, outs |-> outs]

MCPools == {"pool"}
MCTxsOf ==
    [b \in MCBlocks |->
        CASE b = a1 -> <<Tx(<<>>, <<Out("w1", "wallet", "-"),
                                  Out("p1", "pool", "nft"),
                                  Out("l1", "lending", "market"),
                                  Out("c1", "cdp", "-")>>)>>
          [] b = a2 -> <<Tx(<<"w1", "p1", "c1">>, <<Out("w2", "wallet", "-"),
                                                  Out("p2", "pool", "nft"),
                                                  Out("l2", "lending", "market"),
                                                  Out("c2", "cdp", "-")>>)>>
          [] b = a3 -> <<>>
          [] b = b2 -> <<Tx(<<"p1", "c1">>, <<Out("p4", "pool", "nft"),
                                            Out("l4", "lending", "market"),
                                            Out("w4", "wallet", "-")>>)>>]
=============================================================================
