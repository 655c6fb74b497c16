------------------------------ MODULE MCPrices ------------------------------
EXTENDS Prices

-----------------------------------------------------------------------------
(* Djed: four outputs with open and closed ends, one without the NFT.      *)

Valid(from, fromInclusive, until, untilInclusive) ==
    [from |-> from, fromInclusive |-> fromInclusive,
     until |-> until, untilInclusive |-> untilInclusive, defects |-> {}]

MCDatum ==
    [o1 |-> Valid(1, TRUE, 2, TRUE),
     o2 |-> Valid(1, TRUE, 3, FALSE),
     o3 |-> Valid(1, FALSE, 3, TRUE),
     o4 |-> [Valid(1, TRUE, 3, TRUE) EXCEPT !.defects = {"nft"}]]
MCDjedOutputs == DOMAIN MCDatum

\* An update spends the output before it, in its own block or an earlier one;
\* two outputs of one block are told apart by their indexes.
MCDjedBlocks ==
    {[txs |-> << <<"o1">> >>, spends |-> {}],
     [txs |-> << <<"o2">> >>, spends |-> {}],
     [txs |-> << <<"o2">> >>, spends |-> {"o1"}],
     [txs |-> << <<"o3">> >>, spends |-> {"o2"}],
     [txs |-> << <<"o3", "o4">> >>, spends |-> {"o1"}],
     [txs |-> << <<"o2">>, <<"o3">> >>, spends |-> {"o2"}],
     [txs |-> << <<"o2", "o1">>, <<"o3">> >>, spends |-> {}],
     [txs |-> << >>, spends |-> {"o3"}]}

-----------------------------------------------------------------------------
(* ADA/USD: states of four pools, and two pools that do not count.         *)

MCDecimals == [USDM |-> 1, USDCx |-> 2, DJED |-> 0]
MCMaxPoolShare == <<3, 4>>
MCMaxDivergence == <<1, 2>>
MCCrossLimit == <<1, 4>>

State(pool, slot, coin, ada, stable) ==
    [pool |-> pool, slot |-> slot, txIndex |-> 0, txHash |-> slot,
     coin |-> coin, ada |-> ada, stable |-> stable, fromMempool |-> FALSE]
Pending(p) == [p EXCEPT !.fromMempool = TRUE]

MCPoolStates ==
    {State("a", 1, "USDM", 4, 4), State("a", 2, "USDM", 4, 2),
     Pending(State("a", 3, "USDM", 4, 6)),
     [State("a", 2, "USDM", 4, 6) EXCEPT !.txIndex = 1],
     State("b", 1, "USDCx", 4, 40), State("b", 2, "USDCx", 4, 60),
     State("b", 3, "USDCx", 2, 9),
     State("c", 1, "USDM", 5, 6), State("c", 2, "USDM", 16, 20),
     State("f", 1, "DJED", 8, 1), State("f", 2, "DJED", 8, 3),
     State("d", 3, "other", 5, 5), State("e", 1, NoAda, 5, 5)}

\* A state is once in a list.
MCPoolLists ==
    UNION {{s \in [1..n -> MCPoolStates] : \A i, j \in 1..n : s[i] = s[j] => i = j} :
             n \in 0..3}

Volume(pool, stable, swapCount, windowEnd) ==
    [pool |-> pool, stable |-> stable, swapCount |-> swapCount,
     windowEnd |-> windowEnd, windowSlots |-> 3]
MCVolumeSets ==
    {{}, {Volume("a", 3, 1, 3), Volume("b", 30, 1, 3)},
     {Volume("a", 3, 1, 1), Volume("b", 30, 1, 3)},
     {Volume("a", 1, 1, 3), Volume("b", 30, 0, 3), Volume("c", 5, 2, 3)},
     {Volume(p, 5, 1, 3) : p \in {"a", "c", "f"}}}

MCDjedPrices ==
    {[price |-> p, from |-> 1, fromInclusive |-> TRUE, until |-> u,
      untilInclusive |-> i] :
        p \in {<<1, 1>>, <<5, 4>>, <<0, 1>>}, u \in {2, 3}, i \in BOOLEAN}

-----------------------------------------------------------------------------
(* Swaps: pools with ADA on either side and one with none.                 *)

MCTokens == {"tok", "gem"}
ValueOf(ada, nft, lq, tok, gem) ==
    [c \in Classes |-> CASE c = Ada -> ada [] c = Nft -> nft [] c = Lq -> lq
                         [] c = "tok" -> tok [] c = "gem" -> gem]

PoolOutput(x, y, value) ==
    [ref |-> 2, x |-> x, y |-> y, value |-> value, feeNum |-> 9,
     scriptIsKnown |-> TRUE]
MCPoolOutputs ==
    LET pools == {PoolOutput(Ada, "tok", ValueOf(a, 1, 50, t, 0)) :
                    a \in {0, 20, 33}, t \in {0, 7, 40}}
                 \cup {PoolOutput("tok", Ada, ValueOf(60, 1, 50, t, 0)) : t \in {9, 60}}
    IN  pools \cup {PoolOutput("tok", "gem", ValueOf(5, 1, 50, 20, 20)),
                    [PoolOutput(Ada, "tok", ValueOf(20, 1, 50, 40, 0))
                       EXCEPT !.scriptIsKnown = FALSE]}

Order(base, amount, minQuote, num, den, ref, value) ==
    [base |-> base, baseAmount |-> amount, minQuote |-> minQuote,
     feePerTokenNum |-> num, feePerTokenDen |-> den, ref |-> ref, value |-> value]
MCOrders ==
    {Order(Ada, amount, minQuote, num, 2, ref, ValueOf(coin, 0, 0, 0, 0)) :
        amount \in {0, 5, 12, 60}, minQuote \in {0, 3, 8}, num \in {2, 3, -3},
        ref \in {1, 3}, coin \in {7, 20, 70}}
    \cup
    {Order("tok", amount, minQuote, 3, den, ref, ValueOf(coin, 0, 0, held, 0)) :
        amount \in {1, 6, 30}, minQuote \in {1, 4, 10}, den \in {0, 2, Nil},
        ref \in {1, 3}, coin \in {5, 30}, held \in {6, 30}}
    \cup
    {Order("tok", 100, 4, 3, 2, 1, ValueOf(30, 0, 0, held, 0)) : held \in {6, 100}}
    \cup {Order("gem", 5, 2, 4, 2, 3, ValueOf(12, 0, 0, 0, 5))}

Output(ada, tok, ownedByKey) ==
    [value |-> ValueOf(ada, 0, 0, tok, 0), ownedByKey |-> ownedByKey]
MCWallets ==
    {<<>>, <<Output(9, 0, TRUE), Output(4, 1, TRUE), Output(5, 0, TRUE), Output(3, 0, TRUE)>>,
     <<Output(4, 0, FALSE), Output(8, 0, TRUE), Output(2, 0, TRUE)>>}
=============================================================================
