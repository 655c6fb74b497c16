----------------------------- MODULE UtxoStore -----------------------------
(***************************************************************************)
(* The UTxO database of storage.go, and the writes two chain handlers make *)
(* to it: the indexer's own, for the bot wallet, and Spectrum's, for the   *)
(* pools it fills orders with.                                             *)
(*                                                                         *)
(* The database is a record: address is the address of every stored UTxO   *)
(* (the keys utxo_<id> and utxo_<id>_address, always written together),    *)
(* list the comma-separated ids kept for an address, asset the UTxO that   *)
(* holds a pool's NFT.  A write is one Badger transaction.                 *)
(***************************************************************************)
EXTENDS Integers, Sequences, SequencesExt, Functions

CONSTANTS Wallet, Pools    \* addresses: the bot wallet's and Spectrum's pools'

EmptyStore ==
    [address |-> <<>>, list |-> [a \in {} |-> <<>>], asset |-> <<>>]

\* A partial function with one more value.
With(f, k, v) == [x \in DOMAIN f \cup {k} |-> IF x = k THEN v ELSE f[x]]

ListOf(db, a) == IF a \in DOMAIN db.list THEN db.list[a] ELSE <<>>

\* The id is appended also when it is in the list already.
AddUtxo(db, a, u) ==
    [db EXCEPT !.address = With(@, u, a),
               !.list = With(@, a, Append(ListOf(db, a), u))]

\* The ids of a list but one.
Others(ids, u) ==
    LET Kept[i \in 0..Len(ids)] ==
          IF i = 0 THEN <<>>
          ELSE IF ids[i] = u THEN Kept[i - 1] ELSE Append(Kept[i - 1], ids[i])
    IN  Kept[Len(ids)]

\* Every occurrence leaves the list; an emptied list stays as "".
RemoveUtxo_once(db, u) ==    \* mutant: the id stays in the list
    IF u \notin DOMAIN db.address THEN db
    ELSE [db EXCEPT !.address = Restrict(@, DOMAIN @ \ {u})]
RemoveUtxo(db, u) ==
    IF u \notin DOMAIN db.address THEN db
    ELSE LET a == db.address[u]
         IN  [db EXCEPT !.address = Restrict(@, DOMAIN @ \ {u}),
                        !.list = With(@, a, Others(ListOf(db, a), u))]

UpdateAssetUtxo(db, nft, u) == [db EXCEPT !.asset = With(@, nft, u)]

\* The UTxOs the wallet's transactions are built from: an address without an
\* entry, an empty list ("" is split into one empty id) and an id without a
\* UTxO are errors.
GetUtxosFails(db, a) ==
    \/ ListOf(db, a) = <<>>
    \/ ~(Range(ListOf(db, a)) \subseteq DOMAIN db.address)
GetUtxos(db, a) == ListOf(db, a)

\* The pool UTxO that fills an order, by the pool's NFT: its id, the output
\* and the address that owns it.
GetAssetUtxoFails(db, nft) ==
    nft \notin DOMAIN db.asset \/ db.asset[nft] \notin DOMAIN db.address
GetAssetUtxo(db, nft) == db.asset[nft]

-----------------------------------------------------------------------------
(* The writes of a transaction's handlers.  A transaction has a sequence   *)
(* of inputs ins and one of outputs outs with utxo, address and nft.       *)

Write(op, a, u) == [op |-> op, key |-> a, utxo |-> u]
NoWrite == [op |-> "none"]

Commit(db, w) ==
    CASE w.op = "add" -> AddUtxo(db, w.key, w.utxo)
      [] w.op = "remove" -> RemoveUtxo(db, w.utxo)
      [] w.op = "asset" -> UpdateAssetUtxo(db, w.key, w.utxo)
      [] OTHER -> db

\* The database after the first n of some writes.
CommitAll(db, writes, n) ==
    LET After[i \in 0..n] == IF i = 0 THEN db ELSE Commit(After[i - 1], writes[i])
    IN  After[n]

\* Spectrum.handleChainsyncEvent, two steps for each output: one of a pool is
\* stored, then indexed.
SpectrumWrites(tx) ==
    [k \in 1..(2 * Len(tx.outs)) |->
        LET o == tx.outs[(k + 1) \div 2]
        IN  IF o.address \notin Pools THEN NoWrite
            ELSE IF k % 2 = 1 THEN Write("add", o.address, o.utxo)
            ELSE Write("asset", o.nft, o.utxo)]

\* Indexer.handleEvent: consumed UTxOs leave, the wallet's outputs arrive.
IndexerWrites(tx) ==
    [i \in 1..Len(tx.ins) |-> Write("remove", Wallet, tx.ins[i])]
      \o [i \in 1..Len(tx.outs) |->
            IF tx.outs[i].address = Wallet
            THEN Write("add", Wallet, tx.outs[i].utxo) ELSE NoWrite]
=============================================================================
