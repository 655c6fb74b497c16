--------------------------- MODULE TrackedStates ---------------------------
(***************************************************************************)
(* The states two followers of the chain keep in memory and in Badger: the *)
(* lending oracle's (lending_oracle.go, lending_storage.go), one for each  *)
(* market or loan, and the synthetics oracle's collateralised debt         *)
(* positions (oracle.go, storage.go), one for each unspent output.         *)
(*                                                                         *)
(* Both databases are one set of states here.  Every save and delete is a  *)
(* transaction of its own.                                                 *)
(***************************************************************************)
EXTENDS Sequences, Functions

CONSTANTS
    Lending, Cdp,    \* the addresses the two oracles monitor
    StateSlot(_)     \* the slot of a block

\* A produced output whose datum parses; a position is named by its output.
StateOf(o, b) ==
    [address |-> o.address, utxo |-> o.utxo, block |-> b,
     key |-> IF o.address = Cdp THEN o.utxo ELSE o.key]
KeyOf(s) == <<s.address, s.key>>

-----------------------------------------------------------------------------
(* Writes: a set of deletions, in any order, then saves in the order of    *)
(* the transaction's outputs.                                              *)

Deletes(gone) == [deletes |-> gone, saves |-> <<>>]

\* The outputs at an address, by their position.
Produced(tx, address, b) ==
    [i \in {j \in DOMAIN tx.outs : tx.outs[j].address = address} |->
        StateOf(tx.outs[i], b)]

\* The last write to a key is what it has.
CommitStates(states, w) ==
    LET last == {i \in DOMAIN w.saves : \A j \in DOMAIN w.saves :
                    KeyOf(w.saves[j]) = KeyOf(w.saves[i]) => j <= i}
        saved == {w.saves[i] : i \in last}
    IN  {s \in states : \A t \in w.deletes \cup saved : KeyOf(t) # KeyOf(s)}
          \cup saved

SavesOnly(w, is) == [w EXCEPT !.saves = Restrict(@, is)]

\* One of the writes fails, the others are made.
OneFails(w) ==
    {[w EXCEPT !.deletes = @ \ {s}] : s \in w.deletes}
      \cup {SavesOnly(w, DOMAIN w.saves \ {i}) : i \in DOMAIN w.saves}

\* The writes are cut short.
Interrupted(w) ==
    {Deletes(gone) : gone \in SUBSET w.deletes}
      \cup {SavesOnly(w, {j \in DOMAIN w.saves : j <= i}) : i \in DOMAIN w.saves}

\* What Start loads: the lending oracle only the states of its protocol.
LoadAllCdps(saved) == {s \in saved : s.address = Cdp}
LoadLending(saved) == {s \in saved : s.address = Lending}

-----------------------------------------------------------------------------
(* The handlers                                                            *)

\* Oracle.handleTransaction of a synthetics profile: the positions spent by
\* the transaction are deleted before the produced ones are stored.
SpentCdps(states, tx) ==
    {s \in states : s.address = Cdp /\ s.utxo \in Range(tx.ins)}
SyntheticsWrites(states, tx, b) ==
    [deletes |-> SpentCdps(states, tx), saves |-> Produced(tx, Cdp, b)]

\* LendingOracle.handleTransaction looks at produced outputs only.
LendingWrites(tx, b) == [deletes |-> {}, saves |-> Produced(tx, Lending, b)]

\* handleRollback of either: every later state is deleted, in memory first.
RolledBack_after(states, address, slot) ==    \* mutant: one slot too many kept
    {s \in states : s.address = address /\ StateSlot(s.block) > slot + 1}
RolledBack(states, address, slot) ==
    {s \in states : s.address = address /\ StateSlot(s.block) > slot}
=============================================================================
