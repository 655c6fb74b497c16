# A TLA+ model of shai

shai follows the Cardano chain, keeps the state and the recent swap activity of
DEX pools (and of lending markets and synthetics), serves them over HTTP and
WebSockets, and fills Spectrum swaps it sees in the mempool. This directory
holds TLA+ modules that model its stateful core, TLC configurations that check
them on small instances, and TLAPS proofs of the central safety properties for
every instance. `PROJECT.json` lists components, runs, mutants, the lines each
definition models, hazards, findings and theorems.

    tlc -workers 2 -config MCOracle_sync.cfg MCOracle     # any run: cfg and module
    tlapm OracleProofs.tla                                # any *Proofs.tla

## The system

| component | state | operations | talks to |
|---|---|---|---|
| indexer (`internal/indexer/indexer.go`) | cursor on disk, catch-up status | adder pipeline calls each event handler in turn; `updateStatus` writes the cursor from another goroutine; an error ends the process | node above it, every handler below it, storage |
| watch manager (`indexer/watches.go`) | watches, two indexes, stop flag, callback wait group | register, unregister, `CheckEvent`, expiry, `Stop` | callbacks in goroutines |
| pool oracle (`oracle/oracle.go`) | pools, CDPs, subscribers | `handleTransaction`, `handleRollback`, `Start`, `Stop`, subscribe/notify | tracker, store, mempool manager, API |
| activity tracker (`dex/activity*.go`) | latest slot, swaps of the window | observe, rollback, restore, volume | oracle |
| activity storage (`oracle/activity_storage.go`) | Badger: pool states, swaps, latest slot | save with pruning, batched rollback, load | oracle |
| mempool manager (`oracle/mempool.go`) | per pool: confirmed state, pending effects and their order | add, remove, confirm, forget | oracle, mempool feed |
| API (`oracle/api.go`) | WebSocket connections, stop channel | connect, broadcast, ping, stop, queries | oracle's subscriptions |
| node (`internal/node`) | connections, per-connection transaction channels and caches, recent blocks, chain-sync server states, mempool | TxSubmission, chain-sync and block-fetch server, reconnects | peers, Spectrum, indexer |
| storage (`internal/storage`) | wallet and pool UTxOs, asset index, cursor, TWAP states | add, remove, look up | indexer, Spectrum |
| Spectrum (`internal/spectrum`) | none of its own | match a mempool swap with a pool output, build and submit the transaction | storage, node, txsubmit |
| lending oracle, synthetics (`oracle/lending_*.go`, `oracle/indigo*`) | states by id, durable copies | update, spend, rollback, subscribe | indexer |
| prices (`price`, `price/djed`) | TWAP observations, Djed outputs | aggregate, observe, consume, rollback | pool states |
| parsers, clients, config, commands | none | decoding, HTTP, wiring | |

What is hard here: a handler that moves memory, disk and published state in
separate steps while the process can die between any two; a cursor that is
written without regard to those steps; rollbacks to any earlier block, also
during recovery from an earlier rollback; Badger transactions of limited size;
callbacks and channel sends racing with shutdown; objects fetched under one
lock and changed under another; channels filled while a lock is held that their
readers need; connections that close while they are being set up; saturating
and wrapping 64-bit arithmetic.

## Modules

`Activity` holds the window and the store as pure operators (no state): what a
transition, an observation, a rollback, a restore, a save and a rollback batch
do. Its comment says how data is abstracted: a pool state is one output on one
block, the per-pool slices of swaps are one set, Badger's two transaction
limits are one count.

`Oracle` extends it to the state machine. Variables are grouped by where they
live: the node's chain and what was sent of it; the pipeline's queue, the
process and the cursor; the store (`dpools`, `dmeta`, `dswaps`); memory
(`pools`, `confirmed`, `latest`, `swaps`); and the handler's locals with a
program counter. One action is one atomic step of the code: a critical section
or one Badger transaction. `ObserveState`, `SavePoolStateAndActivity` and
`PublishState` are `handleTransaction`; `StartRollback`,
`RollbackActivityBatch` (repeated), `RollbackMemory`, `DeletePoolState`
(repeated) and `RollbackReturns` are `handleRollback`, with the failing variants
of each durable step. `Crash` may happen anywhere; `Restart` loads the store,
intersects at the cursor and receives the roll-backward that chain-sync sends
first. The cursor is written at any time, whatever the handlers have done
(`UpdateStatus`). History variables record a rejected event, a refused start,
the swaps a rollback set out to remove (`condemned`), and what was `stranded`
when a process ended: the stored states and swaps that a queued or running
rollback had yet to remove, at or below a cursor that had passed it, so that the
next process does not repeat the rollback (`PassedByCursor`).

`WatchManager` has one action per critical section and two for `Stop`, which
unlocks before it waits. `Mempool` splits each operation of the manager where
it drops one lock and takes the next, with pool objects as an array so that a
detached object can still be written to. `PriceStream` has one step per channel
operation of `notifySubscribers`, the broadcaster, the ping loop and shutdown.

`TxRelay` is a transaction's way through the node. A peer or a local client adds
it to the mempool (`AddTransaction`), whose handlers run with the lock held
until the fill is queued (`SubmitTx`), there is none (`NothingToSubmit`) or
building it divides by zero (`FillDivides`; which orders meet such a pool is the
constant `Dividing`, what makes one is `SwapFill`'s matter). The submitter's
goroutine takes it and posts it (`TakeApi`) until the server answers
(`ApiAnswers`), or (`TakeNtn`) locks the channel map and sends to one connection after
the other (`LockChans`, `SendOutbound`); the peer's requests empty the channel
(`RequestTxIds`, `LookupChan`, `ReceiveTx`, `ReturnTxIds`). Connections are
dialled, registered in three steps, close at any of them, are cleaned up by the
close callback and dialled again. A host may also connect to the node
(`AcceptInbound`, `CloseInbound`): the same callback runs when that connection
closes, finds the host in `outboundConns` if it was ever dialled, and closes a
channel the inbound connection never had. A lock held across a wait is the
program counter of its holder. Two simplifications: a peer has one connection,
and one callback running, at a time, and the redial loops of a peer run one
after the other.

`Followers` composes what follows the chain beside the pool oracle. The
indexer's goroutine takes an event through the handlers in their registered
order, and the process may die between or inside them. The pipeline buffers what
chain-sync sends meanwhile (`ReceiveBlock`, `ReceiveRollback`; `backlog`) and gives
it to the handlers when they are done (`RollForward`, `RollBackward`), and
`UpdateCursor` moves the durable cursor to what was received last at any time.
Two history variables say exactly what a process that ends behind its cursor
loses: `missed`, the blocks of the cursor's chain whose events were not all
handled, and `stranded`, the stored oracle states that are not of the cursor's
chain and not newer than it. `PeerChain` is the
chain-sync server (recent blocks, subscriptions, intersection, `RequestNext`,
the goroutine that awaits a block); `UtxoStore` the UTxO database with the
writes of Spectrum and of the indexer, as sequences of Badger transactions that
a crash cuts anywhere; `TrackedStates` the lending states and collateralised
positions in memory and in Badger, where a write is a set of deletions followed
by saves, any of which may fail or be the last. `ChainClient` is the abstract
specification of a chain-sync client's view: every message extends its chain by
the next block or takes it back to a block it has, until the client is lost.
`Followers` implements it with `view <- view[p]` and `lost <- p \in cutOff`
(`ServesChainClient`), and `CutOffOnlyByDeepRollback` says when a client may be
lost. The history variables `deep` and `outrun` record the two causes.

`Prices` puts four parts side by side that share no state, one `subject` in each
behaviour. `Twap`: the engine, its snapshot, and a log of all observations to
compare with. `DjedTracker` (on `DjedOracle`, what makes a datum authentic and
valid): the tracker driven along a chain with rollbacks, replays and pruning.
`AdaUsd`: one action asks for the aggregate, with and without the activity check
and with the Djed cross-check; rationals are pairs of integers, and the
reference definition of the median is independent of the code's loop. The
activity check passes on the states with volume as a set beside the list (`used`).
`Sums` holds the sum that a loop makes, for both.
`SwapFill` (on `SwapPool`, the pool's arithmetic): one action builds the
transaction for an order, with the checks of `createSwapTx` in their order.

`MC*` modules only add constants for TLC. The theorems are in `OracleProofs` and
`ForkProofs` (on it) for the oracle, and in `WatchManagerProofs`,
`MempoolProofs`, `PriceStreamProofs`, `TxRelayProofs`, `FollowersProofs` and
`PricesProofs`. Operators named `X_something` directly above `X` are mutants:
plausible bugs that make the run of a property fail.

## Runs

| run | expected | shows |
|---|---|---|
| `oracle_sync` | pass | With a reorganisation, a crash or storage failure at any point and rollback batches of one deletion: the store stays restorable (`NoSwapAboveLatest`, `StartNeverRefused`), no legal event is refused (`EventsNeverRejected`), published states are durable (`PublishedIsDurable`), nothing of an abandoned fork is tracked, published or counted, except what was stranded (`CountedIsOnChain`, `OnlyStrandedComesBack`), and swaps leave the store only for age or rollback (`DurableSwapsLeaveForAReason`). |
| `oracle_recovery` | pass | With a budget that never cuts pruning short, a restart would report the same volume (`RestartKeepsVolume`); once the node is quiet the oracle has handled everything (`CatchesUp`). |
| `oracle_lead` | violation | Without that exception (`RolledBackStaysGone`): with the cursor ahead of the handlers, an interrupted rollback does leave a swap that a restart counts. |
| `oracle_retention` | violation | With a budget of one, leftover keys do change the volume after a rollback and restart. |
| `oracle_query` | violation | A volume query fails after a rollback to a block newer than the remaining pools. |
| `watches_safe` | pass | `IndexConsistent`, `NoCallbackAfterShutdown`, `StopReturns`, `TTLWatchesLeave`. |
| `watches_twice` | violation | A second concurrent `Stop` returns while a callback runs. |
| `mempool` | pass | `OrderMatchesPending`, `ResultIsFixed` (rebasing keeps resulting reserves), `ServesWhatWasPublished`, `DeltasNeverWrap`. |
| `price_stream` | pass | `NoSendOnClosed`, `NewestIsKept`, `DropsAreCounted`, `NoStaleConns`, `UpdatesArrive`, `BroadcasterEnds`. |
| `relay` | pass | Fills reach each peer once and in order (`RelayedOnceInOrder`) and their bodies can be fetched (`AnnouncedHasBody`); the process panics for three causes only (`PanicsAreNamed`), a lost connection does not lose the peer unless one without a channel closed (`PeersAreRedialled`), and, if the server of the API path answers, every lock is released unless the submitter waits for a full channel or has ended (`WaitsOnlyForFullChannel`, liveness). |
| `followers` | pass | Across crashes between any two writes, a cursor ahead of or behind the handlers, redelivery, failed writes and rollbacks, and but for what was `missed` or `stranded`: the UTxO database is the ledger of the followed chain (`StoreIsLedger`), tracked states come from it (`TrackedIsOnChain`), a downstream peer gets a chain (`ServesChainClient`, refinement) and is cut off only by a rollback to or behind its intersection, or when the chain outruns it between `FindIntersect` and `Sub` (`CutOffOnlyByDeepRollback`). |
| `prices` | pass | A TWAP is that of the whole chain whatever was pruned, rolled back and restored (`TwapFollowsChain`); Djed's current price is that of the ledger (`DjedIsLedger`); an ADA/USD price is the weighted median of the pools that qualify, in any order of the input (`AggregateIsMedian`); a fill of a proper order goes through or fails with one of the reported errors, balances, keeps the pool whole, pays the trader and the wallet and names its inputs (`SwapBalances`). |

The findings in `PROJECT.json` quote the comment each violation contradicts.

**Bounds.** Oracle: two pools and five outputs, four blocks (three in
`oracle_recovery` and `oracle_lead`) in four slots, a window of one slot, one
reorganisation or reconnect, one fault, and blocks of one or two pool outputs, in
`oracle_query` also of none (`MCOracle.tla`). Four slots with a window of one let a swap
age out of the window and a rollback bring the window back over it; two swaps in
one slot with a budget of one exercise a batch that must exceed its budget; a
reorganisation and a crash together give every interrupted rollback. `QueueCap`
bounds what chain-sync may send ahead: two is enough for a rollback to wait
behind an update. Watches: three watches, two events that fire, two threads in
`Stop`. Mempool: `MaxInt64 = 3` with reserves beyond it, so every saturation
case occurs; three objects allow a pool to be forgotten and made again while a
detached object is in use. PriceStream: a buffer of one and three updates make
the channel overflow twice while the consumer drains it. TxRelay: no, one or two
peers, channels and queue of one, two transactions (one whose fill cannot be
parsed, or divides by zero). The bounds depend on the hosts (`MCTxRelay.tla`):
with none or one host there are three or four fills, so that a channel, the
submitter and the queue are all full, or the queue behind a server that hangs; a
host that connects to the node has one inbound connection and two closes, so
that it closes after an outbound one did; two hosts lose one connection.
Followers: a tree of four blocks with a fork, outputs of the wallet, of a pool,
of a loan and of a position, created and spent in it; two troubles
(reorganisation, crash, failed write), one of which may be a peer that connects
instead, one message in the pipeline's buffer, which puts the cursor one message
ahead of the event being handled, one peer, `MaxRecent = 1` and `BufferSize =
1`, so that a block leaves the recent ones while a peer intersects (it takes two
more before the peer subscribes for a gap) and a channel is full when the next
block is published; the proofs cover every size. Prices: a window of three with
slots 1, 2, 3 and 5 and three observations, so that pruning by age and by number
and a rollback between them happen; four Djed outputs in blocks of one to three,
with defects and intervals that begin late and end early; lists of up to three
of thirteen pool states with ties, zero weights and a sum beyond `MaxUsdWord`;
words of 7 bits and a fee denominator of 10 for swaps, so that each check of
`createSwapTx` fails for some order. No symmetry is used. Deadlock is not
checked: every bounded model legitimately stops when its bounds are used up or
everything has shut down; the liveness properties take its place.

**Fairness.** `Oracle`: the pipeline's goroutine keeps running, chain-sync keeps
sending blocks it has, and a supervisor restarts the process (the code exits on
errors and relies on that); nothing is assumed of the node, the status
goroutine or faults. `WatchManager`: callbacks end, a waiting `Stop` and the
expiry ticker get to run. `PriceStream`: runnable goroutines run, a client reads
what it subscribed to, and a read loop notices a closed socket; nobody has to
send, connect, leave or stop. `TxRelay`: the node's own goroutines run, nothing
is assumed of peers, clients, time or the chain. Nothing is assumed of the server
`startApi` posts to either, since `http.DefaultClient` has no timeout;
`WaitsOnlyForFullChannel` therefore has a premise, `ServerAnswers`. `Followers` and `Prices` state no
liveness and need no fairness. All are weak fairness, which the Go scheduler
gives a goroutine that stays runnable.

## Proofs

Proved with TLAPS for all values of the constants: any chain, any number of
pools, watches, peers, clients and threads, any capacity and width. Every safety
invariant and action property that the passing runs check is a theorem, and so is
the refinement of `ChainClient`. Each proof has the same
layout: an inductive invariant, checked by TLC before it was proved; a lemma per
action that it is preserved; and a last theorem that draws the property from it.

**Assumptions**, named in the modules and evaluated by TLC on every run:
`Window > 0`, `DeleteBudget >= 0`, outputs and payloads of the right kind, no
output twice in a payload (the ledger produces an output once), slots below
`MaxUint64`, a queue, channels and buffers of at least one, finitely many
WebSocket clients (`ClientsAssumption`), a positive fee denominator. For
`Followers` these are: blocks form a tree along which slots grow
(`TreeAssumption`); a new subscriber's channel holds the recent blocks
(`BufferAssumption`; `Sub` sends them with the lock held, and the code's constants
satisfy it); transactions have sequences of inputs and outputs (`TxsAssumption`);
the two oracles monitor different addresses (`AddressAssumption`); and the rules
of the ledger the chain was validated by: an output is spent after it was
produced, a pool's NFT is in one unspent output (`LedgerAssumption`), and an id
names one output on all forks, being a hash and an index (`IdAssumption`). One
theorem has a hypothesis of its own, and a run shows that the property fails
without it (`StoreFits` below). None restricts when the cursor is written.

**`OracleProofs`** (store).
- `BatchKeepsOrder`: a rollback batch keeps every remaining swap at or below the
  latest slot it records. The lemmas say why: a batch takes whole slots from the
  newest down (`BatchTakesTheNewest`), takes at least one key when there is one
  (`BatchMakesProgress`), and the slot it rewinds to is that of a key it removed
  (`BatchRewindsToAKey`). `SaveKeepsOrder` is the same for a save.
- `TypeCorrect`, `StoreStaysOrdered` (`NoSwapAboveLatest`) and `StartSucceeds`
  (`StartNeverRefused`). `NoSwapAboveLatest` is not inductive on its own: a save
  writes a swap computed in an earlier step. `StorageInv` adds that the pool maps
  have one state per pool and that the swap a handler is about to save has the
  slot of the state it saves with it (`RecordedAtCur`).

**`OracleProofs`** (events and handler). `EventsAccepted`
(`EventsNeverRejected`) and `DurableFirst` (`PublishedIsDurable`) hold wherever
the cursor is. That the tracker refuses nothing depends on what is still in the
queue, so `PipeInv` relates four things:
- the queue is in the chain's order and ends at the block the client was sent
  (`QueueInv`): between two rollbacks updates ascend, and a rollback is followed
  only by later slots;
- all the oracle holds comes before the updates that will be handled first, or a
  running rollback will leave only what does (`AheadInv`, `ReachedInv`). A
  rollback whose storage failed never rewinds the tracker, but the process then
  ends: the clause is conditional on `NotRewound`;
- what the running rollback has already removed (`RollInv`);
- how pool map, store and mempool manager differ at each program counter
  (`CopiesInv`).

`SwapsLeaveForAReason` proves the action property `DurableSwapsLeaveForAReason`.
`VolumeSurvivesRestart` proves `[]StoreFits => []RestartKeepsVolume`, where
`StoreFits` says that the stored swaps are fewer than a transaction may delete;
pruning is then complete, and `WindowInv` can say that tracker and store hold the
same window except for what the handler is doing. `oracle_retention` is the
counterexample without `StoreFits`.

**`ForkProofs`** (reorganisations). `NoForkIsCounted` (`CountedIsOnChain`) and
`RolledBackIsGone` (`OnlyStrandedComesBack`), wherever the cursor is. `ForkInv` says
of everything held in memory or in the store and not stranded, and of every
queued update, that its block is followed or a rollback that removes it is queued
or running (`HeldInv`, `QueuedInv`). A crash loses queue and handler, so this is not
enough: `Sound(r)` adds what a restart would do with `r`, which is to keep it only
if it is on the chain and otherwise to begin with a rollback from the cursor that
covers it. What a lost rollback had yet to remove is behind the cursor and so
removed by that first one, or stranded: the theorems show that the exception is
no larger than that, and `oracle_lead` that it is not empty. `GoneInv` tracks the
swaps a rollback set out to remove.

**`WatchManagerProofs`.** `TypeCorrect`, `IndexesAgree` (`IndexConsistent`; the
strengthening `IndexInv` adds that every registered id was handed out, so the
next one is fresh) and `ShutdownIsQuiet` (`NoCallbackAfterShutdown`;
`ShutdownInv` adds that a `Stop` past its first step implies the stop flag, and
that a stopped manager has no watches left that could fire).

**`MempoolProofs`.** `OrderCorrect` (`OrderMatchesPending`), `ResultsFixed`
(`ResultIsFixed`), `ServesPublished` (`ServesWhatWasPublished`), `NeverWraps`
(`DeltasNeverWrap`). `OrderOK` and `FixedOK` are about every pool object ever
made, the detached ones too, since a feeder may still hold one. `Tracking` is
what the two lock sections of the handler need: pools share no object, and the
object it looked up is still the tracked one when it locks it, because only the
handler drops objects. The arithmetic lemmas treat each case of saturation and
of two's complement once.

**`PriceStreamProofs`.** `NeverSendsOnClosed` (`NoSendOnClosed`), `NewestSurvives`
(`NewestIsKept`), `DropsCounted` (`DropsAreCounted`) and `ConnsNeverStale`
(`NoStaleConns`). `ChannelInv` says that a channel holds consecutive updates that
end with the newest one offered, also between the drop and the second send
(`RoomToResend`). The counter is the sum, over a set of any size, of what each
subscriber lost (`Lost`); the sum is a fold over a set, and `SumChanges` (one
element changes, so does the sum) rests on an induction over finite sets that
takes a smallest counterexample among the subsets (`SubsetInduction`).

**`TxRelayProofs`.** `RelayedInOrder`, `BodiesServed` (`AnnouncedHasBody`),
`PanicsHaveACause` (`PanicsAreNamed`), `NoPeerLost` (`PeersAreRedialled`).
`RelayInv` has a conjunct per question for each connection: `ClientOK` (requests
are served only after setup), `RelayOK` (what was sent is announced, in the
handler's hands or in the channel, in this order), `LifeOK` and `KeptOK` (which
combinations of setup, callback, sleep and registration exist). The last two
exclude the peers of which a connection closed that had no channel (`early`): those
are the ones the code does lose. The sends of `AddOutboundTransaction` never meet a
closed channel because its lock keeps `registered` as it was (`QueueTypes`).

**`FollowersProofs`.** Four theorems on three invariants. All rest on
`PipelineInv`: the followed blocks are a chain, the queue is a rollback to its
newest block, or that block with its transactions from some one on, and the
messages in the buffer continue the chain one after the other (`BacklogInv`).
- `CutOffOnlyByDeepRollbackHolds` and `PeersAreServed` (`ServesChainClient`, the
  refinement), from `PeerInv` (`FollowersInvariant`). What a peer has been sent
  says nothing by itself, so `StreamInv` relates the peer's view, its channel and
  the item being published: a first part of the stream are blocks the peer has,
  from then on every item fits the block before it (the next block, or a rollback
  to one of its ancestors), and the last one leads to where the node's handler is
  (`NodePoints`). Unless a deep rollback happened, everything behind the first part
  is newer than the intersection: that is why the comparison in
  `chainsyncServerRequestNext` skips nothing the peer needs. `RecentInv` says that
  the recent blocks are the end of that chain, `FoundInv` that they still continue
  from an intersection found earlier unless the peer was outrun. The refinement
  then takes one lemma per kind of message.
- `TrackedIsOnChainHolds` (`TrackedIsOnChain`), from `TrackedInv`. While the
  process runs, a state in memory or in Badger is on the chain or a rollback the
  oracle has yet to see removes it (`OnChain`). Since a rollback deletes from
  Badger only what it finds in memory, every durable state must be `Backed` by one
  in memory that is no older. A crash loses queue and memory: `RestInv` says that
  what is then in Badger is on the cursor's chain or newer than the cursor, so the
  first rollback of the restart removes it, or stranded.
- `StoreIsLedgerHolds` (`StoreIsLedger`), from `StoreInv`. The handlers ignore
  rollbacks and see blocks again after a restart, so the database is never simply
  the ledger of a point of the chain. `Indexed` says what survives: nothing that
  the indexer has seen spent is stored, and every output of the wallet or of a pool
  that was seen produced is stored, and indexed if it is a pool's, unless a block
  ever applied spends it. It holds of what each handler has seen, for a prefix of
  any block's writes (`CommitMany`: a crash between any two), and again for the
  shorter chain of the cursor (`IndexedLess`). What is `Odd`, being produced or spent
  in a missed block, is left out on both sides; a cursor past the handlers adds
  exactly the blocks between to it (`MissedOnly`). `CommitAllSteps`, `OneOutput` and
  `CommitOne` say what the recursive functions `CommitAll` and `Others` compute;
  they are proved from the least element of a set of naturals (`LeastNatural`),
  which needs no induction theorem with an operator parameter.

**`PricesProofs`.**
- `PoolNeverLoses`: for all positive reserves, all amounts and every fee up to the
  denominator, what `OutputForInput` computes is at most the reserve and the
  product of the reserves does not fall. `PaidOutIsFair` is the core: the rounded
  quotient times the new reserve is at most the input times the other reserve.
- `SwapBalancesHolds` (`SwapBalances`), for every pool, order, wallet, rounding
  and word size. The invariant, `FillOK`, says that a fill is what `CreateSwapTx`
  makes of some pool, order and wallet; the rest is about that operator.
  `SwapOutcome` follows its checks in their order: for a proper order it ends
  with one of the reported errors or in `BuildSwapTx` with amounts in range.
  `SwapAmounts` shows by asset class, with `PoolNeverLoses` for the quote, that
  the two inputs cover what goes to the pool, the trader, the wallet and the fee;
  `BuiltSwap` that what is left over makes the balance exact. `InputsAreValid`: the
  indexes counted before the transaction is built are those of its sorted inputs,
  so the two late checks of `createSwapTx` never fail. `LeastCollateral`: the
  output chosen is the wallet's least that qualifies. Assumed
  (`SwapFillAssumption`): amounts are words of the model's width, the numbers of a
  datum are integers or missing.
- `DjedIsLedgerHolds` (`DjedIsLedger`), for chains of any length. `DjedInv`: the
  chain produces an output once, in blocks of rising slots, and spends it once and
  not before (`ChainOK`); what is tracked was produced on the chain and carries the
  slot of the block that spends it (`HeldOK`); every output of the chain is
  tracked, was rejected, or was spent behind the horizon (`KeptOK`); none is
  tracked twice or both tracked and rejected (`OnceOK`). `KeptOK` is why pruning is
  safe: a rollback stops at the horizon, so it cannot bring back what was pruned.
  `ObservationOrder` and `NewestIsLast` show that the order the tracker compares
  with (slot, transaction, output) is the chain's order, so that `Current` picks
  the ledger's last. Assumed (`DjedAssumption`): within a block an output has one
  place, and spends name outputs.
- `PruneIsInvisible`: pruning before a slot changes no unspent observation, now
  or after a rollback to the slot before it or a later one, for every set of
  observations. It is why the strict comparison in `Prune` matters.
- `TwapFollowsChainHolds` (`TwapFollowsChain`), for every window, bound, price and
  clock. `TwapInv` says the same (`Follows`) of the engine with the log and of the
  snapshot with the log at the save: the log rises in slot and time, what is
  retained is the end of it and holds the newest (`Suffix`), is within the bound
  with at most one observation before the window (`Bounded`), and is all of it
  unless something was pruned; until the first rollback, what is missing is behind
  the window or beyond the bound (`Covered`). `Bounded` is why a snapshot can be
  restored: observing its observations again prunes none (`ReobservedIs`).
  `PriceInInterval` is the core of the average: between an observation of the
  window and the next, the whole log has no other, so pruning cannot change the
  price there; `IntervalSum` then equates the sum by intervals, which the code
  makes, with the sum by units of time, which defines the average. Assumed
  (`TwapAssumption`): what `NewTWAPEngine` checks of a configuration, and that
  slots are naturals and times and prices integers.
- `AggregateIsMedianHolds` (`AggregateIsMedian`), for every list of pool states,
  set of volumes, limits and decimals. There is one state change, the request, so
  the invariant (`AskedOK`) only says that the answer is what the operators return;
  the rest is about them. `LatestIsNewest`: the loop that keeps one state per pool
  ends with the newest ones in any order of the list; the strengthening is that
  each state passed over has a kept one that is not older (`AreSuperseded`).
  `GcdDivides` (Euclid's algorithm), `MidpointSame`, `MidpointBetween` and
  `SpreadGrows` are the arithmetic of fractions. `ByPriceIs`: a finite set of
  observations can be sorted. With the running totals of the sorted weights
  (`IsLadder`), `MedianIndexIs` and `NextWeightyIs` say where the loop stops,
  `LeastIs` and `MostIs` that the prices there are the least and the greatest with
  half of the weight on their side, and `MedianIsMiddle` puts them together.
  Assumed (`AdaUsdAssumption`): amounts, slots and limits are numbers, the
  divergence limit is a fraction, and a place on the chain (slot, transaction) has
  one state of a pool; without it, the result does depend on the order.

**Only model-checked:** liveness, since fairness and `ENABLED` are beyond the
prover: `CatchesUp`, `StopReturns`, `TTLWatchesLeave`, `UpdatesArrive`,
`BroadcasterEnds`, `WaitsOnlyForFullChannel`.

## Observations

Facts about the code that the models contain and no document contradicts; the
properties name each as an exception instead of excluding the states.

- Relay. Any acknowledgement clears a connection's cache, so the bodies of ids
  announced before it and not acknowledged are gone; the number of ids asked for
  is ignored. One peer that stops asking fills its channel; the submitter then
  waits with `connTransactionChansMutex` held, the queue fills, the filler waits
  with the mempool lock held, and the indexer's handler waits for that lock. A
  connection that closes between `AddConnection` and its registration makes the
  callback close a nil channel, or is never redialled; so does an inbound
  connection of a host, which has the same ConnectionId and never had a channel.
  An order for a pool without reserves divides by zero in `OutputForInput`, which
  ends the process from the mempool handler. `submitTxApi` posts without a timeout:
  a server that hangs fills the queue, and again the filler waits with the mempool
  lock held. The node starts before
  `txsubmit.Start`, so an early fill panics; the bootstrap host that
  `txsubmit.Start` adds is read by nobody. In API mode a fill that cannot be
  parsed ends the submitter's goroutine.
- Chain-sync server. It skips rollbacks to or behind a client's intersection.
  `FindIntersect` and `Sub` do not hold the lock together: if more than
  `maxRecentBlocks` blocks arrive between them, the client gets a block whose
  parent it has not seen (`outrun`). A
  connection that closes while its intersection is being set up is subscribed
  afterwards, and its unread channel stops the indexer once it is full.
  `chainsyncServerState` is read and written without a lock.
- Cursor. `updateStatus` writes it when a message is received. A process that ends
  before its handlers are done with that message never gives them what is between:
  a spent output stays in the UTxO store and a new one is missing (`missed`), a
  position or lending state of an abandoned fork is loaded at the next start, and a
  spent position comes back (`stranded`).
- UTxO store. Rollbacks are ignored. `GetUtxos` fails for an address whose last
  output was spent.
- Swaps. `CalculateReturnToPool` adds without a check, the datum's base amount is
  not compared with the output, a pool with an empty side makes the division
  panic, and a pool of two tokens gets neither of them back. Rounding in
  `big.Float` may move the matcher fee by one (`Roundings`). The guards for
  "underflow", for the order of inputs and for overflow of the reward never fire
  in the model for pools the arithmetic allows.
- Prices. One pool with volume that is not an ADA/stablecoin pool makes
  `AggregateADAUSDWithActivityAt` fail for all. A Djed output applied before its
  interval begins is rejected for good (`rejected`), unless it is replayed later.

## Not modelled

Parsing of datums and CBOR, transaction encoding, HTTP clients, formatting,
configuration and logging: pure or I/O. DEX parsers decode bytes into the pool
states that enter the models as data. Volumes as sums: properties tell swaps
apart. Of modelled components: subscribers and endpoints of the lending oracle,
block-fetch ranges, the tips in chain-sync replies, a second `FindIntersect` on a
connection, peer sharing (always empty), the wallet (keys derived at start),
deposit and redeem orders (decoded and logged only), `ErrNonFinitePrice`, the
`IncludeMempool` option (never set by the code) and the counts of a TWAP answer.
Badger, adder, Ouroboros and Apollo are external: a Badger transaction is atomic
and durable, adder delivers events in order and calls the status function at a
time of its own, the mini-protocols keep their order, `Complete` balances with a
change output.

Checks of the code that the models leave out, and what that means:
- `ActivityTracker.observe` refuses two states of different pools
  (`ErrMismatchedPoolTransition`): the caller looks the previous one up by the key
  of the new one, so it cannot happen.
- `Restore` also checks the configured window and single fields (ids, amounts,
  assets, two swaps of one identity); `RestoreRejects` keeps the order of slots, the
  one that depends on what happened. The others hold of whatever the tracker
  recorded under the same configuration.
- `AggregateADAUSDWithActivityAt` refuses a volume with an empty id or with assets
  other than its pool's: volumes of the model have neither, so `AdaUsd` answers at
  least where the code does.
- `requiredCollateralLovelace` refuses a collateral percentage that is not positive
  or overflows, and `createSwapTx` returns the error of a failing `GetUtxos`; in
  `SwapFill` the percentage is a positive constant and that error is one with
  having no collateral. Neither changes a transaction that is built.

## Plan

1. Done: `Activity`, `Oracle`, `WatchManager`, `Mempool`, `PriceStream`;
   `TxRelay`; `PeerChain`, `UtxoStore`, `TrackedStates` and their composition
   `Followers` with the abstract `ChainClient`; `Prices`. All safety properties are
   proved.
2. `Volume`: an abstract specification (volume of the swaps on the followed
   chain, minus those without a baseline) that `Oracle` implements between events.
3. Lending subscribers beside `PriceStream`; the reserve arithmetic of the DEX
   models as operators.
